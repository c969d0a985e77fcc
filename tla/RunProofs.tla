------------------------------ MODULE RunProofs ------------------------------
(***************************************************************************)
(* Proofs about module Run: whatever the client, the engine and the        *)
(* connection do, the run's stream keeps the promise of RunPromise and     *)
(* nothing follows a stop; and what a client can rely on that waits for    *)
(* its replies.                                                            *)
(***************************************************************************)
EXTENDS Run, TLAPS

Event == [event : {"test_case", "test_done"}, final : BOOLEAN, n : 0..MaxCases]

Types ==
  /\ kind \in AllKinds /\ phase \in Phases /\ final \in BOOLEAN
  /\ case \in Nat /\ found \in Nat /\ left \in Nat
  /\ result.n \in 0..MaxCases
  /\ events \in Seq(Event)

\* A single test case has one test case, before test_done, and no replays.
SingleInv ==
  kind = "single" =>
    /\ phase \in {"setup", "open"} => events = <<>>
    /\ phase \in {"opening", "reading", "report"} => events # <<>>
    /\ phase \in {"reporting", "replay"} => left = 0

\* The engine has no more failures than test cases.
FoundInv ==
  /\ phase = "engine" => kind = "run_test"
  /\ kind = "run_test" =>
       /\ phase \in {"setup", "engine", "open"} => found <= case /\ case <= MaxCases
       /\ phase = "open" => case < MaxCases
       /\ phase \in {"opening", "reading"} /\ ~final => found < case /\ case <= MaxCases

RunInv == Types /\ SingleInv /\ FoundInv

ClientSide == Client \/ Refuse \/ Vanish \/ UNCHANGED vars
WorkerLoses == Timeout \/ ReadClosed \/ SendFails \/ SetUpFails

LEMMA InitRun == Init => RunInv
  <1> SUFFICES ASSUME Init PROVE RunInv
    OBVIOUS
  <1>1. result.n = 0 /\ kind \in AllKinds /\ events = <<>>
    BY RunAssumption DEF Init, NoResult, Result
  <1>2. phase = "setup" /\ final = FALSE /\ MaxCases \in Nat
    BY RunAssumption DEF Init
  <1>3. case = 0 /\ found = 0 /\ left = 0
    BY DEF Init
  <1>4. SingleInv
    BY <1>1, <1>2 DEF SingleInv
  <1>5. FoundInv
    BY <1>2, <1>3 DEF FoundInv
  <1>6. Types
    <2>1. phase \in Phases /\ final \in BOOLEAN
      BY <1>2 DEF Phases
    <2>2. result.n \in 0..MaxCases
      BY <1>1, <1>2
    <2>3. events \in Seq(Event)
      BY <1>1
    <2> QED
      BY <1>1, <1>3, <2>1, <2>2, <2>3 DEF Types
  <1> QED
    BY <1>4, <1>5, <1>6 DEF RunInv

\* The client's steps leave the worker and what it has sent alone.
LEMMA ClientChanges == ClientSide => UNCHANGED <<workerVars, events>>
  BY DEF ClientSide, Client, Receive, TakeReply, Ask, Complete, Refuse, Vanish, vars, wireVars

\* What the worker's steps change of the variables the proof is about.
LEMMA LosesChanges ==
  ASSUME WorkerLoses
  PROVE  /\ phase' = "lost" /\ UNCHANGED <<kind, case, final, found, result, left, events>>
         /\ phase \in {"setup", "open", "opening", "reading", "report", "reporting", "replay"}
  BY DEF WorkerLoses, Timeout, ReadClosed, SendFails, SetUpFails, Lost, Reads, Sends, wireVars

LEMMA AckedChanges ==
  ASSUME CaseAcked \/ DoneAcked
  PROVE  /\ UNCHANGED <<kind, case, final, found, result, left, events>>
         /\ \/ phase = "opening" /\ phase' \in {"reading", "lost"}
            \/ phase = "reporting" /\ phase' \in {"replay", "lost"}
  BY DEF CaseAcked, DoneAcked, Lost

LEMMA SetsUpChanges ==
  ASSUME SetUp \/ EngineGoesOn
  PROVE  /\ UNCHANGED <<kind, case, final, found, result, left, events>>
         /\ \/ phase = "setup" /\ phase' = IF kind = "run_test" THEN "engine" ELSE "open"
            \/ phase = "engine" /\ case < MaxCases /\ phase' = "open"
  BY DEF SetUp, EngineGoesOn, wireVars

LEMMA ReportsChanges ==
  ASSUME Types, FoundInv, BadName \/ EngineReturns \/ EngineRaises
  PROVE  /\ UNCHANGED <<kind, case, final, found, left, events>>
         /\ \/ phase = "setup" /\ kind # "single"
            \/ phase = "engine"
         /\ phase' = "report" /\ result'.n \in 0..MaxCases
  <1>1. CASE BadName
    BY <1>1, RunAssumption DEF BadName, Result, wireVars
  <1>2. CASE EngineRaises
    BY <1>2, RunAssumption DEF EngineRaises, Result, wireVars
  <1>3. CASE EngineReturns
    <2>1. PICK n \in 0..found : result'.n = n
      BY <1>3 DEF EngineReturns, Result
    <2>2. /\ phase = "engine" /\ phase' = "report"
          /\ UNCHANGED <<kind, case, final, found, left, events>>
      BY <1>3 DEF EngineReturns, wireVars
    <2>3. found <= MaxCases
      BY <2>2, RunAssumption DEF FoundInv, Types
    <2> QED
      BY <2>1, <2>2, <2>3, RunAssumption DEF Types
  <1> QED
    BY <1>1, <1>2, <1>3

LEMMA HandleChanges ==
  ASSUME Types, Handle
  PROVE  /\ phase = "reading" /\ UNCHANGED <<kind, case, final, left, events>>
         /\ \/ phase' \in {"reading", "lost"} /\ UNCHANGED <<found, result>>
            \/ Replaying /\ phase' = "replay" /\ UNCHANGED <<found, result>>
            \/ /\ kind = "run_test" /\ ~Replaying /\ phase' = "engine"
               /\ found' \in {found, found + 1} /\ UNCHANGED result
            \/ /\ kind # "run_test" /\ ~Replaying /\ phase' = "report" /\ UNCHANGED found
               /\ result'.n \in {0, 1}
  <1>1. phase = "reading" /\ UNCHANGED events
    BY DEF Handle
  <1>2. CASE Lost /\ UNCHANGED outbox
    BY <1>1, <1>2 DEF Lost
  <1>3. CASE \E a \in Answers(Head(inbox[case])) :
               /\ IF a.ends THEN CaseOver(a.status) ELSE UNCHANGED <<phase, result, found>>
               /\ UNCHANGED <<kind, case, final, left>>
    <2>1. PICK a : /\ IF a.ends THEN CaseOver(a.status) ELSE UNCHANGED <<phase, result, found>>
                   /\ UNCHANGED <<kind, case, final, left>>
      BY <1>3
    <2>2. CASE ~a.ends
      BY <1>1, <2>1, <2>2
    <2>3. CASE a.ends
      BY <1>1, <2>1, <2>3 DEF CaseOver, Result
    <2> QED
      BY <2>2, <2>3
  <1> QED
    BY <1>2, <1>3 DEF Handle

LEMMA SendCaseKeeps == RunInv /\ SendCase => RunInv'
  <1> SUFFICES ASSUME RunInv, SendCase PROVE RunInv'
    OBVIOUS
  <1>1. /\ phase' = "opening" /\ case' = case + 1 /\ UNCHANGED <<kind, found, result>>
        /\ phase = "open" \/ (phase = "replay" /\ left > 0)
        /\ left' = IF phase = "replay" THEN left - 1 ELSE left
        /\ events' = Append(events, TestCase(phase = "replay" \/ kind = "single"))
    BY DEF SendCase
  <1>2. final' \in BOOLEAN /\ (phase = "replay" => final')
    BY DEF SendCase
  <1>3. TestCase(phase = "replay" \/ kind = "single") \in Event
    BY RunAssumption DEF TestCase, Event
  <1>4. events' \in Seq(Event) /\ events' # <<>>
    BY <1>1, <1>3 DEF RunInv, Types
  <1>5. Types'
    BY <1>1, <1>2, <1>4 DEF RunInv, Types, Phases
  <1>6. SingleInv'
    BY <1>1, <1>4 DEF RunInv, SingleInv
  <1>7. FoundInv'
    BY <1>1, <1>2, RunAssumption DEF RunInv, Types, FoundInv
  <1> QED
    BY <1>5, <1>6, <1>7 DEF RunInv

LEMMA SendDoneKeeps == RunInv /\ SendDone => RunInv'
  <1> SUFFICES ASSUME RunInv, SendDone PROVE RunInv'
    OBVIOUS
  <1>1. /\ phase' = "reporting" /\ UNCHANGED <<kind, case, final, found, result>>
        /\ left' = IF kind = "single" THEN 0 ELSE result.n
        /\ events' = Append(events, TestDone(result.n))
    BY DEF SendDone
  <1>2. TestDone(result.n) \in Event
    BY DEF TestDone, Event, RunInv, Types
  <1>3. events' \in Seq(Event) /\ events' # <<>>
    BY <1>1, <1>2 DEF RunInv, Types
  <1>4. Types'
    BY <1>1, <1>3, RunAssumption DEF RunInv, Types, Phases
  <1> QED
    BY <1>1, <1>4 DEF RunInv, SingleInv, FoundInv

LEMMA NextKeepsRun == RunInv /\ [Next]_vars => RunInv'
  <1> SUFFICES ASSUME RunInv, [Next]_vars PROVE RunInv'
    OBVIOUS
  <1>1. CASE ClientSide
    <2>1. UNCHANGED <<workerVars, events>>
      BY <1>1, ClientChanges
    <2> QED
      BY <2>1 DEF RunInv, Types, SingleInv, FoundInv, workerVars
  <1>2. CASE WorkerLoses
    BY <1>2, LosesChanges DEF RunInv, Types, SingleInv, FoundInv, Phases
  <1>3. CASE CaseAcked \/ DoneAcked
    <2>1. /\ UNCHANGED <<kind, case, final, found, result, left, events>>
          /\ \/ phase = "opening" /\ phase' \in {"reading", "lost"}
             \/ phase = "reporting" /\ phase' \in {"replay", "lost"}
      BY <1>3, AckedChanges
    <2> QED
      BY <2>1 DEF RunInv, Types, SingleInv, FoundInv, Phases
  <1>4. CASE SetUp \/ EngineGoesOn
    BY <1>4, SetsUpChanges DEF RunInv, Types, SingleInv, FoundInv, Phases
  <1>5. CASE BadName \/ EngineReturns \/ EngineRaises
    BY SMTT(30), <1>5, ReportsChanges DEF RunInv, Types, SingleInv, FoundInv, Phases
  <1>6. CASE Handle
    BY SMTT(30), <1>6, HandleChanges, RunAssumption DEF RunInv, Types, SingleInv, FoundInv, Phases, Replaying
  <1>7. CASE SendCase
    BY <1>7, SendCaseKeeps
  <1>8. CASE SendDone
    BY <1>8, SendDoneKeeps
  <1>9. CASE Finish
    BY <1>9 DEF Finish, wireVars, RunInv, Types, SingleInv, FoundInv, Phases
  <1> QED
    BY <1>1, <1>2, <1>3, <1>4, <1>5, <1>6, <1>7, <1>8, <1>9
    DEF Next, Worker, ClientSide, WorkerLoses

LEMMA RunInvariant == Spec => []RunInv
  BY InitRun, NextKeepsRun, PTL DEF Spec

\* Every step of a run is one of the promise's, seen through Life, or a stutter.
LEMMA StepMaps ==
  ASSUME RunInv, [Next]_vars
  PROVE  [Promise!PromiseNext]_<<kind = "single", Life, events, left>>
  <1>1. CASE ClientSide
    <2>1. UNCHANGED <<workerVars, events>>
      BY <1>1, ClientChanges
    <2> QED
      BY <2>1 DEF Life, Replaying, workerVars
  <1>2. CASE WorkerLoses
    <2>1. /\ phase' = "lost" /\ UNCHANGED <<kind, events, left>>
          /\ phase \in {"setup", "open", "opening", "reading", "report", "reporting", "replay"}
      BY <1>2, LosesChanges
    <2>2. Life \in {"serving", "told"} /\ Life' = "lost"
      BY <2>1 DEF Life
    <2> QED
      BY <2>1, <2>2 DEF Promise!PromiseNext, Promise!Lose
  <1>3. CASE CaseAcked \/ DoneAcked
    <2>1. /\ UNCHANGED <<kind, final, left, events>>
          /\ \/ phase = "opening" /\ phase' \in {"reading", "lost"}
             \/ phase = "reporting" /\ phase' \in {"replay", "lost"}
      BY <1>3, AckedChanges
    <2>2. \/ UNCHANGED Life
          \/ Life \in {"serving", "told"} /\ Life' = "lost"
      BY <2>1 DEF Life, Replaying
    <2> QED
      BY <2>1, <2>2 DEF Promise!PromiseNext, Promise!Lose
  <1>4. CASE SetUp \/ EngineGoesOn
    <2>1. UNCHANGED <<kind, final, left, events>> /\ phase \in {"setup", "engine"}
          /\ phase' \in {"engine", "open"}
      BY <1>4, SetsUpChanges
    <2>2. UNCHANGED Life
      BY <2>1 DEF Life
    <2> QED
      BY <2>1, <2>2
  <1>5. CASE BadName \/ EngineReturns \/ EngineRaises
    <2>1. UNCHANGED <<kind, final, left, events>> /\ phase \in {"setup", "engine"}
          /\ phase' = "report"
      BY <1>5, ReportsChanges DEF RunInv
    <2>2. UNCHANGED Life
      BY <2>1 DEF Life
    <2> QED
      BY <2>1, <2>2
  <1>6. CASE Handle
    <2>1. /\ phase = "reading" /\ UNCHANGED <<kind, final, left, events>>
          /\ \/ phase' \in {"reading", "lost"}
             \/ Replaying /\ phase' = "replay"
             \/ ~Replaying /\ phase' \in {"engine", "report"}
      BY <1>6, HandleChanges DEF RunInv
    <2>2. \/ UNCHANGED Life
          \/ Life \in {"serving", "told"} /\ Life' = "lost"
      BY <2>1 DEF Life, Replaying
    <2> QED
      BY <2>1, <2>2 DEF Promise!PromiseNext, Promise!Lose
  <1>7. CASE SendCase
    <2>1. /\ phase' = "opening" /\ UNCHANGED kind
          /\ phase = "open" \/ (phase = "replay" /\ left > 0)
          /\ left' = IF phase = "replay" THEN left - 1 ELSE left
          /\ events' = Append(events, TestCase(phase = "replay" \/ kind = "single"))
          /\ final' = (phase = "replay" \/ kind = "single")
      BY <1>7 DEF SendCase
    <2>2. CASE phase = "open"
      <3>1. Life = "serving" /\ Life' = "serving"
        BY <2>1, <2>2 DEF Life, Replaying
      <3>2. kind = "single" => events = <<>>
        BY <2>2 DEF RunInv, SingleInv
      <3>3. events' = Append(events, Promise!TestCase(kind = "single")) /\ UNCHANGED left
        <4>1. (phase = "replay" \/ kind = "single") = (kind = "single")
          BY <2>2
        <4> QED
          BY <2>1, <2>2, <4>1 DEF TestCase, Promise!TestCase
      <3> QED
        BY <2>1, <3>1, <3>2, <3>3 DEF Promise!PromiseNext, Promise!Case
    <2>3. CASE phase = "replay"
      <3>1. kind # "single" /\ left > 0
        BY <2>1, <2>3 DEF RunInv, SingleInv
      <3>2. Life = "told" /\ Life' = "told"
        BY <2>1, <2>3, <3>1 DEF Life, Replaying
      <3>3. events' = Append(events, Promise!TestCase(TRUE)) /\ left' = left - 1
        <4>1. (phase = "replay" \/ kind = "single") = TRUE
          BY <2>3
        <4> QED
          BY <2>1, <2>3, <4>1 DEF TestCase, Promise!TestCase
      <3> QED
        BY <2>1, <3>1, <3>2, <3>3 DEF Promise!PromiseNext, Promise!Replay
    <2> QED
      BY <2>1, <2>2, <2>3
  <1>8. CASE SendDone
    <2>1. /\ phase = "report" /\ phase' = "reporting" /\ UNCHANGED kind
          /\ left' = IF kind = "single" THEN 0 ELSE result.n
          /\ events' = Append(events, TestDone(result.n))
      BY <1>8 DEF SendDone
    <2>2. Life = "serving" /\ Life' = "told"
      BY <2>1 DEF Life
    <2>3. kind = "single" => events # <<>>
      BY <2>1 DEF RunInv, SingleInv
    <2>4. result.n \in 0..MaxCases
      BY DEF RunInv, Types
    <2> QED
      BY <2>1, <2>2, <2>3, <2>4
      DEF Promise!PromiseNext, Promise!Tell, TestDone, Promise!TestDone
  <1>9. CASE Finish
    <2>1. phase = "replay" /\ phase' = "done" /\ left = 0 /\ UNCHANGED <<kind, events, left>>
      BY <1>9 DEF Finish, wireVars
    <2>2. Life = "told" /\ Life' = "over"
      BY <2>1 DEF Life
    <2> QED
      BY <2>1, <2>2 DEF Promise!PromiseNext, Promise!End
  <1> QED
    BY <1>1, <1>2, <1>3, <1>4, <1>5, <1>6, <1>7, <1>8, <1>9
    DEF Next, Worker, ClientSide, WorkerLoses

\* The run's stream carries test cases, one test_done and then exactly the final test
\* cases it announced, for every engine, client and connection, unless the run is
\* lost (server.py:543, 754-773).
THEOREM RunKeepsPromise == Spec => KeepsPromise
  <1>1. Init => Promise!PromiseInit
    BY DEF Init, Promise!PromiseInit, Life
  <1>2. RunInv /\ [Next]_vars => [Promise!PromiseNext]_<<kind = "single", Life, events, left>>
    BY StepMaps
  <1> QED
    BY <1>1, <1>2, RunInvariant, PTL DEF Spec, KeepsPromise, Promise!PromiseSpec

-----------------------------------------------------------------------------
(* Nothing follows the reply that ends a test case.                         *)

Ending == {"StopTest", "Flaky"}

\* A test case that is not yet begun has no replies, one that is read has none that
\* ends it.
StopInv ==
  /\ case \in Nat
  /\ outbox \in [Cases -> Seq(Replies)]
  /\ \A c \in Cases : c > case => outbox[c] = <<>>
  /\ phase \in {"opening", "reading"} /\ case \in Cases =>
       \A i \in DOMAIN outbox[case] : outbox[case][i] \notin Ending
  /\ StopIsLast

LEMMA InitStop == Init => StopInv
  BY DEF Init, StopInv, StopIsLast

\* An answer is a reply, and the replies that tell the client its test case is over
\* end it for the server too.
LEMMA AnswersEnd ==
  ASSUME NEW m, NEW a \in Answers(m)
  PROVE  a.reply \in Replies /\ (a.reply \in Ending => a.ends = TRUE)
  BY DEF Answers, Answer, Stops, Flakes, Replies, Ending

\* Every step but Handle leaves the replies alone, and no step goes back to reading a
\* test case.
LEMMA QuietSteps ==
  ASSUME StopInv, UNCHANGED outbox,
         \/ UNCHANGED case /\ (phase' \in {"opening", "reading"} => phase \in {"opening", "reading"})
         \/ case' = case + 1
  PROVE  StopInv'
  <1>1. CASE UNCHANGED case /\ (phase' \in {"opening", "reading"} => phase \in {"opening", "reading"})
    BY <1>1 DEF StopInv, StopIsLast
  <1>2. CASE case' = case + 1
    <2>1. case \in Nat /\ \A c \in Cases : c \in Nat
      BY RunAssumption DEF StopInv, Cases
    <2>2. \A c \in Cases : c > case' \/ c = case' => outbox[c] = <<>>
      BY <1>2, <2>1 DEF StopInv
    <2>3. \A c \in Cases : outbox[c] = <<>> => DOMAIN outbox[c] = {}
      OBVIOUS
    <2> QED
      BY <1>2, <2>1, <2>2, <2>3 DEF StopInv, StopIsLast
  <1> QED
    BY <1>1, <1>2

LEMMA HandleStops == StopInv /\ Handle => StopInv'
  <1> SUFFICES ASSUME StopInv, Handle PROVE StopInv'
    OBVIOUS
  <1>1. CASE Lost /\ UNCHANGED outbox
    BY <1>1, QuietSteps DEF Lost
  <1>2. CASE \E a \in Answers(Head(inbox[case])) :
               /\ outbox' = [outbox EXCEPT ![case] = Append(@, a.reply)]
               /\ IF a.ends THEN CaseOver(a.status) ELSE UNCHANGED <<phase, result, found>>
               /\ UNCHANGED case
    <2>1. PICK a \in Answers(Head(inbox[case])) :
               /\ outbox' = [outbox EXCEPT ![case] = Append(@, a.reply)]
               /\ IF a.ends THEN CaseOver(a.status) ELSE UNCHANGED <<phase, result, found>>
               /\ UNCHANGED case
      BY <1>2
    <2>2. a.reply \in Replies /\ (a.reply \in Ending => a.ends = TRUE)
      BY AnswersEnd
    <2>3. phase = "reading"
      BY DEF Handle
    <2>4. a.ends = TRUE => phase' \notin {"opening", "reading"}
      BY <2>1 DEF CaseOver
    <2>5. \A c \in Cases : c # case => outbox'[c] = outbox[c]
      BY <2>1 DEF StopInv
    <2>6. CASE case \in Cases
      <3>1. outbox[case] \in Seq(Replies) /\ outbox'[case] = Append(outbox[case], a.reply)
        BY <2>1, <2>6 DEF StopInv
      <3>2. outbox' \in [Cases -> Seq(Replies)]
        BY <2>1, <2>2, <2>6, <3>1 DEF StopInv
      <3>3. /\ Len(outbox[case]) \in Nat /\ Len(outbox'[case]) = Len(outbox[case]) + 1
            /\ DOMAIN outbox'[case] = 1..Len(outbox'[case])
            /\ outbox'[case][Len(outbox[case]) + 1] = a.reply
            /\ \A i \in 1..Len(outbox[case]) : outbox'[case][i] = outbox[case][i]
        BY <2>2, <3>1
      <3>4. \A i \in 1..Len(outbox[case]) : outbox[case][i] \notin Ending
        BY <2>3, <2>6, <3>1 DEF StopInv
      <3>5. \A i \in DOMAIN outbox'[case] :
              outbox'[case][i] \in Ending => i = Len(outbox'[case]) /\ a.reply \in Ending
        BY SMTT(30), <3>3, <3>4
      <3>6. \A c \in Cases : \A i \in DOMAIN outbox'[c] :
              outbox'[c][i] \in Ending => i = Len(outbox'[c])
        BY <2>5, <3>5 DEF StopInv, StopIsLast, Ending
      <3>7. phase' \in {"opening", "reading"} =>
              \A i \in DOMAIN outbox'[case] : outbox'[case][i] \notin Ending
        BY <2>2, <2>4, <3>5
      <3> QED
        BY <2>1, <2>5, <3>2, <3>6, <3>7 DEF StopInv, StopIsLast, Ending
    <2>7. CASE case \notin Cases
      <3>1. outbox' = outbox
        BY <2>1, <2>7 DEF StopInv
      <3> QED
        BY <2>1, <2>7, <3>1 DEF StopInv, StopIsLast
    <2> QED
      BY <2>6, <2>7
  <1> QED
    BY <1>1, <1>2 DEF Handle

LEMMA StopInvariant == Spec => []StopInv
  <1>1. RunInv /\ StopInv /\ [Next]_vars => StopInv'
    <2> SUFFICES ASSUME RunInv, StopInv, [Next]_vars PROVE StopInv'
      OBVIOUS
    <2>1. CASE Handle
      BY <2>1, HandleStops
    <2>2. CASE SendCase
      BY <2>2, QuietSteps DEF SendCase
    <2>3. CASE ClientSide
      <3>1. UNCHANGED outbox
        BY <2>3 DEF ClientSide, Client, Receive, TakeReply, Ask, Complete, Refuse, Vanish, vars,
                    wireVars
      <3> QED
        BY <2>3, <3>1, ClientChanges, QuietSteps DEF workerVars
    <2>4. CASE WorkerLoses
      <3>1. UNCHANGED outbox
        BY <2>4 DEF WorkerLoses, Timeout, ReadClosed, SendFails, SetUpFails, wireVars
      <3> QED
        BY <2>4, <3>1, LosesChanges, QuietSteps
    <2>5. CASE CaseAcked \/ DoneAcked
      <3>1. UNCHANGED outbox
        BY <2>5 DEF CaseAcked, DoneAcked
      <3> QED
        BY <2>5, <3>1, AckedChanges, QuietSteps
    <2>6. CASE SetUp \/ EngineGoesOn \/ BadName \/ EngineReturns \/ EngineRaises \/ SendDone
               \/ Finish
      <3>1. UNCHANGED <<outbox, case>> /\ phase' \notin {"opening", "reading"}
        BY <2>6 DEF SetUp, EngineGoesOn, BadName, EngineReturns, EngineRaises, SendDone, Finish,
                    wireVars
      <3> QED
        BY <3>1, QuietSteps
    <2> QED
      BY <2>1, <2>2, <2>3, <2>4, <2>5, <2>6 DEF Next, Worker, ClientSide, WorkerLoses
  <1> QED
    BY <1>1, InitStop, RunInvariant, PTL DEF Spec

\* A reply that tells the client its test case is over is the last one on the test
\* case's stream (stream.py:144, server.py:386-395), whatever the client has written
\* by then and however many test cases there are.
THEOREM NothingAfterStop == Spec => []StopIsLast
  <1>1. StopInv => StopIsLast
    BY DEF StopInv
  <1> QED
    BY <1>1, StopInvariant, PTL

-----------------------------------------------------------------------------
(* Type correctness, with what bounds the counters.                         *)

Serving == phase \in {"opening", "reading"}

\* Before test_done: the test cases that count.
Ordinary == phase \in {"setup", "engine", "open", "report"} \/ (Serving /\ ~Replaying)

Unread == Len(events) - seen
Last(e) == events # <<>> /\ events[Len(events)].event = e

\* The engine's test cases are numbered up to MaxCases, and the final ones behind them.
CountInv ==
  /\ kind \in Kinds /\ found <= MaxCases /\ left <= MaxCases /\ case <= 2 * MaxCases
  /\ phase = "setup" => case = 0
  /\ phase = "open" => case < MaxCases
  /\ Ordinary => case <= MaxCases
  /\ ~Ordinary /\ phase # "lost" => case + left <= 2 * MaxCases

\* At most one event is not read, or read and its reply is not, and the worker waits for
\* it: so the client is in no more test cases than there have been.
StepInv ==
  /\ Unread \in {0, 1}
  /\ phase \in {"opening", "reporting"} => Len(acks) + Unread = 1
  /\ phase \notin {"opening", "reporting", "lost"} => acks = <<>> /\ Unread = 0
  /\ doing <= case /\ (Unread = 1 /\ Last("test_case") => doing < case)

\* The types of what RunInv, CountInv and StopInv leave open.
RestTypes ==
  /\ status \in Statuses /\ flaky \in BOOLEAN
  /\ result \in [error : {"none", "error", "health", "flaky"}, n : 0..MaxCases, passed : BOOLEAN]
  /\ up \in BOOLEAN /\ acks \in Seq({"ok", "error"}) /\ inbox \in [Cases -> Seq(Messages)]
  /\ client \in {"awaiting", "testing", "waiting", "left", "over", "gone"}
  /\ seen \in Nat /\ doing \in Nat /\ asked \in 0..MaxAsks /\ got \in Nat
  /\ due \in 0..MaxCases /\ failed \in BOOLEAN

LEMMA InitCount == Init => CountInv /\ StepInv /\ RestTypes
  <1> SUFFICES ASSUME Init PROVE CountInv /\ StepInv /\ RestTypes
    OBVIOUS
  <1>1. /\ kind \in Kinds /\ phase = "setup" /\ case = 0 /\ found = 0 /\ left = 0
        /\ events = <<>> /\ acks = <<>> /\ seen = 0 /\ doing = 0
    BY DEF Init
  <1>2. MaxCases \in Nat \ {0} /\ MaxAsks \in Nat
    BY RunAssumption
  <1>3. CountInv
    BY <1>1, <1>2 DEF CountInv, Ordinary, Serving
  <1>4. Len(events) = 0
    BY <1>1
  <1>5. StepInv
    BY <1>1, <1>4 DEF StepInv, Unread, Last
  <1>6. /\ status \in Statuses /\ flaky \in BOOLEAN /\ result = NoResult /\ up \in BOOLEAN
        /\ inbox = [c \in Cases |-> <<>>] /\ client = "awaiting" /\ asked = 0 /\ got = 0 /\ due = 0
        /\ failed \in BOOLEAN
    BY DEF Init, Statuses, Conclusions
  <1>7. inbox \in [Cases -> Seq(Messages)]
    BY <1>6
  <1>8. result \in [error : {"none", "error", "health", "flaky"}, n : 0..MaxCases, passed : BOOLEAN]
    BY <1>2, <1>6 DEF NoResult, Result
  <1> QED
    BY <1>1, <1>2, <1>3, <1>5, <1>6, <1>7, <1>8 DEF RestTypes

\* The steps that leave the counters alone and keep Ordinary, or lose the run.
LEMMA CountFrame ==
  ASSUME CountInv, UNCHANGED <<kind, case, left>>, found' <= MaxCases,
         \/ phase' = "lost"
         \/ /\ phase' # "setup" \/ phase = "setup"
            /\ Ordinary' => Ordinary
            /\ ~Ordinary' => ~Ordinary /\ phase # "lost"
            /\ phase' = "open" => case < MaxCases
  PROVE  CountInv'
  <1>1. phase' = "lost" => ~Ordinary'
    BY DEF Ordinary, Serving
  <1> QED
    BY <1>1 DEF CountInv

LEMMA CountNext == RunInv /\ CountInv /\ [Next]_vars => CountInv'
  <1> SUFFICES ASSUME RunInv, CountInv, [Next]_vars PROVE CountInv'
    OBVIOUS
  <1>1. /\ case \in Nat /\ found \in Nat /\ left \in Nat /\ result.n \in 0..MaxCases
        /\ MaxCases \in Nat \ {0} /\ found <= MaxCases
    BY RunAssumption DEF RunInv, Types, CountInv
  <1>2. CASE ClientSide
    <2>1. UNCHANGED workerVars
      BY <1>2, ClientChanges
    <2> QED
      BY <2>1 DEF CountInv, Ordinary, Serving, Replaying, workerVars
  <1>3. CASE WorkerLoses
    BY <1>1, <1>3, LosesChanges, CountFrame
  <1>4. CASE CaseAcked \/ DoneAcked
    <2>1. /\ UNCHANGED <<kind, case, final, found, left>>
          /\ \/ phase = "opening" /\ phase' \in {"reading", "lost"}
             \/ phase = "reporting" /\ phase' \in {"replay", "lost"}
      BY <1>4, AckedChanges
    <2>2. phase' = "lost" \/ (Ordinary' <=> Ordinary)
      BY <2>1 DEF Ordinary, Serving, Replaying
    <2> QED
      BY <1>1, <2>1, <2>2, CountFrame
  <1>5. CASE SetUp \/ EngineGoesOn
    <2>1. /\ UNCHANGED <<kind, case, found, left>>
          /\ \/ phase = "setup" /\ phase' \in {"engine", "open"}
             \/ phase = "engine" /\ case < MaxCases /\ phase' = "open"
      BY <1>5, SetsUpChanges
    <2>2. Ordinary /\ Ordinary'
      BY <2>1 DEF Ordinary
    <2>3. phase' = "open" => case < MaxCases
      BY <1>1, <2>1 DEF CountInv
    <2> QED
      BY <1>1, <2>1, <2>2, <2>3, CountFrame
  <1>6. CASE BadName \/ EngineReturns \/ EngineRaises
    <2>1. /\ UNCHANGED <<kind, case, found, left>> /\ phase \in {"setup", "engine"}
          /\ phase' = "report"
      BY <1>6, ReportsChanges DEF RunInv
    <2>2. Ordinary /\ Ordinary'
      BY <2>1 DEF Ordinary
    <2> QED
      BY <1>1, <2>1, <2>2, CountFrame
  <1>7. CASE Handle
    <2>1. /\ phase = "reading" /\ UNCHANGED <<kind, case, final, left>>
          /\ \/ phase' \in {"reading", "lost"} /\ UNCHANGED found
             \/ Replaying /\ phase' = "replay" /\ UNCHANGED found
             \/ kind = "run_test" /\ ~Replaying /\ phase' = "engine" /\ found' \in {found, found + 1}
             \/ ~Replaying /\ phase' = "report" /\ UNCHANGED found
      BY <1>7, HandleChanges DEF RunInv
    <2>2. phase' = "lost" \/ (Ordinary' <=> Ordinary)
      BY <2>1 DEF Ordinary, Serving, Replaying
    <2>3. found' <= MaxCases
      <3>1. kind = "run_test" /\ ~Replaying => found < case /\ case <= MaxCases
        BY <2>1 DEF RunInv, FoundInv, Replaying
      <3> QED
        BY <1>1, <2>1, <3>1
    <2> QED
      BY <2>1, <2>2, <2>3, CountFrame
  <1>8. CASE SendCase
    <2>1. /\ phase' = "opening" /\ case' = case + 1 /\ UNCHANGED <<kind, found>>
          /\ phase = "open" \/ (phase = "replay" /\ left > 0)
          /\ left' = IF phase = "replay" THEN left - 1 ELSE left
          /\ final' = (phase = "replay" \/ kind = "single")
      BY <1>8 DEF SendCase
    <2>2. CASE phase = "open"
      <3>1. ~Replaying' /\ Ordinary' /\ case < MaxCases /\ left' = left
        BY <2>1, <2>2 DEF Replaying, Ordinary, Serving, CountInv
      <3> QED
        BY <1>1, <2>1, <3>1 DEF CountInv
    <2>3. CASE phase = "replay"
      <3>1. kind # "single" /\ left > 0 /\ left' = left - 1
        BY <2>1, <2>3 DEF RunInv, SingleInv
      <3>2. Replaying' /\ ~Ordinary' /\ ~Ordinary
        BY <2>1, <2>3, <3>1 DEF Replaying, Ordinary, Serving
      <3>3. case + left <= 2 * MaxCases
        BY <2>3, <3>2 DEF CountInv
      <3> QED
        BY <1>1, <2>1, <3>1, <3>2, <3>3 DEF CountInv
    <2> QED
      BY <2>1, <2>2, <2>3
  <1>9. CASE SendDone
    <2>1. /\ phase = "report" /\ phase' = "reporting" /\ UNCHANGED <<kind, case, found>>
          /\ left' = IF kind = "single" THEN 0 ELSE result.n
      BY <1>9 DEF SendDone
    <2>2. case <= MaxCases /\ left' <= MaxCases /\ left' \in Nat
      BY <1>1, <2>1 DEF CountInv, Ordinary
    <2> QED
      BY <1>1, <2>1, <2>2 DEF CountInv, Ordinary, Serving
  <1>10. CASE Finish
    <2>1. phase = "replay" /\ phase' = "done" /\ UNCHANGED <<kind, case, found, left>>
      BY <1>10 DEF Finish
    <2> QED
      BY <1>1, <2>1, CountFrame DEF Ordinary, Serving
  <1> QED
    BY <1>2, <1>3, <1>4, <1>5, <1>6, <1>7, <1>8, <1>9, <1>10
    DEF Next, Worker, ClientSide, WorkerLoses

\* The steps that neither send nor read nor acknowledge an event.
LEMMA StepFrame ==
  ASSUME StepInv, UNCHANGED <<events, seen, acks, doing, case>>,
         phase' \in {"opening", "reporting"} => phase \in {"opening", "reporting"},
         phase' \in {"opening", "reporting", "lost"} \/ phase \notin {"opening", "reporting", "lost"}
  PROVE  StepInv'
  <1>1. Unread' = Unread /\ Len(acks') = Len(acks) /\ (Last("test_case")' <=> Last("test_case"))
    BY DEF Unread, Last
  <1> QED
    BY <1>1 DEF StepInv

LEMMA EventRead ==
  ASSUME RunInv, StepInv, RestTypes, Receive \/ Refuse
  PROVE  /\ Unread = 1 /\ Unread' = 0 /\ seen + 1 = Len(events) /\ events[seen + 1] \in Event
         /\ acks' \in Seq({"ok", "error"}) /\ Len(acks') = Len(acks) + 1 /\ Len(acks) \in Nat
         /\ seen' = seen + 1 /\ UNCHANGED workerVars /\ UNCHANGED events
  <1>1. /\ seen < Len(events) /\ seen' = seen + 1 /\ UNCHANGED workerVars /\ UNCHANGED events
        /\ acks' = Append(acks, "ok") \/ acks' = Append(acks, "error")
    BY DEF Receive, Refuse
  <1>2. seen \in Nat /\ Len(events) \in Nat /\ events \in Seq(Event) /\ acks \in Seq({"ok", "error"})
    BY DEF RunInv, Types, RestTypes
  <1>3. Unread = 1
    BY <1>1, <1>2 DEF StepInv, Unread
  <1>4. seen + 1 = Len(events) /\ Unread' = 0
    BY <1>1, <1>2, <1>3 DEF Unread
  <1>5. events[seen + 1] \in Event
    BY <1>2, <1>4
  <1>6. acks' \in Seq({"ok", "error"}) /\ Len(acks') = Len(acks) + 1 /\ Len(acks) \in Nat
    BY SMTT(30), <1>1, <1>2
  <1> QED
    BY <1>1, <1>3, <1>4, <1>5, <1>6

LEMMA StepNext == RunInv /\ CountInv /\ RestTypes /\ StepInv /\ [Next]_vars => StepInv'
  <1> SUFFICES ASSUME RunInv, CountInv, RestTypes, StepInv, [Next]_vars PROVE StepInv'
    OBVIOUS
  <1>1. /\ case \in Nat /\ doing \in Nat /\ seen \in Nat /\ Len(events) \in Nat
        /\ events \in Seq(Event) /\ acks \in Seq({"ok", "error"}) /\ Len(acks) \in Nat
    BY DEF RunInv, Types, RestTypes
  <1>2. CASE Receive \/ Refuse
    <2>1. /\ Unread = 1 /\ Unread' = 0 /\ seen + 1 = Len(events)
          /\ Len(acks') = Len(acks) + 1 /\ UNCHANGED workerVars /\ UNCHANGED events
      BY <1>2, EventRead
    <2>2. phase \in {"opening", "reporting", "lost"} /\ phase' = phase /\ case' = case
      BY <2>1 DEF StepInv, workerVars
    <2>3. phase \in {"opening", "reporting"} => Len(acks') = 1
      BY <1>1, <2>1 DEF StepInv
    <2>4. doing' <= case
      <3>1. CASE events[seen + 1].event = "test_case"
        <4>1. Last("test_case")
          BY <1>1, <2>1, <3>1 DEF Last
        <4>2. doing < case /\ doing' \in {doing, doing + 1}
          BY <1>2, <2>1, <3>1, <4>1 DEF StepInv, Receive, Refuse
        <4> QED
          BY <1>1, <4>2
      <3>2. CASE events[seen + 1].event # "test_case"
        <4>1. doing' = doing
          BY <1>2, <3>2 DEF Receive, Refuse
        <4> QED
          BY <4>1 DEF StepInv
      <3> QED
        BY <3>1, <3>2
    <2> QED
      BY <2>1, <2>2, <2>3, <2>4 DEF StepInv
  <1>3. CASE TakeReply \/ (\E m \in Asks : Ask(m)) \/ Vanish \/ UNCHANGED vars
             \/ \E s \in Conclusions \cup (IF "badcomplete" \in Faults THEN {"bad"} ELSE {}) :
                  Complete(s)
    <2>1. UNCHANGED <<workerVars, events, seen, acks, doing>>
      BY <1>3 DEF TakeReply, Ask, Complete, Vanish, vars, wireVars, clientVars
    <2> QED
      BY <2>1, StepFrame DEF workerVars
  <1>4. CASE WorkerLoses
    <2>1. phase' = "lost" /\ UNCHANGED <<events, seen, acks, doing, case>>
      BY <1>4 DEF WorkerLoses, Timeout, ReadClosed, SendFails, SetUpFails, Lost, wireVars, clientVars
    <2> QED
      BY <2>1, StepFrame
  <1>5. CASE SetUp \/ BadName \/ EngineGoesOn \/ EngineReturns \/ EngineRaises \/ Finish
    <2>1. /\ UNCHANGED <<events, seen, acks, doing, case>>
          /\ phase \in {"setup", "engine", "replay"} /\ phase' \in {"engine", "open", "report", "done"}
      BY <1>5 DEF SetUp, BadName, EngineGoesOn, EngineReturns, EngineRaises, Finish, wireVars,
                  clientVars
    <2> QED
      BY <2>1, StepFrame
  <1>6. CASE Handle
    <2>1. /\ phase = "reading" /\ UNCHANGED <<events, case>>
          /\ phase' \in {"reading", "lost", "replay", "engine", "report"}
      BY <1>6, HandleChanges DEF RunInv
    <2>2. UNCHANGED <<seen, acks, doing>>
      BY <1>6 DEF Handle, clientVars
    <2> QED
      BY <2>1, <2>2, StepFrame
  <1>7. CASE CaseAcked \/ DoneAcked
    <2>1. /\ UNCHANGED <<case, events, seen, doing>> /\ acks # <<>> /\ acks' = Tail(acks)
          /\ \/ phase = "opening" /\ phase' \in {"reading", "lost"}
             \/ phase = "reporting" /\ phase' \in {"replay", "lost"}
      BY <1>7 DEF CaseAcked, DoneAcked, Lost, clientVars
    <2>2. Len(acks) = 1 /\ Unread = 0
      <3>1. Len(acks) + Unread = 1 /\ Unread \in {0, 1} /\ Len(acks) \in Nat \ {0}
        BY <1>1, <2>1 DEF StepInv
      <3>2. \A a \in Nat \ {0}, b \in {0, 1} : a + b = 1 => a = 1 /\ b = 0
        OBVIOUS
      <3> QED
        BY <3>1, <3>2, Zenon
    <2>3. acks' = <<>> /\ Unread' = 0
      BY <1>1, <2>1, <2>2 DEF Unread
    <2> QED
      BY <2>1, <2>3 DEF StepInv
  <1>8. CASE SendCase
    <2>1. /\ phase \in {"open", "replay"} /\ phase' = "opening" /\ case' = case + 1
          /\ UNCHANGED <<acks, seen, doing>>
          /\ \E e : events' = Append(events, e)
      BY <1>8 DEF SendCase, clientVars
    <2>2. acks = <<>> /\ Unread = 0
      BY <2>1 DEF StepInv
    <2>3. Unread' = 1 /\ Len(acks') = 0
      BY <1>1, <2>1, <2>2 DEF Unread
    <2>4. doing' < case'
      BY <1>1, <2>1 DEF StepInv
    <2> QED
      BY <1>1, <2>1, <2>3, <2>4 DEF StepInv
  <1>9. CASE SendDone
    <2>1. /\ phase = "report" /\ phase' = "reporting" /\ UNCHANGED <<acks, case, seen, doing>>
          /\ events' = Append(events, TestDone(result.n))
      BY <1>9 DEF SendDone, clientVars
    <2>2. acks = <<>> /\ Unread = 0
      BY <2>1 DEF StepInv
    <2>3. Unread' = 1 /\ Len(acks') = 0
      BY <1>1, <2>1, <2>2 DEF Unread
    <2>4. ~Last("test_case")'
      <3>1. events'[Len(events')] = TestDone(result.n)
        BY <1>1, <2>1
      <3> QED
        BY <3>1 DEF Last, TestDone
    <2> QED
      BY <2>1, <2>3, <2>4 DEF StepInv
  <1> QED
    BY <1>2, <1>3, <1>4, <1>5, <1>6, <1>7, <1>8, <1>9
    DEF Next, Worker, Client, WorkerLoses

-----------------------------------------------------------------------------
LEMMA WriteTypes ==
  ASSUME inbox \in [Cases -> Seq(Messages)], NEW d, NEW ms \in Seq(Messages)
  PROVE  [inbox EXCEPT ![d] = @ \o ms] \in [Cases -> Seq(Messages)]
  <1>1. d \in Cases => inbox[d] \o ms \in Seq(Messages)
    OBVIOUS
  <1> QED
    BY <1>1

\* The steps of the worker change no type of the client's.
LEMMA WorkerFrame ==
  ASSUME Worker
  PROVE  UNCHANGED <<kind, up, client, seen, doing, asked, got, due, failed>>
  <1>1. CASE Handle
    BY <1>1 DEF Handle, Lost, clientVars
  <1>2. CASE SendCase \/ SendDone \/ CaseAcked \/ DoneAcked
    BY <1>2 DEF SendCase, SendDone, CaseAcked, DoneAcked, Lost, clientVars
  <1>3. CASE SetUp \/ BadName \/ EngineGoesOn \/ EngineReturns \/ EngineRaises \/ Finish
    BY <1>3 DEF SetUp, BadName, EngineGoesOn, EngineReturns, EngineRaises, Finish, wireVars,
                clientVars
  <1>4. CASE WorkerLoses
    BY <1>4 DEF WorkerLoses, Timeout, ReadClosed, SendFails, SetUpFails, Lost, wireVars, clientVars
  <1> QED
    BY <1>1, <1>2, <1>3, <1>4 DEF Worker, WorkerLoses

LEMMA ClientKeepsTypes ==
  ASSUME RunInv, StepInv, RestTypes, ClientSide
  PROVE  RestTypes'
  <1>1. UNCHANGED workerVars
    BY ClientChanges
  <1>2. result.n \in 0..MaxCases /\ MaxCases \in Nat /\ MaxAsks \in Nat
    BY RunAssumption DEF RunInv, Types
  <1>3. CASE Receive \/ Refuse
    <2>1. /\ acks' \in Seq({"ok", "error"}) /\ seen' = seen + 1
      BY <1>3, EventRead
    <2>2. UNCHANGED <<up, inbox, failed>>
      BY <1>3 DEF Receive, Refuse
    <2>3. /\ client' \in {"awaiting", "testing", "left", "over"} \/ UNCHANGED client
          /\ doing' \in {doing, doing + 1} /\ asked' \in {asked, 0} /\ got' \in {got, 0}
          /\ due' \in {due, result.n}
      BY <1>3 DEF Receive, Refuse
    <2> QED
      BY <1>1, <1>2, <2>1, <2>2, <2>3 DEF RestTypes, workerVars
  <1>4. ASSUME NEW m \in Asks, Ask(m) PROVE RestTypes'
    <2>1. /\ client' \in {"testing", "waiting"} /\ asked < MaxAsks /\ asked' = asked + 1
          /\ inbox' = [inbox EXCEPT ![doing] = @ \o <<m>>]
          /\ UNCHANGED <<up, acks, seen, doing, got, due, failed>>
      BY <1>4 DEF Ask, Write
    <2>2. <<m>> \in Seq(Messages)
      BY DEF Messages
    <2>3. inbox' \in [Cases -> Seq(Messages)]
      BY <2>1, <2>2, WriteTypes DEF RestTypes
    <2> QED
      BY <1>1, <1>2, <2>1, <2>3 DEF RestTypes, workerVars
  <1>5. ASSUME NEW s \in Conclusions \cup {"bad"}, Complete(s) PROVE RestTypes'
    <2>1. /\ client' \in {"left", "over", "awaiting"} /\ due' = IF due > 0 THEN due - 1 ELSE 0
          /\ failed' = (failed \/ (s = "INTERESTING" /\ due = 0))
          /\ inbox' = [inbox EXCEPT ![doing] = @ \o <<s, "close">>]
          /\ UNCHANGED <<up, acks, seen, doing, asked, got>>
      BY <1>5 DEF Complete, Write, Leave
    <2>2. <<s, "close">> \in Seq(Messages)
      BY DEF Messages
    <2>3. inbox' \in [Cases -> Seq(Messages)]
      BY <2>1, <2>2, WriteTypes DEF RestTypes
    <2>4. due' \in 0..MaxCases
      BY <1>2, <2>1 DEF RestTypes
    <2> QED
      BY <1>1, <2>1, <2>3, <2>4 DEF RestTypes, workerVars
  <1>6. CASE TakeReply
    <2>1. /\ got' = got + 1 /\ UNCHANGED <<up, acks, seen, doing, asked, failed>>
          /\ client' \in {"left", "over", "awaiting", "testing", "waiting"}
          /\ due' \in {due, IF due > 0 THEN due - 1 ELSE 0}
          /\ inbox' \in {inbox, [inbox EXCEPT ![doing] = @ \o <<"close">>]}
      BY <1>6 DEF TakeReply, Write, Leave
    <2>2. <<"close">> \in Seq(Messages)
      BY DEF Messages
    <2>3. inbox' \in [Cases -> Seq(Messages)]
      <3>1. inbox \in [Cases -> Seq(Messages)]
        BY DEF RestTypes
      <3>2. [inbox EXCEPT ![doing] = @ \o <<"close">>] \in [Cases -> Seq(Messages)]
        BY <2>2, <3>1, WriteTypes
      <3> QED
        BY <2>1, <3>1, <3>2
    <2>4. due' \in 0..MaxCases
      <3>1. due' = due \/ due' = IF due > 0 THEN due - 1 ELSE 0
        BY <2>1
      <3>2. \A d \in 0..MaxCases : (IF d > 0 THEN d - 1 ELSE 0) \in 0..MaxCases
        BY <1>2
      <3> QED
        BY <3>1, <3>2, Zenon DEF RestTypes
    <2> QED
      BY <1>1, <2>1, <2>3, <2>4 DEF RestTypes, workerVars
  <1>7. CASE Vanish \/ UNCHANGED vars
    BY ZenonT(60), <1>7 DEF Vanish, RestTypes, vars, workerVars, wireVars, clientVars
  <1>8. ASSUME NEW s \in Conclusions \cup (IF "badcomplete" \in Faults THEN {"bad"} ELSE {}),
               Complete(s)
        PROVE  RestTypes'
    <2>1. s \in Conclusions \cup {"bad"}
      OBVIOUS
    <2> QED
      BY <1>5, <1>8, <2>1
  <1> QED
    BY <1>3, <1>4, <1>6, <1>7, <1>8 DEF ClientSide, Client

LEMMA WorkerKeepsTypes ==
  ASSUME RunInv, CountInv, RestTypes, Worker
  PROVE  RestTypes'
  <1>1. UNCHANGED <<up, client, seen, doing, asked, got, due, failed>>
    BY WorkerFrame
  <1>2. /\ result.n \in 0..MaxCases /\ MaxCases \in Nat \ {0} /\ found \in Nat /\ found <= MaxCases
    BY RunAssumption DEF RunInv, Types, CountInv
  <1>3. CASE CaseAcked \/ DoneAcked
    <2>1. acks # <<>> /\ acks' = Tail(acks) /\ UNCHANGED <<status, flaky, result, inbox>>
      BY <1>3 DEF CaseAcked, DoneAcked, Lost
    <2> QED
      BY <1>1, <2>1 DEF RestTypes
  <1>4. CASE SendCase \/ SendDone
    <2>1. status' \in {status, "VALID"} /\ UNCHANGED <<flaky, result, inbox, acks>>
      BY <1>4 DEF SendCase, SendDone
    <2> QED
      BY <1>1, <2>1 DEF RestTypes, Statuses, Conclusions
  <1>5. CASE WorkerLoses \/ SetUp \/ EngineGoesOn \/ Finish
    <2>1. UNCHANGED <<status, flaky, result, inbox, acks>>
      BY <1>5 DEF WorkerLoses, Timeout, ReadClosed, SendFails, SetUpFails, Lost, SetUp, EngineGoesOn,
                  Finish, wireVars
    <2> QED
      BY <1>1, <2>1 DEF RestTypes
  <1>6. CASE BadName \/ EngineReturns \/ EngineRaises
    <2>1. UNCHANGED <<status, flaky, inbox, acks>>
      BY <1>6 DEF BadName, EngineReturns, EngineRaises, wireVars
    <2>2. \E n \in 0..MaxCases, e \in {"none", "error", "health", "flaky"}, p \in BOOLEAN :
            result' = Result(e, n, p)
      <3>1. CASE BadName
        <4>1. result' = Result("error", 0, FALSE) /\ 0 \in 0..MaxCases
          BY <1>2, <3>1 DEF BadName
        <4> QED
          BY <4>1
      <3>2. CASE EngineRaises
        <4>1. PICK e \in {"health", "flaky"} : result' = Result(e, 0, FALSE)
          BY <3>2 DEF EngineRaises
        <4>2. 0 \in 0..MaxCases
          BY <1>2
        <4> QED
          BY <4>1, <4>2
      <3>3. CASE EngineReturns
        <4>1. PICK n \in 0..found : result' \in {Result("flaky", n, FALSE), Result("none", n, n = 0)}
          BY <3>3 DEF EngineReturns
        <4>2. n \in 0..MaxCases /\ (n = 0) \in BOOLEAN
          BY <1>2
        <4> QED
          BY <4>1, <4>2
      <3> QED
        BY <1>6, <3>1, <3>2, <3>3
    <2>3. result' \in [error : {"none", "error", "health", "flaky"}, n : 0..MaxCases, passed : BOOLEAN]
      BY <2>2 DEF Result
    <2> QED
      BY <1>1, <2>1, <2>3 DEF RestTypes
  <1>7. CASE Handle
    <2>1. /\ inbox[case] # <<>> /\ inbox' = [inbox EXCEPT ![case] = Tail(@)] /\ UNCHANGED acks
      BY <1>7 DEF Handle
    <2>2. inbox' \in [Cases -> Seq(Messages)]
      <3>1. case \in Cases => Tail(inbox[case]) \in Seq(Messages)
        BY <2>1 DEF RestTypes
      <3> QED
        BY <2>1, <3>1 DEF RestTypes
    <2>3. CASE Lost
      <3>1. UNCHANGED <<status, flaky, result>>
        BY <2>3 DEF Lost
      <3> QED
        BY <1>1, <2>1, <2>2, <3>1 DEF RestTypes
    <2>4. CASE \E a \in Answers(Head(inbox[case])) :
                 /\ status' = a.status /\ flaky' = (flaky \/ a.flaky)
                 /\ IF a.ends THEN CaseOver(a.status) ELSE UNCHANGED <<phase, result, found>>
      <3>1. PICK a \in Answers(Head(inbox[case])) :
                 /\ status' = a.status /\ flaky' = (flaky \/ a.flaky)
                 /\ IF a.ends THEN CaseOver(a.status) ELSE UNCHANGED <<phase, result, found>>
        BY <2>4
      <3>2. a.status \in Statuses
        BY DEF Answers, Answer, Stops, Flakes, Statuses, Conclusions, RestTypes
      <3>3. result' = result \/ \E n \in {0, 1}, p \in BOOLEAN : result' = Result("none", n, p)
        <4>1. CaseOver(a.status) => result' = result \/ result' =
                Result("none", IF a.status = "INTERESTING" THEN 1 ELSE 0, a.status # "INTERESTING")
          BY DEF CaseOver
        <4> QED
          BY <3>1, <4>1
      <3>4. result' \in [error : {"none", "error", "health", "flaky"}, n : 0..MaxCases, passed : BOOLEAN]
        BY <1>2, <3>3 DEF RestTypes, Result
      <3>5. flaky' \in BOOLEAN
        BY <3>1
      <3> QED
        BY <1>1, <2>1, <2>2, <3>1, <3>2, <3>4, <3>5 DEF RestTypes
    <2> QED
      BY <1>7, <2>3, <2>4 DEF Handle
  <1> QED
    BY <1>3, <1>4, <1>5, <1>6, <1>7 DEF Worker, WorkerLoses

LEMMA CountInvariant == Spec => [](CountInv /\ StepInv /\ RestTypes)
  <1>1. RunInv /\ CountInv /\ StepInv /\ RestTypes /\ [Next]_vars => (CountInv /\ StepInv /\ RestTypes)'
    <2> SUFFICES ASSUME RunInv, CountInv, StepInv, RestTypes, [Next]_vars
                 PROVE  (CountInv /\ StepInv /\ RestTypes)'
      OBVIOUS
    <2>1. CountInv' /\ StepInv'
      BY CountNext, StepNext
    <2>2. RestTypes'
      BY ClientKeepsTypes, WorkerKeepsTypes DEF Next, ClientSide
    <2> QED
      BY <2>1, <2>2
  <1> QED
    BY <1>1, InitCount, RunInvariant, PTL DEF Spec

\* Every variable of a run keeps its type, whatever its client does: in particular no more
\* test cases than Cases are begun (server.py:683, 756), and no more are in the client's hands.
THEOREM TypeCorrect == Spec => []TypeOK
  <1>1. RunInv /\ StopInv /\ CountInv /\ StepInv /\ RestTypes => TypeOK
    <2> SUFFICES ASSUME RunInv, StopInv, CountInv, StepInv, RestTypes PROVE TypeOK
      OBVIOUS
    <2>1. /\ MaxCases \in Nat /\ case \in Nat /\ found \in Nat /\ left \in Nat /\ doing \in Nat
      BY RunAssumption DEF RunInv, Types, RestTypes
    <2>2. /\ case \in 0..(2 * MaxCases) /\ found \in 0..MaxCases /\ left \in 0..MaxCases
          /\ doing \in 0..(2 * MaxCases)
      BY <2>1 DEF CountInv, StepInv
    <2>3. events \in Seq([event : {"test_case", "test_done"}, final : BOOLEAN, n : 0..MaxCases])
      BY DEF RunInv, Types, Event
    <2> QED
      BY <2>2, <2>3 DEF RunInv, Types, StopInv, CountInv, RestTypes, TypeOK
  <1> QED
    BY <1>1, RunInvariant, StopInvariant, CountInvariant, PTL

-----------------------------------------------------------------------------
(* What a client can rely on that waits for its replies: the verdict of its *)
(* run is what it reported; and, if it answers everything in time, nothing  *)
(* but its own leaving hurts the run.                                       *)

Told == \E i \in DOMAIN events : events[i].event = "test_done"
Heard == \E i \in 1..seen : i \in DOMAIN events /\ events[i].event = "test_done"
Busy == IF client \in {"testing", "waiting"} THEN 1 ELSE 0

ClientTypes ==
  /\ up \in BOOLEAN /\ acks \in Seq({"ok"}) /\ inbox \in [Cases -> Seq(Messages)]
  /\ seen \in Nat /\ doing \in Nat /\ asked \in Nat /\ got \in Nat /\ due \in Nat

\* At most one event is not read, or read and its reply is not; and the worker waits for it.
FlowInv ==
  /\ Unread \in {0, 1}
  /\ phase \in {"opening", "reporting"} => Len(acks) + Unread = 1
  /\ phase \notin {"opening", "reporting", "lost"} => acks = <<>> /\ Unread = 0
  /\ up => client # "gone"

OrdinaryInv ==
  /\ Ordinary => ~Told
  /\ Serving /\ ~Replaying => case \in Cases
  /\ kind # "run_test" => found = 0 /\ ~flaky /\ (phase \in {"setup", "open"} => case = 0)
  /\ phase = "setup" => ~flaky

\* Where the client is while the test cases that count go on: in the test case that the
\* worker is in, all its commands answered; ...
Level == due = 0 /\ doing = case - Unread
Testing ==
  client = "testing" =>
    Serving /\ doing = case /\ inbox[case] = <<>> /\ got = asked /\ Len(outbox[case]) = asked
\* ... or waiting for a reply, in that test case or, the reply ending it, in the one before; ...
Waiting ==
  client = "waiting" =>
    /\ asked = got + 1 /\ doing \in Cases
    /\ \/ /\ Serving /\ doing = case
          /\ \/ \E m \in Asks : inbox[case] = <<m>> /\ Len(outbox[case]) = got
             \/ inbox[case] = <<>> /\ Len(outbox[case]) = got + 1
       \/ /\ ~(Serving /\ doing = case)
          /\ Len(outbox[doing]) = got + 1 /\ outbox[doing][got + 1] \in Ending
\* ... or out of it, the conclusion with the close behind it written.
Idle ==
  client \notin {"testing", "waiting"} /\ Serving =>
    inbox[case] = <<>> \/ \E c \in Conclusions \cup {"bad"} : inbox[case] = <<c, "close">>
Fresh == \A c \in Cases : c > doing => inbox[c] = <<>> /\ outbox[c] = <<>>

\* The failure the client has reported and the worker has not read yet.
Pending == Serving /\ inbox[case] = <<"INTERESTING", "close">>
ResultTrue ==
  /\ failed \/ result.error # "none" => ~result.passed
  /\ flaky => result.error \in {"flaky", "health"}
  /\ ~result.passed /\ result.error = "none" => failed
Truth ==
  /\ Serving => status = "VALID"
  /\ phase # "report" /\ failed => found > 0 \/ flaky \/ Pending
  /\ found > 0 \/ Pending => failed
  /\ phase = "report" => ResultTrue

SyncInv == up /\ Ordinary => Level /\ Testing /\ Waiting /\ Idle /\ Fresh /\ Truth

\* From test_done on the verdict stands; the client is in no test case that counts, and
\* expects every final test case there is still to come.
LastReply ==
  client = "waiting" =>
    /\ doing \in Cases /\ got + 1 \in 1..Len(outbox[doing]) /\ outbox[doing][got + 1] \in Ending
Untold ==
  /\ phase \in {"reporting", "lost"} /\ client # "testing" /\ LastReply
  /\ Unread = 1 /\ events[Len(events)].event = "test_done"
Expected == client \in {"awaiting", "testing", "waiting"} => due >= left + Unread + Busy
LaterInv ==
  Told => ResultTrue /\ left <= result.n /\ (~Heard => Untold) /\ (Heard => Expected)

VerdictInv == ClientTypes /\ FlowInv /\ OrdinaryInv /\ SyncInv /\ LaterInv
Known == RunInv /\ StopInv /\ VerdictInv

Patient == "pipeline" \notin Faults

-----------------------------------------------------------------------------
LEMMA InitVerdict == Init => VerdictInv
  <1> SUFFICES ASSUME Init PROVE VerdictInv
    OBVIOUS
  <1>1. /\ phase = "setup" /\ case = 0 /\ flaky = FALSE /\ found = 0 /\ failed = FALSE
        /\ client = "awaiting" /\ seen = 0 /\ doing = 0 /\ asked = 0 /\ got = 0 /\ due = 0
        /\ up = TRUE /\ events = <<>> /\ acks = <<>>
    BY DEF Init
  <1>2. inbox = [c \in Cases |-> <<>>] /\ outbox = [c \in Cases |-> <<>>]
    BY DEF Init
  <1>3. ClientTypes
    BY <1>1, <1>2 DEF ClientTypes
  <1>4. FlowInv
    BY <1>1 DEF FlowInv, Unread
  <1>5. ~Told
    BY <1>1 DEF Told
  <1>6. ~Serving
    BY <1>1 DEF Serving
  <1>7. OrdinaryInv
    BY <1>1, <1>5, <1>6 DEF OrdinaryInv
  <1>8. Level /\ Testing /\ Waiting /\ Idle
    <2>1. Unread = 0
      BY <1>1 DEF Unread
    <2>2. Level
      BY <1>1, <2>1 DEF Level
    <2>3. client \notin {"testing", "waiting"}
      BY <1>1
    <2>4. Testing /\ Waiting /\ Idle
      BY <1>6, <2>3, Zenon DEF Testing, Waiting, Idle
    <2> QED
      BY <2>2, <2>4
  <1>9. Fresh
    BY <1>2 DEF Fresh
  <1>10. Truth
    <2>1. ~failed /\ ~Pending
      BY <1>1, <1>6 DEF Pending
    <2>2. ~(found > 0) /\ phase # "report"
      BY <1>1
    <2> QED
      BY <1>6, <2>1, <2>2, Zenon DEF Truth
  <1> QED
    BY <1>3, <1>4, <1>5, <1>7, <1>8, <1>9, <1>10 DEF VerdictInv, SyncInv, LaterInv

\* The events the worker sends are of two kinds, and none is of the second as long as the
\* test cases count.
LEMMA EventKinds ==
  ASSUME RunInv, NEW i \in DOMAIN events
  PROVE  events[i].event \in {"test_case", "test_done"} /\ (~Told => events[i].event = "test_case")
  <1>1. events \in Seq(Event)
    BY DEF RunInv, Types
  <1>2. events[i] \in Event
    BY <1>1
  <1>3. events[i].event \in {"test_case", "test_done"}
    BY <1>2 DEF Event
  <1> QED
    BY <1>3 DEF Told

-----------------------------------------------------------------------------
(* The steps of the client.  They leave the worker and the events alone.   *)

LEMMA ClientFrame ==
  ASSUME ClientSide
  PROVE  /\ UNCHANGED <<kind, phase, case, final, status, flaky, found, result, left, events>>
         /\ (Serving' <=> Serving) /\ (Replaying' <=> Replaying)
         /\ (Ordinary' <=> Ordinary) /\ (Told' <=> Told)
  <1>1. UNCHANGED <<kind, phase, case, final, status, flaky, found, result, left, events>>
    BY ClientChanges DEF workerVars
  <1>2. (Serving' <=> Serving) /\ (Replaying' <=> Replaying)
    BY <1>1 DEF Serving, Replaying
  <1>3. Ordinary' <=> Ordinary
    BY <1>1, <1>2 DEF Ordinary
  <1>4. Told' <=> Told
    BY <1>1 DEF Told
  <1> QED
    BY <1>1, <1>2, <1>3, <1>4

LEMMA ReceiveKeeps ==
  ASSUME Known, Receive
  PROVE  VerdictInv'
  <1> DEFINE e == events[seen + 1].event
  <1>1. /\ UNCHANGED <<kind, phase, case, final, status, flaky, found, result, left, events>>
        /\ (Serving' <=> Serving) /\ (Replaying' <=> Replaying)
        /\ (Ordinary' <=> Ordinary) /\ (Told' <=> Told)
    <2>1. ClientSide
      BY DEF ClientSide, Client
    <2> QED
      BY <2>1, ClientFrame
  <1>2. /\ client = "awaiting" /\ seen < Len(events) /\ UNCHANGED <<up, inbox, outbox, failed>>
        /\ seen' = seen + 1 /\ acks' = Append(acks, "ok")
    BY DEF Receive
  <1>3. seen \in Nat /\ Len(events) \in Nat /\ Unread = 1 /\ acks \in Seq({"ok"})
    BY <1>2 DEF Known, VerdictInv, ClientTypes, FlowInv, RunInv, Types, Unread
  <1>4. Len(events) = seen + 1 /\ Unread' = 0 /\ seen + 1 \in DOMAIN events
    BY <1>1, <1>2, <1>3 DEF Unread, Known, RunInv, Types
  <1>5. e \in {"test_case", "test_done"} /\ (~Told => e = "test_case")
    BY <1>4, EventKinds DEF Known
  <1>6. CASE e = "test_case"
    <2>1. /\ client' = "testing" /\ doing' = doing + 1 /\ asked' = 0 /\ got' = 0 /\ due' = due
      BY <1>6 DEF Receive
    <2>2. ClientTypes'
      BY <1>2, <2>1 DEF Known, VerdictInv, ClientTypes
    <2>3. FlowInv'
      BY <1>1, <1>2, <1>3, <1>4, <2>1 DEF Known, VerdictInv, FlowInv, ClientTypes
    <2>4. OrdinaryInv'
      BY <1>1 DEF Known, VerdictInv, OrdinaryInv
    <2>5. SyncInv'
      <3> SUFFICES ASSUME up, Ordinary
                   PROVE  Level' /\ Testing' /\ Waiting' /\ Idle' /\ Fresh' /\ Truth'
        BY <1>1, <1>2 DEF SyncInv
      <3>1. Level /\ Testing /\ Waiting /\ Idle /\ Fresh /\ Truth
        BY DEF Known, VerdictInv, SyncInv
      <3>2. phase = "opening" /\ ~Replaying /\ case \in Cases
        BY <1>3 DEF Known, VerdictInv, FlowInv, Ordinary, Serving, OrdinaryInv
      <3>3. case \in Nat /\ doing = case - 1 /\ doing \in Nat /\ due = 0
        BY <1>3, <3>1 DEF Level, Known, StopInv, VerdictInv, ClientTypes
      <3>4. Level' /\ doing' = case
        BY <1>1, <1>4, <2>1, <3>3 DEF Level
      <3>5. inbox[case] = <<>> /\ outbox[case] = <<>>
        BY <3>1, <3>2, <3>3 DEF Fresh
      <3>6. Testing'
        BY <1>1, <1>2, <2>1, <3>2, <3>4, <3>5 DEF Testing, Serving
      <3>7. Waiting' /\ Idle'
        BY <2>1 DEF Waiting, Idle
      <3>8. Fresh'
        <4>1. \A c \in Cases : c > doing' => c > doing
          BY <2>1, <3>3 DEF Cases
        <4> QED
          BY <1>2, <3>1, <4>1 DEF Fresh
      <3>9. Truth'
        BY <1>1, <1>2, <3>1 DEF Truth, Pending, ResultTrue
      <3> QED
        BY <3>4, <3>6, <3>7, <3>8, <3>9
    <2>6. LaterInv'
      <3> SUFFICES ASSUME Told
                   PROVE  /\ ResultTrue' /\ (left <= result.n)'
                          /\ (~Heard => Untold)' /\ (Heard => Expected)'
        BY <1>1 DEF LaterInv
      <3>1. ResultTrue' /\ (left <= result.n)'
        BY <1>1, <1>2 DEF Known, VerdictInv, LaterInv, ResultTrue
      <3>2. Heard /\ Expected
        <4>1. ~(events[Len(events)].event = "test_done")
          BY <1>4, <1>6
        <4> QED
          BY <4>1 DEF Known, VerdictInv, LaterInv, Untold
      <3>3. Heard'
        BY <1>1, <1>2, <1>3, <3>2 DEF Heard
      <3>4. Expected'
        <4>1. Busy = 0 /\ Busy' = 1 /\ due \in Nat /\ left \in Nat
          BY <1>2, <2>1 DEF Busy, Known, VerdictInv, ClientTypes, RunInv, Types
        <4>2. due >= left + 1
          BY <1>2, <1>3, <3>2, <4>1 DEF Expected
        <4> QED
          BY <1>1, <1>4, <2>1, <4>1, <4>2 DEF Expected
      <3> QED
        BY <3>1, <3>3, <3>4
    <2> QED
      BY <2>2, <2>3, <2>4, <2>5, <2>6 DEF VerdictInv
  <1>7. CASE e = "test_done"
    <2>1. /\ due' = result.n /\ UNCHANGED <<doing, asked, got>>
          /\ client' = IF result.error # "none" \/ (kind = "single" /\ result.n > 0) THEN "left"
                       ELSE IF result.n = 0 THEN "over" ELSE "awaiting"
      BY <1>7 DEF Receive
    <2>2. Told /\ ~Ordinary
      BY <1>5, <1>7 DEF Known, VerdictInv, OrdinaryInv
    <2>3. result.n \in Nat /\ left \in Nat
      BY RunAssumption DEF Known, RunInv, Types
    <2>4. ClientTypes'
      BY <1>2, <2>1, <2>3 DEF Known, VerdictInv, ClientTypes
    <2>5. FlowInv'
      BY <1>1, <1>2, <1>3, <1>4, <2>1 DEF Known, VerdictInv, FlowInv, ClientTypes
    <2>6. OrdinaryInv' /\ SyncInv'
      BY <1>1, <2>2 DEF Known, VerdictInv, OrdinaryInv, SyncInv
    <2>7. LaterInv'
      <3>1. ResultTrue' /\ (left <= result.n)'
        BY <1>1, <1>2, <2>2 DEF Known, VerdictInv, LaterInv, ResultTrue
      <3>2. Heard'
        BY <1>1, <1>2, <1>3, <1>4, <1>7 DEF Heard
      <3>3. Expected'
        BY <1>1, <1>4, <2>1, <2>3, <3>1 DEF Expected, Busy
      <3> QED
        BY <3>1, <3>2, <3>3 DEF LaterInv
    <2> QED
      BY <2>4, <2>5, <2>6, <2>7 DEF VerdictInv
  <1> QED
    BY <1>5, <1>6, <1>7

LEMMA AskKeeps ==
  ASSUME Patient, Known, NEW m \in Asks, Ask(m)
  PROVE  VerdictInv'
  <1>1. /\ UNCHANGED <<kind, phase, case, final, status, flaky, found, result, left, events>>
        /\ (Serving' <=> Serving) /\ (Replaying' <=> Replaying)
        /\ (Ordinary' <=> Ordinary) /\ (Told' <=> Told)
    <2>1. ClientSide
      BY DEF ClientSide, Client
    <2> QED
      BY <2>1, ClientFrame
  <1>2. /\ client = "testing" /\ client' = "waiting" /\ asked' = asked + 1
        /\ inbox' = [inbox EXCEPT ![doing] = @ \o <<m>>]
        /\ UNCHANGED <<up, acks, outbox, seen, doing, got, due, failed>>
    BY DEF Ask, Write, Patient
  <1>3. ClientTypes'
    <2>1. <<m>> \in Seq(Messages)
      BY DEF Messages
    <2>2. inbox' \in [Cases -> Seq(Messages)]
      BY <1>2, <2>1, WriteTypes DEF Known, VerdictInv, ClientTypes
    <2> QED
      BY <1>2, <2>2 DEF Known, VerdictInv, ClientTypes
  <1>4. Unread' = Unread /\ Busy' = Busy /\ (Heard' <=> Heard)
    BY <1>1, <1>2 DEF Unread, Busy, Heard
  <1>5. FlowInv' /\ OrdinaryInv'
    BY <1>1, <1>2, <1>4 DEF Known, VerdictInv, FlowInv, OrdinaryInv
  <1>6. SyncInv'
    <2> SUFFICES ASSUME up, Ordinary
                 PROVE  Level' /\ Testing' /\ Waiting' /\ Idle' /\ Fresh' /\ Truth'
      BY <1>1, <1>2 DEF SyncInv
    <2>1. Level /\ Testing /\ Waiting /\ Idle /\ Fresh /\ Truth
      BY DEF Known, VerdictInv, SyncInv
    <2>2. /\ Serving /\ doing = case /\ inbox[case] = <<>> /\ got = asked
          /\ Len(outbox[case]) = asked
      BY <1>2, <2>1 DEF Testing
    <2>3. case \in Cases /\ got \in Nat
      BY <2>2 DEF Known, VerdictInv, OrdinaryInv, Ordinary, Serving, ClientTypes
    <2>4. inbox'[case] = <<m>> /\ \A c \in Cases \ {case} : inbox'[c] = inbox[c]
      <3>1. inbox'[case] = <<>> \o <<m>>
        BY <1>2, <2>2, <2>3 DEF Known, VerdictInv, ClientTypes
      <3>2. <<>> \o <<m>> = <<m>>
        OBVIOUS
      <3> QED
        BY <1>2, <2>2, <3>1, <3>2 DEF Known, VerdictInv, ClientTypes
    <2>5. Level' /\ Testing' /\ Idle'
      BY <1>1, <1>2, <1>4, <2>1 DEF Level, Testing, Idle
    <2>6. Waiting'
      BY <1>1, <1>2, <2>2, <2>3, <2>4 DEF Waiting
    <2>7. Fresh'
      BY <1>2, <2>1, <2>2, <2>4 DEF Fresh, Cases
    <2>8. ~Pending /\ ~Pending'
      <3>1. <<m>> # <<"INTERESTING", "close">> /\ <<>> # <<"INTERESTING", "close">>
        OBVIOUS
      <3> QED
        BY <1>1, <2>2, <2>4, <3>1 DEF Pending
    <2>9. Truth'
      BY <1>1, <1>2, <2>1, <2>8 DEF Truth, ResultTrue
    <2> QED
      BY <2>5, <2>6, <2>7, <2>9
  <1>7. LaterInv'
    <2> SUFFICES ASSUME Told
                 PROVE  /\ ResultTrue' /\ (left <= result.n)'
                        /\ (~Heard => Untold)' /\ (Heard => Expected)'
      BY <1>1 DEF LaterInv
    <2>1. ResultTrue /\ left <= result.n /\ Heard /\ Expected
      BY <1>2 DEF Known, VerdictInv, LaterInv, Untold
    <2> QED
      BY <1>1, <1>2, <1>4, <2>1 DEF ResultTrue, Expected
  <1> QED
    BY <1>3, <1>5, <1>6, <1>7 DEF VerdictInv

LEMMA CompleteKeeps ==
  ASSUME Patient, Known, NEW s \in Conclusions \cup {"bad"}, Complete(s)
  PROVE  VerdictInv'
  <1>1. /\ UNCHANGED <<kind, phase, case, final, status, flaky, found, result, left, events>>
        /\ (Serving' <=> Serving) /\ (Replaying' <=> Replaying)
        /\ (Ordinary' <=> Ordinary) /\ (Told' <=> Told)
    <2>1. UNCHANGED workerVars /\ UNCHANGED events
      BY DEF Complete
    <2>2. (Serving' <=> Serving) /\ (Replaying' <=> Replaying)
      BY <2>1 DEF Serving, Replaying, workerVars
    <2> QED
      BY <2>1, <2>2 DEF Ordinary, Told, workerVars
  <1>2. /\ client = "testing" /\ client' \in {"left", "over", "awaiting"}
        /\ due' = IF due > 0 THEN due - 1 ELSE 0
        /\ failed' = (failed \/ (s = "INTERESTING" /\ due = 0))
        /\ inbox' = [inbox EXCEPT ![doing] = @ \o <<s, "close">>]
        /\ UNCHANGED <<up, acks, outbox, seen, doing, asked, got>>
    BY DEF Complete, Write, Leave
  <1>3. ClientTypes'
    <2>1. <<s, "close">> \in Seq(Messages)
      BY DEF Messages
    <2>2. inbox' \in [Cases -> Seq(Messages)]
      BY <1>2, <2>1, WriteTypes DEF Known, VerdictInv, ClientTypes
    <2> QED
      BY <1>2, <2>2 DEF Known, VerdictInv, ClientTypes
  <1>4. Unread' = Unread /\ Busy = 1 /\ Busy' = 0 /\ (Heard' <=> Heard)
    BY <1>1, <1>2 DEF Unread, Busy, Heard
  <1>5. FlowInv' /\ OrdinaryInv'
    BY <1>1, <1>2, <1>4 DEF Known, VerdictInv, FlowInv, OrdinaryInv
  <1>6. SyncInv'
    <2> SUFFICES ASSUME up, Ordinary
                 PROVE  Level' /\ Testing' /\ Waiting' /\ Idle' /\ Fresh' /\ Truth'
      BY <1>1, <1>2 DEF SyncInv
    <2>1. Level /\ Testing /\ Waiting /\ Idle /\ Fresh /\ Truth
      BY DEF Known, VerdictInv, SyncInv
    <2>2. Serving /\ doing = case /\ inbox[case] = <<>>
      BY <1>2, <2>1 DEF Testing
    <2>3. case \in Cases
      BY <2>2 DEF Known, VerdictInv, OrdinaryInv, Ordinary, Serving
    <2>4. inbox'[case] = <<s, "close">> /\ \A c \in Cases \ {case} : inbox'[c] = inbox[c]
      <3>1. inbox'[case] = <<>> \o <<s, "close">>
        BY <1>2, <2>2, <2>3 DEF Known, VerdictInv, ClientTypes
      <3>2. <<>> \o <<s, "close">> = <<s, "close">>
        OBVIOUS
      <3> QED
        BY <1>2, <2>2, <3>1, <3>2 DEF Known, VerdictInv, ClientTypes
    <2>5. Level' /\ Testing' /\ Waiting'
      BY <1>1, <1>2, <1>4, <2>1 DEF Level, Testing, Waiting
    <2>6. Idle'
      BY <1>1, <1>2, <2>4 DEF Idle
    <2>7. Fresh'
      BY <1>2, <2>1, <2>2, <2>4 DEF Fresh, Cases
    <2>8. ~Pending /\ (Pending' <=> s = "INTERESTING") /\ due = 0
      <3>1. <<>> # <<"INTERESTING", "close">>
        OBVIOUS
      <3>2. <<s, "close">> = <<"INTERESTING", "close">> <=> s = "INTERESTING"
        OBVIOUS
      <3> QED
        BY <1>1, <2>1, <2>2, <2>4, <3>1, <3>2 DEF Pending, Level
    <2>9. Truth'
      BY <1>1, <1>2, <2>1, <2>2, <2>8 DEF Truth, ResultTrue, Serving
    <2> QED
      BY <2>5, <2>6, <2>7, <2>9
  <1>7. LaterInv'
    <2> SUFFICES ASSUME Told
                 PROVE  /\ ResultTrue' /\ (left <= result.n)'
                        /\ (~Heard => Untold)' /\ (Heard => Expected)'
      BY <1>1 DEF LaterInv
    <2>1. ResultTrue /\ left <= result.n /\ Heard /\ Expected
      BY <1>2 DEF Known, VerdictInv, LaterInv, Untold
    <2>2. left \in Nat /\ Unread \in {0, 1} /\ due \in Nat
      BY DEF Known, RunInv, Types, VerdictInv, FlowInv, ClientTypes
    <2>3. due >= left + Unread + 1
      BY <1>2, <1>4, <2>1 DEF Expected
    <2>4. failed' <=> failed
      <3>1. due # 0
        BY <2>2, <2>3
      <3> QED
        BY <1>2, <3>1, Zenon
    <2>5. due' = due - 1
      BY <1>2, <2>2, <2>3
    <2>6. Expected'
      BY <1>1, <1>4, <2>2, <2>3, <2>5 DEF Expected
    <2> QED
      BY <1>1, <1>4, <2>1, <2>4, <2>6 DEF ResultTrue
  <1> QED
    BY <1>3, <1>5, <1>6, <1>7 DEF VerdictInv

LEMMA TakeReplyKeeps ==
  ASSUME Patient, Known, TakeReply
  PROVE  VerdictInv'
  <1> DEFINE r == outbox[doing][got + 1]
  <1>1. /\ UNCHANGED <<kind, phase, case, final, status, flaky, found, result, left, events>>
        /\ (Serving' <=> Serving) /\ (Replaying' <=> Replaying)
        /\ (Ordinary' <=> Ordinary) /\ (Told' <=> Told)
    <2>1. ClientSide
      BY DEF ClientSide, Client
    <2> QED
      BY <2>1, ClientFrame
  <1>2. /\ client = "waiting" /\ got < Len(outbox[doing]) /\ got' = got + 1
        /\ UNCHANGED <<up, acks, outbox, seen, doing, asked, failed>>
    BY DEF TakeReply
  <1>3. Unread' = Unread /\ Busy = 1 /\ (Heard' <=> Heard)
    BY <1>1, <1>2 DEF Unread, Busy, Heard
  <1>4. left \in Nat /\ Unread \in {0, 1} /\ due \in Nat /\ got \in Nat
    BY DEF Known, RunInv, Types, VerdictInv, FlowInv, ClientTypes
  <1>5. OrdinaryInv'
    BY <1>1 DEF Known, VerdictInv, OrdinaryInv
  <1>6. CASE r \in Ending
    <2>1. /\ client' \in {"over", "awaiting"} /\ due' = IF due > 0 THEN due - 1 ELSE 0
          /\ inbox' = [inbox EXCEPT ![doing] = @ \o <<"close">>]
      BY <1>6 DEF TakeReply, Ending, Write, Leave
    <2>2. ClientTypes'
      <3>1. <<"close">> \in Seq(Messages)
        BY DEF Messages
      <3>2. inbox' \in [Cases -> Seq(Messages)]
        BY <2>1, <3>1, WriteTypes DEF Known, VerdictInv, ClientTypes
      <3> QED
        BY <1>2, <2>1, <3>2 DEF Known, VerdictInv, ClientTypes
    <2>3. FlowInv' /\ Busy' = 0
      BY <1>1, <1>2, <1>3, <2>1 DEF Known, VerdictInv, FlowInv, Busy
    <2>4. SyncInv'
      <3> SUFFICES ASSUME up, Ordinary
                   PROVE  Level' /\ Testing' /\ Waiting' /\ Idle' /\ Fresh' /\ Truth'
        BY <1>1, <1>2 DEF SyncInv
      <3>1. Level /\ Testing /\ Waiting /\ Idle /\ Fresh /\ Truth
        BY DEF Known, VerdictInv, SyncInv
      <3>2. ~(Serving /\ doing = case) /\ doing \in Cases
        <4>1. ASSUME Serving, doing = case PROVE FALSE
          <5>1. case \in Cases
            BY <4>1 DEF Known, VerdictInv, OrdinaryInv, Ordinary, Serving
          <5>2. outbox[case] \in Seq(Replies) /\ got + 1 \in DOMAIN outbox[case]
            BY <1>2, <1>4, <4>1, <5>1 DEF Known, StopInv
          <5>3. r \notin Ending
            BY <4>1, <5>1, <5>2 DEF Known, StopInv, Serving
          <5> QED
            BY <1>6, <5>3
        <4> QED
          BY <1>2, <3>1, <4>1 DEF Waiting
      <3>3. \A c \in Cases \ {doing} : inbox'[c] = inbox[c]
        BY <2>1 DEF Known, VerdictInv, ClientTypes
      <3>4. Serving => case \in Cases \ {doing} /\ inbox[case] = <<>>
        <4> SUFFICES ASSUME Serving PROVE case \in Cases \ {doing} /\ inbox[case] = <<>>
          OBVIOUS
        <4>1. case \in Cases
          BY DEF Known, VerdictInv, OrdinaryInv, Ordinary, Serving
        <4>2. case > doing
          BY <1>4, <3>1, <3>2, <4>1 DEF Level, Cases
        <4> QED
          BY <3>1, <3>2, <4>1, <4>2 DEF Fresh
      <3>5. Level' /\ Testing' /\ Waiting'
        BY <1>1, <1>2, <1>3, <2>1, <3>1 DEF Level, Testing, Waiting
      <3>6. Idle'
        BY <1>1, <3>3, <3>4 DEF Idle
      <3>7. Fresh'
        BY <1>2, <3>1, <3>2, <3>3 DEF Fresh, Cases
      <3>8. ~Pending /\ ~Pending'
        <4>1. <<>> # <<"INTERESTING", "close">>
          OBVIOUS
        <4> QED
          BY <1>1, <3>3, <3>4, <4>1 DEF Pending
      <3>9. Truth'
        BY <1>1, <1>2, <3>1, <3>8 DEF Truth, ResultTrue
      <3> QED
        BY <3>5, <3>6, <3>7, <3>9
    <2>5. LaterInv'
      <3> SUFFICES ASSUME Told
                   PROVE  /\ ResultTrue' /\ (left <= result.n)'
                          /\ (~Heard => Untold)' /\ (Heard => Expected)'
        BY <1>1 DEF LaterInv
      <3>1. ResultTrue /\ left <= result.n /\ (~Heard => Untold) /\ (Heard => Expected)
        BY DEF Known, VerdictInv, LaterInv
      <3>2. ResultTrue' /\ (left <= result.n)'
        BY <1>1, <1>2, <3>1 DEF ResultTrue
      <3>3. ~Heard' => Untold'
        BY <1>1, <1>3, <2>1, <3>1 DEF Untold, LastReply
      <3>4. Heard' => Expected'
        <4>1. ASSUME Heard PROVE due >= left + Unread + 1
          BY <1>2, <1>3, <3>1, <4>1 DEF Expected
        <4> QED
          BY <1>1, <1>3, <1>4, <2>1, <2>3, <4>1 DEF Expected
      <3> QED
        BY <3>2, <3>3, <3>4
    <2> QED
      BY <1>5, <2>2, <2>3, <2>4, <2>5 DEF VerdictInv
  <1>7. CASE r \notin Ending
    <2>1. /\ client' = IF got + 1 = asked THEN "testing" ELSE "waiting"
          /\ UNCHANGED <<due, inbox>>
      BY <1>7 DEF TakeReply, Ending
    <2>2. ClientTypes'
      BY <1>2, <2>1 DEF Known, VerdictInv, ClientTypes
    <2>3. FlowInv' /\ Busy' = 1
      BY <1>1, <1>2, <1>3, <2>1 DEF Known, VerdictInv, FlowInv, Busy
    <2>4. SyncInv'
      <3> SUFFICES ASSUME up, Ordinary
                   PROVE  Level' /\ Testing' /\ Waiting' /\ Idle' /\ Fresh' /\ Truth'
        BY <1>1, <1>2 DEF SyncInv
      <3>1. Level /\ Testing /\ Waiting /\ Idle /\ Fresh /\ Truth
        BY DEF Known, VerdictInv, SyncInv
      <3>2. /\ asked = got + 1 /\ Serving /\ doing = case
            /\ inbox[case] = <<>> /\ Len(outbox[case]) = got + 1
        BY <1>2, <1>4, <1>7, <3>1 DEF Waiting
      <3>3. client' = "testing"
        BY <2>1, <3>2
      <3>4. Level' /\ Waiting' /\ Idle'
        BY <1>1, <1>2, <1>3, <2>1, <3>1, <3>3 DEF Level, Waiting, Idle
      <3>5. Testing'
        BY <1>1, <1>2, <2>1, <3>2 DEF Testing
      <3>6. Fresh'
        BY <1>2, <2>1, <3>1 DEF Fresh
      <3>7. Truth'
        BY <1>1, <1>2, <2>1, <3>1 DEF Truth, ResultTrue, Pending
      <3> QED
        BY <3>4, <3>5, <3>6, <3>7
    <2>5. LaterInv'
      <3> SUFFICES ASSUME Told
                   PROVE  /\ ResultTrue' /\ (left <= result.n)'
                          /\ (~Heard => Untold)' /\ (Heard => Expected)'
        BY <1>1 DEF LaterInv
      <3>1. ResultTrue /\ left <= result.n /\ Heard /\ Expected
        BY <1>2, <1>7 DEF Known, VerdictInv, LaterInv, Untold, LastReply
      <3>2. ResultTrue' /\ (left <= result.n)'
        BY <1>1, <1>2, <3>1 DEF ResultTrue
      <3>3. Expected'
        BY <1>1, <1>2, <1>3, <2>1, <2>3, <3>1 DEF Expected
      <3> QED
        BY <1>3, <3>1, <3>2, <3>3
    <2> QED
      BY <1>5, <2>2, <2>3, <2>4, <2>5 DEF VerdictInv
  <1> QED
    BY <1>6, <1>7

LEMMA VanishKeeps ==
  ASSUME Known, Vanish
  PROVE  VerdictInv'
  <1>1. /\ UNCHANGED <<kind, phase, case, final, status, flaky, found, result, left, events>>
        /\ (Serving' <=> Serving) /\ (Replaying' <=> Replaying)
        /\ (Ordinary' <=> Ordinary) /\ (Told' <=> Told)
    <2>1. ClientSide
      BY DEF ClientSide
    <2> QED
      BY <2>1, ClientFrame
  <1>2. /\ up' = FALSE /\ client' = "gone"
        /\ UNCHANGED <<acks, inbox, outbox, seen, doing, asked, got, due, failed>>
    BY DEF Vanish
  <1>3. ClientTypes'
    BY <1>2 DEF Known, VerdictInv, ClientTypes
  <1>4. Unread' = Unread /\ (Heard' <=> Heard)
    BY <1>1, <1>2 DEF Unread, Heard
  <1>5. FlowInv' /\ OrdinaryInv'
    BY <1>1, <1>2, <1>4 DEF Known, VerdictInv, FlowInv, OrdinaryInv
  <1>6. SyncInv'
    BY <1>2 DEF SyncInv
  <1>7. LaterInv'
    <2>1. Told => ResultTrue' /\ left' <= result'.n
      BY <1>1, <1>2 DEF Known, VerdictInv, LaterInv, ResultTrue
    <2>2. Told /\ ~Heard => Untold'
      BY <1>1, <1>2, <1>4 DEF Known, VerdictInv, LaterInv, Untold, LastReply
    <2>3. Expected'
      BY <1>2 DEF Expected
    <2> QED
      BY <1>1, <1>4, <2>1, <2>2, <2>3 DEF LaterInv
  <1> QED
    BY <1>3, <1>5, <1>6, <1>7 DEF VerdictInv

LEMMA ClientKeepsVerdict ==
  ASSUME Patient, Known, ClientSide, ~Refuse
  PROVE  VerdictInv'
  <1>1. CASE Client
    <2>1. ASSUME NEW s \in Conclusions \cup (IF "badcomplete" \in Faults THEN {"bad"} ELSE {}),
                 Complete(s)
          PROVE  VerdictInv'
      <3>1. s \in Conclusions \cup {"bad"}
        OBVIOUS
      <3> QED
        BY <2>1, <3>1, CompleteKeeps
    <2> QED
      BY <1>1, <2>1, ReceiveKeeps, TakeReplyKeeps, AskKeeps DEF Client
  <1>2. CASE UNCHANGED vars
    <2> USE <1>2 DEF vars, workerVars, wireVars, clientVars
    <2>1. /\ ClientTypes' /\ FlowInv' /\ OrdinaryInv'
      BY DEF Known, VerdictInv, ClientTypes, FlowInv, OrdinaryInv, Unread, Ordinary, Serving,
             Replaying, Told
    <2>2. SyncInv'
      BY DEF Known, VerdictInv, SyncInv, Ordinary, Serving, Replaying, Level, Testing, Waiting,
             Idle, Fresh, Truth, Pending, ResultTrue, Unread
    <2>3. LaterInv'
      BY DEF Known, VerdictInv, LaterInv, Told, Heard, ResultTrue, Untold, LastReply, Expected,
             Busy, Unread
    <2> QED
      BY <2>1, <2>2, <2>3 DEF VerdictInv
  <1> QED
    BY <1>1, <1>2, VanishKeeps DEF ClientSide

-----------------------------------------------------------------------------
(* The steps of the worker.  They leave the client alone.                   *)

\* A run that is lost has no more to keep, and keeps a verdict that was told.
LEMMA LostKeeps ==
  ASSUME Known, phase' = "lost", acks' \in Seq({"ok"}), inbox' \in [Cases -> Seq(Messages)],
         UNCHANGED <<kind, up, client, seen, doing, asked, got, due, failed>>,
         UNCHANGED <<flaky, found, result, left, events, outbox>>
  PROVE  VerdictInv'
  <1>1. ClientTypes' /\ FlowInv'
    BY DEF Known, VerdictInv, ClientTypes, FlowInv, Unread
  <1>2. ~Ordinary' /\ ~Serving' /\ Unread' = Unread /\ Busy' = Busy
        /\ (Told' <=> Told) /\ (Heard' <=> Heard)
    BY DEF Ordinary, Serving, Unread, Busy, Told, Heard
  <1>3. OrdinaryInv' /\ SyncInv'
    BY <1>2 DEF Known, VerdictInv, OrdinaryInv, SyncInv
  <1>4. LaterInv'
    <2>1. Told => ResultTrue' /\ left' <= result'.n
      BY DEF Known, VerdictInv, LaterInv, ResultTrue
    <2>2. Told /\ ~Heard => Untold'
      BY <1>2 DEF Known, VerdictInv, LaterInv, Untold, LastReply
    <2>3. Told /\ Heard => Expected'
      BY <1>2 DEF Known, VerdictInv, LaterInv, Expected
    <2> QED
      BY <1>2, <2>1, <2>2, <2>3 DEF LaterInv
  <1> QED
    BY <1>1, <1>3, <1>4 DEF VerdictInv

LEMMA LosesKeepsVerdict ==
  ASSUME Known, WorkerLoses
  PROVE  VerdictInv'
  <1>1. /\ phase' = "lost" /\ UNCHANGED <<kind, up, client, seen, doing, asked, got, due, failed>>
        /\ UNCHANGED <<flaky, found, result, left, events, outbox, acks, inbox>>
    BY DEF WorkerLoses, Timeout, ReadClosed, SendFails, SetUpFails, Lost, wireVars, clientVars
  <1> QED
    BY <1>1, LostKeeps DEF Known, VerdictInv, ClientTypes

\* Between two test cases, before test_done: what a step keeps that only moves the worker on.
LEMMA BetweenKeeps ==
  ASSUME Known, phase \in {"setup", "engine"}, phase' \in {"engine", "open", "report"},
         UNCHANGED <<kind, up, client, seen, doing, asked, got, due, failed>>,
         UNCHANGED <<case, flaky, found, events, acks, inbox, outbox>>,
         phase' = "open" /\ kind # "run_test" => phase = "setup",
         up /\ phase' = "report" => ResultTrue'
  PROVE  VerdictInv'
  <1>1. Ordinary /\ ~Serving /\ ~Serving' /\ (Told' <=> Told) /\ ~Told /\ Unread' = Unread
    BY DEF Ordinary, Serving, Told, Unread, Known, VerdictInv, OrdinaryInv
  <1>2. ClientTypes'
    BY DEF Known, VerdictInv, ClientTypes
  <1>3. FlowInv'
    BY <1>1 DEF Known, VerdictInv, FlowInv
  <1>4. OrdinaryInv'
    BY <1>1 DEF Known, VerdictInv, OrdinaryInv
  <1>5. SyncInv'
    <2> SUFFICES ASSUME up PROVE Level' /\ Testing' /\ Waiting' /\ Idle' /\ Fresh' /\ Truth'
      BY DEF SyncInv
    <2>1. Level /\ Testing /\ Waiting /\ Fresh /\ Truth
      BY <1>1 DEF Known, VerdictInv, SyncInv
    <2>2. Level' /\ Testing' /\ Waiting'
      BY <1>1, <2>1 DEF Level, Testing, Waiting
    <2>3. Idle' /\ Fresh' /\ ~Pending /\ ~Pending'
      BY <1>1, <2>1 DEF Idle, Fresh, Pending
    <2>4. Truth'
      BY <1>1, <2>1, <2>3 DEF Truth
    <2> QED
      BY <2>2, <2>3, <2>4
  <1>6. LaterInv'
    BY <1>1 DEF LaterInv
  <1> QED
    BY <1>2, <1>3, <1>4, <1>5, <1>6 DEF VerdictInv

LEMMA SetsUpKeepsVerdict ==
  ASSUME Known, SetUp \/ EngineGoesOn
  PROVE  VerdictInv'
  <1>1. /\ UNCHANGED <<case, flaky, found, events, acks, inbox, outbox>>
        /\ UNCHANGED <<kind, up, client, seen, doing, asked, got, due, failed>>
    BY DEF SetUp, EngineGoesOn, wireVars, clientVars
  <1>2. \/ phase = "setup" /\ phase' \in {"engine", "open"}
        \/ phase = "engine" /\ phase' = "open"
    BY SetsUpChanges
  <1>3. phase = "engine" => kind = "run_test"
    BY DEF Known, RunInv, FoundInv
  <1> QED
    BY <1>1, <1>2, <1>3, BetweenKeeps

\* The engine's verdict: what it found the client has reported, and what the client has
\* reported it found, or a flaky test case was seen.
LEMMA ReportsKeepsVerdict ==
  ASSUME Known, BadName \/ EngineReturns \/ EngineRaises
  PROVE  VerdictInv'
  <1>1. /\ UNCHANGED <<case, flaky, found, events, acks, inbox, outbox>>
        /\ UNCHANGED <<kind, up, client, seen, doing, asked, got, due, failed>>
        /\ phase \in {"setup", "engine"} /\ phase' = "report"
    BY DEF BadName, EngineReturns, EngineRaises, wireVars, clientVars
  <1>2. ASSUME up PROVE ResultTrue'
    <2>1. Ordinary /\ ~Serving
      BY <1>1 DEF Ordinary, Serving
    <2>2. (failed => found > 0 \/ flaky) /\ (found > 0 => failed)
      BY <1>1, <1>2, <2>1 DEF Known, VerdictInv, SyncInv, Truth, Pending
    <2>3. CASE BadName
      <3>1. result'.error = "error" /\ ~result'.passed /\ phase = "setup"
        BY <2>3 DEF BadName, Result
      <3>2. ~flaky
        BY <3>1 DEF Known, VerdictInv, OrdinaryInv
      <3> QED
        BY <1>1, <3>1, <3>2 DEF ResultTrue
    <2>4. CASE EngineRaises
      <3>1. result'.error \in {"health", "flaky"} /\ ~result'.passed
        BY <2>4 DEF EngineRaises, Result
      <3> QED
        BY <1>1, <3>1 DEF ResultTrue
    <2>5. CASE EngineReturns
      <3>1. PICK n \in 0..found, exitFlaky \in BOOLEAN :
              /\ n = 0 <=> found = 0
              /\ result' = IF flaky \/ exitFlaky THEN Result("flaky", n, FALSE)
                                                 ELSE Result("none", n, n = 0)
        BY <2>5 DEF EngineReturns
      <3>2. CASE flaky \/ exitFlaky
        <4>1. result'.error = "flaky" /\ ~result'.passed
          BY <3>1, <3>2 DEF Result
        <4> QED
          BY <1>1, <4>1 DEF ResultTrue
      <3>3. CASE ~(flaky \/ exitFlaky)
        <4>1. result'.error = "none" /\ (result'.passed <=> found = 0)
          BY <3>1, <3>3 DEF Result
        <4>2. found > 0 <=> ~(found = 0)
          BY DEF Known, RunInv, Types
        <4>3. failed <=> ~(found = 0)
          BY <2>2, <3>3, <4>2, Zenon
        <4> QED
          BY <1>1, <3>3, <4>1, <4>3 DEF ResultTrue
      <3> QED
        BY <3>2, <3>3
    <2> QED
      BY <2>3, <2>4, <2>5
  <1> QED
    BY <1>1, <1>2, BetweenKeeps

\* Another event on the run's stream.
LEMMA EventSent ==
  ASSUME Known, NEW e \in Event, events' = Append(events, e), UNCHANGED seen, Unread = 0
  PROVE  /\ Unread' = 1 /\ Len(events') = Len(events) + 1 /\ events'[Len(events')] = e
         /\ (Told' <=> Told \/ e.event = "test_done") /\ (Heard' <=> Heard)
  <1>1. events \in Seq(Event) /\ seen \in Nat /\ seen = Len(events)
    BY DEF Known, RunInv, Types, VerdictInv, ClientTypes, Unread
  <1>2. /\ Len(events') = Len(events) + 1 /\ events'[Len(events')] = e
        /\ \A i \in 1..Len(events) : events'[i] = events[i]
        /\ DOMAIN events = 1..Len(events) /\ DOMAIN events' = 1..(Len(events) + 1)
    BY <1>1
  <1>3. Unread' = 1
    BY <1>1, <1>2 DEF Unread
  <1>4. Told' <=> Told \/ e.event = "test_done"
    <2>1. \A i \in 1..(Len(events) + 1) : i \in 1..Len(events) \/ i = Len(events')
      BY <1>1, <1>2
    <2>2. Len(events') \in 1..(Len(events) + 1) /\ 1..Len(events) \subseteq 1..(Len(events) + 1)
      BY <1>1, <1>2
    <2> QED
      BY <1>2, <2>1, <2>2, Zenon DEF Told
  <1>5. Heard' <=> Heard
    <2>1. \A i \in 1..seen : i \in 1..Len(events) /\ i \in 1..(Len(events) + 1)
      BY <1>1
    <2> QED
      BY <1>2, <2>1, Zenon DEF Heard
  <1> QED
    BY <1>2, <1>3, <1>4, <1>5

LEMMA OpensKeeps ==
  ASSUME Known, SendCase, phase = "open"
  PROVE  VerdictInv'
  <1>1. /\ up /\ UNCHANGED <<kind, up, client, seen, doing, asked, got, due, failed>>
        /\ UNCHANGED <<flaky, found, result, left, acks, inbox, outbox>>
        /\ phase' = "opening" /\ case' = case + 1 /\ status' = "VALID" /\ final' = (kind = "single")
        /\ events' = Append(events, TestCase(kind = "single"))
    <2>1. (phase = "replay" \/ kind = "single") = (kind = "single")
      OBVIOUS
    <2> QED
      BY <2>1 DEF SendCase, clientVars
  <1>2. Ordinary /\ ~Serving /\ Serving' /\ ~Replaying' /\ Ordinary' /\ ~Told
    BY <1>1 DEF Ordinary, Serving, Replaying, Known, VerdictInv, OrdinaryInv
  <1>3. acks = <<>> /\ Unread = 0
    BY DEF Known, VerdictInv, FlowInv
  <1>4. Unread' = 1 /\ ~Told'
    <2>1. TestCase(kind = "single") \in Event /\ TestCase(kind = "single").event = "test_case"
      BY RunAssumption DEF TestCase, Event
    <2> QED
      BY <1>1, <1>2, <1>3, <2>1, EventSent
  <1>5. case' \in Cases /\ case \in Nat
    <2>1. case \in Nat /\ MaxCases \in Nat \ {0}
      BY RunAssumption DEF Known, StopInv
    <2>2. case < MaxCases \/ case = 0
      BY DEF Known, RunInv, Types, FoundInv, VerdictInv, OrdinaryInv
    <2> QED
      BY <1>1, <2>1, <2>2 DEF Cases
  <1>6. ClientTypes'
    BY <1>1 DEF Known, VerdictInv, ClientTypes
  <1>7. FlowInv'
    BY <1>1, <1>3, <1>4 DEF Known, VerdictInv, FlowInv
  <1>8. OrdinaryInv'
    BY <1>1, <1>2, <1>4, <1>5 DEF Known, VerdictInv, OrdinaryInv
  <1>9. Level' /\ Testing' /\ Waiting' /\ Idle' /\ Fresh' /\ Truth'
    <2>1. Level /\ Testing /\ Waiting /\ Fresh /\ Truth
      BY <1>1, <1>2 DEF Known, VerdictInv, SyncInv
    <2>2. due = 0 /\ doing = case
      BY <1>3, <1>5, <2>1 DEF Level
    <2>3. Level' /\ doing' # case'
      BY <1>1, <1>4, <1>5, <2>2 DEF Level
    <2>4. Testing' /\ Waiting'
      BY <1>1, <1>2, <2>1, <2>3 DEF Testing, Waiting
    <2>5. inbox'[case'] = <<>>
      BY <1>1, <1>5, <2>1, <2>2 DEF Fresh
    <2>6. Idle' /\ Fresh'
      BY <1>1, <2>1, <2>5 DEF Idle, Fresh
    <2>7. ~Pending /\ ~Pending'
      BY <1>2, <2>5 DEF Pending
    <2>8. Truth'
      BY <1>1, <2>1, <2>7 DEF Truth
    <2> QED
      BY <2>3, <2>4, <2>6, <2>8
  <1> QED
    BY <1>4, <1>6, <1>7, <1>8, <1>9 DEF VerdictInv, SyncInv, LaterInv

LEMMA ReplaysKeep ==
  ASSUME Known, SendCase, phase = "replay"
  PROVE  VerdictInv'
  <1>1. /\ UNCHANGED <<kind, up, client, seen, doing, asked, got, due, failed>>
        /\ UNCHANGED <<flaky, found, result, acks, inbox, outbox>>
        /\ phase' = "opening" /\ final' = TRUE /\ left > 0 /\ left' = left - 1
        /\ events' = Append(events, TestCase(TRUE))
    <2>1. (phase = "replay" \/ kind = "single") = TRUE
      OBVIOUS
    <2> QED
      BY <2>1 DEF SendCase, clientVars
  <1>2. kind # "single"
    BY <1>1 DEF Known, RunInv, SingleInv
  <1>3. Serving' /\ Replaying' /\ ~Ordinary'
    BY <1>1, <1>2 DEF Ordinary, Serving, Replaying
  <1>4. acks = <<>> /\ Unread = 0 /\ left \in Nat /\ result.n \in Nat
    BY RunAssumption DEF Known, VerdictInv, FlowInv, RunInv, Types
  <1>5. Unread' = 1 /\ (Told' <=> Told) /\ (Heard' <=> Heard)
    <2>1. TestCase(TRUE) \in Event /\ TestCase(TRUE).event = "test_case"
      BY RunAssumption DEF TestCase, Event
    <2> QED
      BY <1>1, <1>4, <2>1, EventSent
  <1>6. ClientTypes'
    BY <1>1 DEF Known, VerdictInv, ClientTypes
  <1>7. FlowInv'
    BY <1>1, <1>4, <1>5 DEF Known, VerdictInv, FlowInv
  <1>8. OrdinaryInv' /\ SyncInv'
    BY <1>1, <1>3 DEF Known, VerdictInv, OrdinaryInv, SyncInv
  <1>9. LaterInv'
    <2> SUFFICES ASSUME Told PROVE ResultTrue' /\ (left <= result.n)' /\ Heard' /\ Expected'
      BY <1>5 DEF LaterInv
    <2>1. ResultTrue /\ left <= result.n /\ Heard /\ Expected
      BY DEF Known, VerdictInv, LaterInv, Untold
    <2>2. ResultTrue' /\ (left <= result.n)'
      BY <1>1, <1>4, <2>1 DEF ResultTrue
    <2>3. Busy \in {0, 1} /\ Busy' = Busy
      BY <1>1 DEF Busy
    <2>4. Expected'
      BY <1>1, <1>4, <1>5, <2>1, <2>3 DEF Expected
    <2> QED
      BY <1>5, <2>1, <2>2, <2>4
  <1> QED
    BY <1>6, <1>7, <1>8, <1>9 DEF VerdictInv

LEMMA CaseAckedKeeps ==
  ASSUME Known, CaseAcked
  PROVE  VerdictInv'
  <1>1. /\ phase = "opening" /\ acks # <<>> /\ acks' = Tail(acks) /\ acks \in Seq({"ok"})
        /\ UNCHANGED <<kind, up, client, seen, doing, asked, got, due, failed>>
        /\ UNCHANGED <<case, final, status, flaky, found, result, left, events, inbox, outbox>>
    BY DEF CaseAcked, Lost, clientVars, Known, VerdictInv, ClientTypes
  <1>2. Len(acks) = 1 /\ Unread = 0 /\ acks' = <<>> /\ Head(acks) = "ok"
    <2>1. Len(acks) + Unread = 1 /\ Unread \in {0, 1} /\ Len(acks) \in Nat \ {0}
      BY <1>1 DEF Known, VerdictInv, FlowInv
    <2>2. Len(acks) = 1 /\ Unread = 0
      BY <2>1
    <2> QED
      BY <1>1, <2>2
  <1>3. phase' = "reading"
    BY <1>2 DEF CaseAcked
  <1>4. /\ Serving /\ Serving' /\ (Replaying' <=> Replaying) /\ (Ordinary' <=> Ordinary)
        /\ (Told' <=> Told) /\ (Heard' <=> Heard) /\ Unread' = 0 /\ Busy' = Busy
    BY <1>1, <1>2, <1>3 DEF Serving, Replaying, Ordinary, Told, Heard, Unread, Busy
  <1>5. ClientTypes' /\ FlowInv' /\ OrdinaryInv'
    BY <1>1, <1>2, <1>3, <1>4 DEF Known, VerdictInv, ClientTypes, FlowInv, OrdinaryInv
  <1>6. SyncInv'
    <2> SUFFICES ASSUME up, Ordinary
                 PROVE  Level' /\ Testing' /\ Waiting' /\ Idle' /\ Fresh' /\ Truth'
      BY <1>1, <1>4 DEF SyncInv
    <2>1. Level /\ Testing /\ Waiting /\ Idle /\ Fresh /\ Truth
      BY DEF Known, VerdictInv, SyncInv
    <2>2. Level' /\ Testing' /\ Waiting'
      BY <1>1, <1>2, <1>4, <2>1 DEF Level, Testing, Waiting
    <2>3. Idle' /\ Fresh' /\ (Pending' <=> Pending)
      BY <1>1, <1>4, <2>1 DEF Idle, Fresh, Pending
    <2>4. Truth'
      BY <1>1, <1>3, <1>4, <2>1, <2>3 DEF Truth
    <2> QED
      BY <2>2, <2>3, <2>4
  <1>7. LaterInv'
    <2> SUFFICES ASSUME Told PROVE ResultTrue' /\ (left <= result.n)' /\ Heard' /\ Expected'
      BY <1>4 DEF LaterInv
    <2>1. ResultTrue /\ left <= result.n /\ Heard /\ Expected
      BY <1>1 DEF Known, VerdictInv, LaterInv, Untold
    <2> QED
      BY <1>1, <1>2, <1>4, <2>1 DEF ResultTrue, Expected
  <1> QED
    BY <1>5, <1>6, <1>7 DEF VerdictInv

LEMMA SendDoneKeepsVerdict ==
  ASSUME Known, SendDone
  PROVE  VerdictInv'
  <1>1. /\ up /\ UNCHANGED <<kind, up, client, seen, doing, asked, got, due, failed>>
        /\ UNCHANGED <<case, final, status, flaky, found, result, acks, inbox, outbox>>
        /\ phase = "report" /\ phase' = "reporting"
        /\ left' = IF kind = "single" THEN 0 ELSE result.n
        /\ events' = Append(events, TestDone(result.n))
    BY DEF SendDone, clientVars
  <1>2. Ordinary /\ ~Serving /\ ~Serving' /\ ~Ordinary' /\ ~Told
    BY <1>1 DEF Ordinary, Serving, Known, VerdictInv, OrdinaryInv
  <1>3. acks = <<>> /\ Unread = 0 /\ result.n \in Nat
    BY <1>1, RunAssumption DEF Known, VerdictInv, FlowInv, RunInv, Types
  <1>4. Unread' = 1 /\ ~Heard /\ ~Heard' /\ events'[Len(events')].event = "test_done"
    <2>1. TestDone(result.n) \in Event /\ TestDone(result.n).event = "test_done"
      BY DEF Known, RunInv, Types, TestDone, Event
    <2>2. ~Heard
      BY <1>2 DEF Told, Heard
    <2> QED
      BY <1>1, <1>3, <2>1, <2>2, EventSent
  <1>5. ClientTypes'
    BY <1>1 DEF Known, VerdictInv, ClientTypes
  <1>6. FlowInv'
    BY <1>1, <1>3, <1>4 DEF Known, VerdictInv, FlowInv
  <1>7. OrdinaryInv' /\ SyncInv'
    BY <1>1, <1>2 DEF Known, VerdictInv, OrdinaryInv, SyncInv
  <1>8. LaterInv'
    <2>1. Testing /\ Waiting /\ Truth
      BY <1>1, <1>2 DEF Known, VerdictInv, SyncInv
    <2>2. ResultTrue' /\ left' <= result'.n
      BY <1>1, <1>3, <2>1 DEF Truth, ResultTrue
    <2>3. client # "testing"
      BY <1>2, <2>1 DEF Testing
    <2>4. LastReply
      <3> SUFFICES ASSUME client = "waiting"
                   PROVE  /\ doing \in Cases /\ got + 1 \in 1..Len(outbox[doing])
                          /\ outbox[doing][got + 1] \in Ending
        BY DEF LastReply
      <3>1. /\ doing \in Cases /\ Len(outbox[doing]) = got + 1 /\ outbox[doing][got + 1] \in Ending
        BY <1>2, <2>1 DEF Waiting
      <3>2. got \in Nat
        BY DEF Known, VerdictInv, ClientTypes
      <3> QED
        BY <3>1, <3>2
    <2>5. Untold'
      BY <1>1, <1>4, <2>3, <2>4 DEF Untold, LastReply
    <2> QED
      BY <1>4, <2>2, <2>5 DEF LaterInv
  <1> QED
    BY <1>5, <1>6, <1>7, <1>8 DEF VerdictInv

LEMMA LaterKeeps ==
  ASSUME Known, DoneAcked \/ Finish
  PROVE  VerdictInv'
  <1>1. /\ UNCHANGED <<kind, up, client, seen, doing, asked, got, due, failed>>
        /\ UNCHANGED <<flaky, found, result, left, events, inbox, outbox>>
        /\ phase \in {"reporting", "replay"} /\ acks \in Seq({"ok"})
    BY DEF DoneAcked, Finish, Lost, wireVars, clientVars, Known, VerdictInv, ClientTypes
  <1>2. phase' \in {"replay", "done"} /\ acks' = <<>> /\ Unread = 0
    <2>1. CASE DoneAcked
      <3>1. Len(acks) + Unread = 1 /\ Unread \in {0, 1} /\ Len(acks) \in Nat \ {0}
        BY <1>1, <2>1 DEF DoneAcked, Known, VerdictInv, FlowInv
      <3>2. Len(acks) = 1 /\ Unread = 0
        <4>1. CASE Unread = 0
          BY <3>1, <4>1
        <4>2. CASE Unread = 1
          BY <3>1, <4>2
        <4> QED
          BY <3>1, <4>1, <4>2
      <3>3. Head(acks) = "ok" /\ acks' = <<>>
        BY <1>1, <2>1, <3>2 DEF DoneAcked
      <3> QED
        BY <2>1, <3>2, <3>3 DEF DoneAcked
    <2>2. CASE Finish
      BY <2>2 DEF Finish, wireVars, Known, VerdictInv, FlowInv
    <2> QED
      BY <2>1, <2>2
  <1>3. /\ ~Serving' /\ ~Ordinary' /\ (Told' <=> Told) /\ (Heard' <=> Heard)
        /\ Unread' = 0 /\ Busy' = Busy
    BY <1>1, <1>2 DEF Serving, Ordinary, Told, Heard, Unread, Busy
  <1>4. ClientTypes' /\ FlowInv'
    BY <1>1, <1>2, <1>3 DEF Known, VerdictInv, ClientTypes, FlowInv
  <1>5. OrdinaryInv' /\ SyncInv'
    BY <1>1, <1>2, <1>3 DEF Known, VerdictInv, OrdinaryInv, SyncInv
  <1>6. LaterInv'
    <2> SUFFICES ASSUME Told PROVE ResultTrue' /\ (left <= result.n)' /\ Heard' /\ Expected'
      BY <1>3 DEF LaterInv
    <2>1. ResultTrue /\ left <= result.n /\ Heard /\ Expected
      BY <1>2 DEF Known, VerdictInv, LaterInv, Untold
    <2> QED
      BY <1>1, <1>2, <1>3, <2>1 DEF ResultTrue, Expected
  <1> QED
    BY <1>4, <1>5, <1>6 DEF VerdictInv

\* What an answer makes of a test case without a status so far: one that does not end it
\* is to a command and changes nothing, one that ends it is a last reply, has the status of
\* a mark_complete it answers, and is flaky only where the engine can tell.
LEMMA AnswersTell ==
  ASSUME NEW m, NEW a \in Answers(m), status = "VALID"
  PROVE  /\ m \in Conclusions \cup {"bad"} =>
              a.ends /\ (a.status = "INTERESTING" <=> m = "INTERESTING")
         /\ m \in Asks =>
              /\ a.status # "INTERESTING" /\ (a.ends => a.reply \in Ending)
              /\ ~a.ends => a.status = "VALID" /\ ~a.flaky
         /\ Replaying \/ kind # "run_test" => ~a.flaky
  <1>1. CASE m = "bad"
    BY <1>1 DEF Answers, Answer, Asks
  <1>2. CASE m \in Conclusions
    <2>1. \/ a = Stops(m)
          \/ a = Answer("Flaky", TRUE, m, TRUE) /\ kind = "run_test" /\ ~final
      BY <1>2 DEF Answers, Flakes, Conclusions
    <2> QED
      BY <1>2, <2>1 DEF Stops, Answer, Conclusions, Asks, Replaying
  <1>3. CASE m \notin Conclusions \cup {"bad"}
    <2>1. \/ \E r \in {"Value", "Error"} : a = Answer(r, FALSE, status, FALSE)
          \/ a = Stops("INVALID") \/ a = Stops("OVERRUN")
          \/ a = Answer("Flaky", TRUE, status, TRUE) /\ kind = "run_test" /\ ~final
      BY <1>3 DEF Answers, Flakes
    <2> QED
      BY <1>3, <2>1 DEF Stops, Answer, Replaying, Ending
  <1> QED
    BY <1>1, <1>2, <1>3

\* A test case that counts and that the worker reads a packet of: a command the client
\* waits with, or the conclusion it wrote before it went on.
LEMMA ReadsOrdinary ==
  ASSUME Known, up, phase = "reading", ~Replaying, inbox[case] # <<>>
  PROVE  /\ doing = case /\ case \in Cases /\ due = 0 /\ Unread = 0 /\ client # "testing"
         /\ status = "VALID"
         /\ (failed => found > 0 \/ flaky \/ Pending) /\ (found > 0 \/ Pending => failed)
         /\ \/ /\ client = "waiting" /\ ~Pending /\ Len(outbox[case]) = got
               /\ \E m \in Asks : inbox[case] = <<m>>
            \/ /\ client # "waiting"
               /\ \E c \in Conclusions \cup {"bad"} :
                    inbox[case] = <<c, "close">> /\ (Pending <=> c = "INTERESTING")
  <1>1. Serving /\ Ordinary /\ case \in Cases /\ Unread = 0 /\ case \in Nat
    BY DEF Serving, Ordinary, Known, VerdictInv, OrdinaryInv, FlowInv, RunInv, Types
  <1>2. Level /\ Testing /\ Waiting /\ Idle /\ Truth
    BY <1>1 DEF Known, VerdictInv, SyncInv
  <1>3. doing = case /\ due = 0
    BY <1>1, <1>2 DEF Level
  <1>4. client # "testing" /\ status = "VALID"
    BY <1>1, <1>2 DEF Testing, Truth
  <1>5. (failed => found > 0 \/ flaky \/ Pending) /\ (found > 0 \/ Pending => failed)
    BY <1>1, <1>2 DEF Truth
  <1>6. ASSUME client = "waiting"
        PROVE  ~Pending /\ Len(outbox[case]) = got /\ \E m \in Asks : inbox[case] = <<m>>
    <2>1. PICK m \in Asks : inbox[case] = <<m>> /\ Len(outbox[case]) = got
      BY <1>1, <1>2, <1>3, <1>6 DEF Waiting
    <2>2. <<m>> # <<"INTERESTING", "close">>
      OBVIOUS
    <2> QED
      BY <2>1, <2>2 DEF Pending
  <1>7. ASSUME client # "waiting"
        PROVE  \E c \in Conclusions \cup {"bad"} :
                 inbox[case] = <<c, "close">> /\ (Pending <=> c = "INTERESTING")
    <2>1. PICK c \in Conclusions \cup {"bad"} : inbox[case] = <<c, "close">>
      BY <1>1, <1>2, <1>4, <1>7 DEF Idle
    <2>2. <<c, "close">> = <<"INTERESTING", "close">> <=> c = "INTERESTING"
      OBVIOUS
    <2> QED
      BY <1>1, <2>1, <2>2 DEF Pending
  <1> QED
    BY <1>1, <1>3, <1>4, <1>5, <1>6, <1>7

LEMMA HandleReads ==
  ASSUME Known, Handle
  PROVE  /\ phase = "reading" /\ inbox[case] # <<>> /\ ClientTypes'
         /\ inbox' = [inbox EXCEPT ![case] = Tail(@)]
         /\ UNCHANGED <<kind, up, client, seen, doing, asked, got, due, failed>>
         /\ UNCHANGED <<case, final, left, events, acks>>
  <1>1. /\ phase = "reading" /\ inbox[case] # <<>>
        /\ inbox' = [inbox EXCEPT ![case] = Tail(@)]
        /\ UNCHANGED <<kind, up, client, seen, doing, asked, got, due, failed>>
        /\ UNCHANGED <<case, final, left, events, acks>>
    BY DEF Handle, Lost, clientVars
  <1>2. inbox' \in [Cases -> Seq(Messages)]
    <2>1. inbox \in [Cases -> Seq(Messages)]
      BY DEF Known, VerdictInv, ClientTypes
    <2>2. case \in Cases => Tail(inbox[case]) \in Seq(Messages)
      BY <1>1, <2>1
    <2> QED
      BY <1>1, <2>1, <2>2
  <1>3. ClientTypes'
    BY <1>1, <1>2 DEF Known, VerdictInv, ClientTypes
  <1> QED
    BY <1>1, <1>3

\* An answer in a replay leaves the verdict as it was told.
LEMMA HandleReplay ==
  ASSUME Known, Handle, Replaying, phase' # "lost", UNCHANGED <<found, result>>, flaky' <=> flaky,
         phase' \in {"reading", "replay"}
  PROVE  VerdictInv'
  <1>1. /\ phase = "reading" /\ ClientTypes'
        /\ UNCHANGED <<kind, up, client, seen, doing, asked, got, due, failed>>
        /\ UNCHANGED <<case, final, left, events, acks>>
    BY HandleReads
  <1>2. acks = <<>> /\ Unread = 0
    BY <1>1 DEF Known, VerdictInv, FlowInv
  <1>3. /\ Replaying' /\ ~Ordinary' /\ (Told' <=> Told) /\ (Heard' <=> Heard)
        /\ Unread' = 0 /\ Busy' = Busy
    BY <1>1, <1>2 DEF Replaying, Serving, Ordinary, Told, Heard, Unread, Busy
  <1>4. FlowInv'
    BY <1>1, <1>2, <1>3 DEF Known, VerdictInv, FlowInv
  <1>5. OrdinaryInv' /\ SyncInv'
    BY <1>1, <1>3 DEF Known, VerdictInv, OrdinaryInv, SyncInv
  <1>6. LaterInv'
    <2> SUFFICES ASSUME Told PROVE ResultTrue' /\ (left <= result.n)' /\ Heard' /\ Expected'
      BY <1>3 DEF LaterInv
    <2>1. ResultTrue /\ left <= result.n /\ Heard /\ Expected
      BY <1>1 DEF Known, VerdictInv, LaterInv, Untold
    <2> QED
      BY <1>1, <1>2, <1>3, <2>1 DEF ResultTrue, Expected
  <1> QED
    BY <1>1, <1>4, <1>5, <1>6 DEF VerdictInv

\* An answer in a test case that counts.
LEMMA HandleOrdinary ==
  ASSUME Known, Handle, up, ~Replaying, NEW a \in Answers(Head(inbox[case])),
         outbox' = [outbox EXCEPT ![case] = Append(@, a.reply)],
         status' = a.status, flaky' = (flaky \/ a.flaky),
         IF a.ends THEN CaseOver(a.status) ELSE UNCHANGED <<phase, result, found>>
  PROVE  VerdictInv'
  <1> DEFINE m == Head(inbox[case])
             shown == a.ends /\ a.status = "INTERESTING"
  <1>1. /\ phase = "reading" /\ inbox[case] # <<>> /\ ClientTypes'
        /\ inbox' = [inbox EXCEPT ![case] = Tail(@)]
        /\ UNCHANGED <<kind, up, client, seen, doing, asked, got, due, failed>>
        /\ UNCHANGED <<case, final, left, events, acks>>
    BY HandleReads
  <1>2. /\ doing = case /\ case \in Cases /\ due = 0 /\ Unread = 0 /\ client # "testing"
        /\ status = "VALID" /\ acks = <<>>
        /\ (failed => found > 0 \/ flaky \/ Pending) /\ (found > 0 \/ Pending => failed)
    BY <1>1, ReadsOrdinary DEF Known, VerdictInv, FlowInv
  <1>3. /\ Serving /\ Ordinary /\ ~Told /\ ~Told' /\ ~Replaying' /\ Unread' = 0
        /\ (Replaying' <=> Replaying)
    BY <1>1, <1>2 DEF Serving, Ordinary, Replaying, Told, Unread, Known, VerdictInv, OrdinaryInv
  <1>4. /\ outbox'[case] = Append(outbox[case], a.reply) /\ outbox[case] \in Seq(Replies)
        /\ inbox'[case] = Tail(inbox[case])
        /\ \A c \in Cases \ {case} : inbox'[c] = inbox[c] /\ outbox'[c] = outbox[c]
    BY <1>1, <1>2 DEF Known, VerdictInv, ClientTypes, StopInv
  <1>5. kind # "run_test" => ~a.flaky /\ found = 0 /\ ~flaky /\ ~flaky'
    <2>1. kind # "run_test" => ~a.flaky
      BY <1>2, AnswersTell
    <2> QED
      BY <2>1 DEF Known, VerdictInv, OrdinaryInv
  <1>6. \/ ~a.ends /\ phase' = "reading" /\ UNCHANGED <<result, found>>
        \/ /\ a.ends /\ kind = "run_test" /\ phase' = "engine" /\ UNCHANGED result
           /\ found' = IF shown THEN found + 1 ELSE found
        \/ /\ a.ends /\ kind # "run_test" /\ phase' = "report" /\ UNCHANGED found
           /\ result'.error = "none" /\ (result'.passed <=> ~shown)
    <2>1. CASE ~a.ends
      BY <1>1, <2>1
    <2>2. CASE a.ends
      <3>1. CaseOver(a.status)
        BY <2>2
      <3>2. \/ /\ kind = "run_test" /\ phase' = "engine" /\ UNCHANGED result
               /\ found' = IF a.status = "INTERESTING" THEN found + 1 ELSE found
            \/ /\ kind # "run_test" /\ phase' = "report" /\ UNCHANGED found
               /\ result'.error = "none" /\ result'.passed = (a.status # "INTERESTING")
        BY <3>1 DEF CaseOver, Result
      <3> QED
        BY <2>2, <3>2, Zenon
    <2> QED
      BY <2>1, <2>2
  <1>7. /\ Pending <=> shown
        /\ client = "waiting" => Len(outbox[case]) = got /\ (a.ends => a.reply \in Ending)
        /\ ~a.ends => client = "waiting" /\ inbox'[case] = <<>> /\ a.status = "VALID" /\ ~a.flaky
    <2>1. CASE /\ client = "waiting" /\ ~Pending /\ Len(outbox[case]) = got
               /\ \E k \in Asks : inbox[case] = <<k>>
      <3>1. PICK k \in Asks : inbox[case] = <<k>>
        BY <2>1
      <3>2. m = k /\ Tail(inbox[case]) = <<>>
        BY <3>1
      <3>3. a.status # "INTERESTING" /\ (a.ends => a.reply \in Ending)
            /\ (~a.ends => a.status = "VALID" /\ ~a.flaky)
        BY <1>2, <3>2, AnswersTell
      <3> QED
        BY <1>4, <2>1, <3>2, <3>3
    <2>2. CASE /\ client # "waiting"
               /\ \E c \in Conclusions \cup {"bad"} :
                    inbox[case] = <<c, "close">> /\ (Pending <=> c = "INTERESTING")
      <3>1. PICK c \in Conclusions \cup {"bad"} :
              inbox[case] = <<c, "close">> /\ (Pending <=> c = "INTERESTING")
        BY <2>2
      <3>2. m = c
        BY <3>1
      <3>3. a.ends /\ (a.status = "INTERESTING" <=> c = "INTERESTING")
        BY <1>2, <3>2, AnswersTell
      <3> QED
        BY <2>2, <3>1, <3>3
    <2> QED
      BY <1>1, <2>1, <2>2, ReadsOrdinary
  <1>8. FlowInv'
    BY <1>1, <1>2, <1>3, <1>6 DEF Known, VerdictInv, FlowInv
  <1>9. OrdinaryInv'
    BY <1>1, <1>2, <1>3, <1>5, <1>6 DEF OrdinaryInv
  <1>10. Level' /\ Testing' /\ Fresh'
    <2>1. Level /\ Fresh
      BY <1>3 DEF Known, VerdictInv, SyncInv
    <2>2. \A c \in Cases : c > doing => c # case
      BY <1>2 DEF Cases
    <2> QED
      BY <1>1, <1>2, <1>3, <1>4, <2>1, <2>2 DEF Level, Testing, Fresh
  <1>11. Waiting'
    <2> SUFFICES ASSUME client = "waiting" PROVE Waiting'
      BY <1>1 DEF Waiting
    <2>1. asked = got + 1 /\ got \in Nat /\ Len(outbox[case]) = got
      BY <1>3, <1>7 DEF Known, VerdictInv, SyncInv, Waiting, ClientTypes
    <2>2. Len(outbox'[case]) = got + 1 /\ outbox'[case][got + 1] = a.reply
      BY <1>4, <2>1
    <2>3. CASE a.ends
      <3>1. phase' \in {"engine", "report"} /\ a.reply \in Ending
        BY <1>6, <1>7, <2>3
      <3>2. ~Serving'
        BY <3>1 DEF Serving
      <3> QED
        BY <1>1, <1>2, <2>1, <2>2, <3>1, <3>2 DEF Waiting
    <2>4. CASE ~a.ends
      <3>1. phase' = "reading" /\ inbox'[case] = <<>>
        BY <1>6, <1>7, <2>4
      <3>2. Serving'
        BY <3>1 DEF Serving
      <3> QED
        BY <1>1, <1>2, <2>1, <2>2, <3>1, <3>2 DEF Waiting
    <2> QED
      BY <2>3, <2>4
  <1>12. Idle' /\ ~Pending'
    <2>1. CASE a.ends
      <3>1. ~Serving'
        BY <1>6, <2>1 DEF Serving
      <3> QED
        BY <3>1 DEF Idle, Pending
    <2>2. CASE ~a.ends
      <3>1. client' = "waiting" /\ inbox'[case'] = <<>>
        BY <1>1, <1>7, <2>2
      <3>2. <<>> # <<"INTERESTING", "close">>
        OBVIOUS
      <3> QED
        BY <3>1, <3>2 DEF Idle, Pending
    <2> QED
      BY <2>1, <2>2
  <1>13. Truth'
    <2>1. CASE ~a.ends
      <3>1. /\ phase' = "reading" /\ found' = found /\ status' = "VALID"
            /\ ~Pending /\ (flaky' <=> flaky)
        BY <1>6, <1>7, <2>1
      <3> QED
        BY <1>1, <1>2, <1>12, <3>1 DEF Truth
    <2>2. CASE a.ends /\ kind = "run_test"
      <3>1. phase' = "engine" /\ found' = IF shown THEN found + 1 ELSE found
        BY <1>6, <2>2
      <3>2. ~Serving' /\ found \in Nat /\ (flaky => flaky')
        BY <3>1 DEF Serving, Known, RunInv, Types
      <3>3. found' > 0 <=> found > 0 \/ shown
        BY <3>1, <3>2
      <3> QED
        BY <1>1, <1>2, <1>7, <1>12, <3>1, <3>2, <3>3 DEF Truth
    <2>3. CASE a.ends /\ kind # "run_test"
      <3>1. /\ phase' = "report" /\ found' = found
            /\ result'.error = "none" /\ (result'.passed <=> ~shown)
        BY <1>6, <2>3
      <3>2. found = 0 /\ ~flaky /\ ~flaky' /\ (failed <=> shown)
        BY <1>2, <1>5, <1>7, <2>3
      <3>3. ResultTrue'
        BY <1>1, <3>1, <3>2 DEF ResultTrue
      <3>4. ~Serving' /\ ~(found' > 0)
        BY <3>1, <3>2 DEF Serving
      <3> QED
        BY <1>12, <3>1, <3>3, <3>4 DEF Truth
    <2> QED
      BY <2>1, <2>2, <2>3
  <1> QED
    BY <1>1, <1>3, <1>8, <1>9, <1>10, <1>11, <1>12, <1>13 DEF VerdictInv, SyncInv, LaterInv

LEMMA HandleKeeps ==
  ASSUME Known, Handle
  PROVE  VerdictInv'
  <1>1. CASE Lost /\ UNCHANGED outbox
    BY <1>1, HandleReads, LostKeeps DEF Lost, ClientTypes
  <1>2. CASE up /\ \E a \in Answers(Head(inbox[case])) :
               /\ outbox' = [outbox EXCEPT ![case] = Append(@, a.reply)]
               /\ status' = a.status /\ flaky' = (flaky \/ a.flaky)
               /\ IF a.ends THEN CaseOver(a.status) ELSE UNCHANGED <<phase, result, found>>
    <2>1. PICK a \in Answers(Head(inbox[case])) :
               /\ outbox' = [outbox EXCEPT ![case] = Append(@, a.reply)]
               /\ status' = a.status /\ flaky' = (flaky \/ a.flaky)
               /\ IF a.ends THEN CaseOver(a.status) ELSE UNCHANGED <<phase, result, found>>
      BY <1>2
    <2>2. CASE ~Replaying
      BY <1>2, <2>1, <2>2, HandleOrdinary
    <2>3. CASE Replaying
      <3>1. ~a.flaky
        BY <2>3 DEF Answers, Answer, Stops, Flakes, Replaying
      <3>2. phase = "reading"
        BY DEF Handle
      <3>3. phase' \in {"reading", "replay"} /\ UNCHANGED <<found, result>>
        BY <2>1, <2>3, <3>2 DEF CaseOver
      <3> QED
        BY <2>1, <2>3, <3>1, <3>3, HandleReplay
    <2> QED
      BY <2>2, <2>3
  <1> QED
    BY <1>1, <1>2 DEF Handle

LEMMA VerdictStep == Patient /\ Known /\ [Next]_vars /\ ~Refuse => VerdictInv'
  <1> SUFFICES ASSUME Patient, Known, [Next]_vars, ~Refuse PROVE VerdictInv'
    OBVIOUS
  <1>1. CASE ClientSide
    BY <1>1, ClientKeepsVerdict
  <1>2. CASE WorkerLoses
    BY <1>2, LosesKeepsVerdict
  <1>3. CASE SendCase
    <2>1. phase = "open" \/ phase = "replay"
      BY <1>3 DEF SendCase
    <2> QED
      BY <1>3, <2>1, OpensKeeps, ReplaysKeep
  <1> QED
    BY <1>1, <1>2, <1>3, SetsUpKeepsVerdict, ReportsKeepsVerdict, CaseAckedKeeps,
       SendDoneKeepsVerdict, LaterKeeps, HandleKeeps
    DEF Next, Worker, ClientSide, WorkerLoses

\* Once the client has refused an event it has nothing left to read, and the worker only
\* the refusal, which loses the run.
Refused ==
  /\ VerdictIsTrue
  /\ client \in {"awaiting", "gone"} /\ seen \in Nat /\ Unread = 0
  /\ phase = "lost" \/ (phase \in {"opening", "reporting"} /\ acks = <<"error">>)

LEMMA RefuseStops == Known /\ Refuse => Refused'
  <1> SUFFICES ASSUME Known, Refuse PROVE Refused'
    OBVIOUS
  <1>1. /\ client = "awaiting" /\ seen < Len(events) /\ seen' = seen + 1
        /\ acks' = Append(acks, "error")
        /\ UNCHANGED <<workerVars, events, client, failed>>
    BY DEF Refuse
  <1>2. UNCHANGED <<phase, result, flaky>>
    BY <1>1 DEF workerVars
  <1>3. VerdictIsTrue
    BY DEF Known, VerdictInv, LaterInv, Told, ResultTrue, VerdictIsTrue
  <1>4. VerdictIsTrue'
    BY <1>1, <1>2, <1>3 DEF VerdictIsTrue
  <1>5. /\ seen \in Nat /\ Len(events) \in Nat /\ acks \in Seq({"ok"}) /\ FlowInv
    BY DEF Known, VerdictInv, ClientTypes, RunInv, Types
  <1>6. Unread = 1
    BY <1>1, <1>5 DEF FlowInv, Unread
  <1>7. Unread' = 0 /\ seen' \in Nat
    BY <1>1, <1>5, <1>6 DEF Unread
  <1>8. phase = "lost" \/ (phase \in {"opening", "reporting"} /\ acks' = <<"error">>)
    <2> SUFFICES ASSUME phase # "lost"
                 PROVE  phase \in {"opening", "reporting"} /\ acks' = <<"error">>
      OBVIOUS
    <2>1. phase \in {"opening", "reporting"}
      BY <1>5, <1>6 DEF FlowInv
    <2>2. Len(acks) + 1 = 1 /\ Len(acks) \in Nat
      BY <1>5, <1>6, <2>1 DEF FlowInv
    <2>3. acks = <<>>
      BY <1>5, <2>2
    <2> QED
      BY <1>1, <2>1, <2>3
  <1> QED
    BY <1>1, <1>2, <1>4, <1>7, <1>8 DEF Refused

LEMMA StaysRefused == RunInv /\ Refused /\ [Next]_vars => Refused'
  <1> SUFFICES ASSUME RunInv, Refused, [Next]_vars PROVE Refused'
    OBVIOUS
  <1>1. /\ VerdictIsTrue /\ client \in {"awaiting", "gone"} /\ seen \in Nat /\ Unread = 0
        /\ phase = "lost" \/ (phase \in {"opening", "reporting"} /\ acks = <<"error">>)
    BY DEF Refused
  <1>2. ~(seen < Len(events))
    <2>1. Len(events) \in Nat
      BY DEF RunInv, Types
    <2> QED
      BY <1>1, <2>1 DEF Unread
  <1>3. CASE Worker
    <2>1. CaseAcked \/ DoneAcked
      <3>1. phase \notin {"setup", "engine", "open", "report", "replay", "reading"} /\ ~Reads
        BY <1>1 DEF Reads
      <3>2. ~SetUp /\ ~BadName /\ ~SetUpFails /\ ~EngineGoesOn /\ ~EngineReturns /\ ~EngineRaises
        BY <3>1 DEF SetUp, BadName, SetUpFails, EngineGoesOn, EngineReturns, EngineRaises
      <3>3. ~SendCase /\ ~Handle /\ ~SendDone /\ ~Finish /\ ~Timeout /\ ~ReadClosed /\ ~SendFails
        BY <3>1 DEF SendCase, Handle, SendDone, Finish, Timeout, ReadClosed, SendFails, Sends
      <3> QED
        BY <1>3, <3>2, <3>3 DEF Worker
    <2>2. acks = <<"error">>
      BY <1>1, <2>1 DEF CaseAcked, DoneAcked
    <2>3. Head(acks) = "error"
      BY <2>2
    <2>4. /\ phase' = "lost" /\ UNCHANGED <<result, flaky, events>>
          /\ UNCHANGED <<client, seen, failed>>
      BY <2>1, <2>3 DEF CaseAcked, DoneAcked, Lost, clientVars
    <2> QED
      BY <1>1, <2>4 DEF Refused, VerdictIsTrue, Unread
  <1>4. CASE ~Worker
    <2>1. ~Client /\ ~Refuse
      BY <1>1, <1>2 DEF Client, Receive, TakeReply, Ask, Complete, Refuse
    <2>2. Vanish \/ UNCHANGED vars
      BY <1>4, <2>1 DEF Next
    <2>3. /\ UNCHANGED <<phase, result, flaky, events, acks, seen, failed>>
          /\ client' \in {"awaiting", "gone"}
      BY <1>1, <2>2 DEF Vanish, vars, workerVars, wireVars, clientVars
    <2> QED
      BY <1>1, <2>3 DEF Refused, VerdictIsTrue, Unread
  <1> QED
    BY <1>3, <1>4

\* The verdict of test_done (server.py:388-395, 684-690, 697, 714-740): to a client that
\* waits for its replies, a failure it has reported is never passed over, a run that a
\* health check or a flaky test case spoilt is not passed, and one without an error key
\* fails only for a failure it reported; however slow the client is, whatever it concludes
\* test cases with, whichever events it refuses and wherever it goes away.
THEOREM VerdictStands ==
  ASSUME "pipeline" \notin Faults
  PROVE  Spec => []VerdictIsTrue
  <1> DEFINE Inv == VerdictInv \/ Refused
  <1>1. Patient
    BY DEF Patient
  <1>2. RunInv /\ StopInv /\ Inv /\ [Next]_vars => Inv'
    <2>1. ASSUME RunInv, StopInv, VerdictInv, [Next]_vars PROVE Inv'
      BY <1>1, <2>1, VerdictStep, RefuseStops DEF Known
    <2>2. ASSUME RunInv, Refused, [Next]_vars PROVE Inv'
      BY <2>2, StaysRefused
    <2> QED
      BY <2>1, <2>2
  <1>3. Inv => VerdictIsTrue
    BY DEF VerdictInv, LaterInv, Told, ResultTrue, Refused, VerdictIsTrue
  <1>4. Init => Inv
    BY InitVerdict
  <1> HIDE DEF Inv
  <1> QED
    BY <1>2, <1>3, <1>4, RunInvariant, StopInvariant, PTL DEF Spec

-----------------------------------------------------------------------------
(* With a client that answers everything, a run is hurt by nobody but a     *)
(* client that has raised and left.                                        *)

Cooperative == Faults \subseteq {"badname", "badcomplete"}

\* Where such a client is, in ordinary and in final test cases: in the one that the worker is
\* in, or one behind while it has not read the event of that one; out of it, with the
\* conclusion written; ...
InStep ==
  /\ doing = case - (IF phase = "opening" THEN Unread ELSE 0)
  /\ Serving => case > 0
Written ==
  Serving /\ client \notin {"testing", "waiting"} =>
    IF Unread = 1 THEN inbox[case] = <<>>
    ELSE \E c \in Conclusions \cup {"bad"} : inbox[case] = <<c, "close">>
\* ... and away, for good when it has raised, or because no test case is left for it.
Away ==
  /\ client = "left" =>
       \/ kind = "single" /\ failed
       \/ ~Ordinary /\ result.error = "flaky" /\ result.n > 0
       \/ phase \in {"reporting", "replay", "done"} /\ Unread = 0 /\ left = 0
  /\ client = "over" => ~Ordinary /\ Unread = 0 /\ left = 0
Telling ==
  /\ ~Ordinary => Told
  /\ phase = "opening" => Last("test_case")
  /\ phase = "reporting" => Last("test_done") /\ (Unread = 1 => due = 0)
  /\ result.error \in {"none", "flaky"} \/ result.n = 0

Together == InStep /\ Testing /\ Waiting /\ Fresh /\ Written /\ Away /\ Telling
CoopInv ==
  /\ up /\ client # "gone"
  /\ IF phase = "lost" THEN Deserted ELSE Together

Kept == Known /\ CountInv /\ StepInv /\ RestTypes /\ CoopInv

LEMMA InitCoop == Init => CoopInv
  <1> SUFFICES ASSUME Init PROVE CoopInv
    OBVIOUS
  <1>1. /\ phase = "setup" /\ case = 0 /\ client = "awaiting" /\ doing = 0 /\ up
        /\ result.n = 0
    BY DEF Init, NoResult, Result
  <1>2. ~Serving /\ Ordinary
    BY <1>1 DEF Serving, Ordinary
  <1>3. InStep
    BY <1>1, <1>2 DEF InStep
  <1>4. Testing /\ Waiting /\ Written /\ Away
    BY <1>1, <1>2, Zenon DEF Testing, Waiting, Written, Away
  <1>5. Fresh
    BY DEF Init, Fresh
  <1>6. Telling
    BY <1>1, <1>2 DEF Telling
  <1> QED
    BY <1>1, <1>3, <1>4, <1>5, <1>6, Zenon DEF CoopInv, Together

LEMMA Ground ==
  ASSUME Kept
  PROVE  /\ case \in Nat /\ doing \in Nat /\ got \in Nat /\ asked \in Nat /\ due \in Nat /\ seen \in Nat
         /\ left \in Nat /\ result.n \in Nat /\ MaxCases \in Nat /\ case <= 2 * MaxCases
         /\ events \in Seq(Event) /\ Len(events) \in Nat /\ acks \in Seq({"ok"})
         /\ inbox \in [Cases -> Seq(Messages)] /\ outbox \in [Cases -> Seq(Replies)]
         /\ Unread \in {0, 1} /\ up /\ client # "gone"
  BY RunAssumption DEF Kept, Known, RunInv, Types, StopInv, VerdictInv, ClientTypes, CountInv, StepInv,
     RestTypes, CoopInv

\* What the client still expects when it comes out of a test case, the last one it expects.
LEMMA LastExpected ==
  ASSUME Kept, phase # "lost", client \in {"testing", "waiting"}, due = 1
  PROVE  ~Ordinary /\ Unread = 0 /\ left = 0
  <1>1. Together /\ up /\ left \in Nat /\ Unread \in {0, 1}
    BY Ground DEF Kept, CoopInv
  <1>2. ~Ordinary
    <2>1. Ordinary => due = 0
      BY <1>1 DEF Kept, Known, VerdictInv, SyncInv, Level
    <2> QED
      BY <2>1
  <1>3. Told
    BY <1>1, <1>2 DEF Together, Telling
  <1>4. Heard
    <2> SUFFICES ASSUME ~Heard PROVE FALSE
      OBVIOUS
    <2>1. phase = "reporting" /\ Unread = 1
      BY <1>3 DEF Kept, Known, VerdictInv, LaterInv, Untold
    <2>2. due = 0
      BY <1>1, <2>1 DEF Together, Telling
    <2> QED
      BY <2>2
  <1>5. due >= left + Unread + 1
    BY <1>3, <1>4 DEF Kept, Known, VerdictInv, LaterInv, Expected, Busy
  <1>6. \A l \in Nat, u \in {0, 1} : 1 >= l + u + 1 => l = 0 /\ u = 0
    OBVIOUS
  <1> QED
    BY <1>1, <1>2, <1>5, <1>6

\* The worker and the client wait for each other only if the client is gone for good.
LEMMA NobodyWaits ==
  ASSUME Kept, phase # "lost", ServerWaits, ClientWaits
  PROVE  Deserted
  <1>1. /\ Together /\ Unread \in {0, 1} /\ seen \in Nat /\ Len(events) \in Nat /\ got \in Nat
        /\ case \in Nat
    BY Ground DEF Kept, CoopInv
  <1>2. CASE phase \in {"opening", "reporting"} /\ acks = <<>>
    <2>1. Unread = 1
      <3>1. Len(acks) = 0
        BY <1>2
      <3>2. Len(acks) + Unread = 1
        BY <1>2 DEF Kept, StepInv
      <3> QED
        BY <1>1, <3>1, <3>2
    <2>2. ~(client = "awaiting" /\ seen = Len(events))
      BY <1>1, <2>1 DEF Unread
    <2>3. client # "over"
      BY <1>1, <2>1 DEF Together, Away
    <2>4. ~(client = "waiting" /\ got = Len(outbox[doing]))
      <3> SUFFICES ASSUME client = "waiting", got = Len(outbox[doing]) PROVE FALSE
        OBVIOUS
      <3>1. got # got + 1
        BY <1>1
      <3>2. Serving /\ doing = case
        BY <1>1, <3>1 DEF Together, Waiting
      <3>3. doing = case - 1
        BY <1>1, <1>2, <2>1, <3>2 DEF Together, InStep, Serving
      <3> QED
        BY <1>1, <3>2, <3>3
    <2>5. client = "left"
      BY <2>2, <2>3, <2>4 DEF ClientWaits
    <2> QED
      BY <1>1, <2>1, <2>5 DEF Together, Away, Deserted
  <1>3. CASE phase = "reading" /\ inbox[case] = <<>>
    <2>1. Unread = 0 /\ Serving
      BY <1>3 DEF Kept, StepInv, Serving
    <2>2. client \in {"testing", "waiting"}
      <3> SUFFICES ASSUME client \notin {"testing", "waiting"} PROVE FALSE
        OBVIOUS
      <3>1. \E c \in Conclusions \cup {"bad"} : inbox[case] = <<c, "close">>
        BY <1>1, <2>1 DEF Together, Written
      <3> QED
        BY <1>3, <3>1
    <2>3. client = "waiting" /\ got = Len(outbox[doing])
      BY <2>2 DEF ClientWaits
    <2>4. doing = case
      BY <1>1, <1>3 DEF Together, InStep
    <2>5. \/ \E m \in Asks : inbox[case] = <<m>>
          \/ Len(outbox[case]) = got + 1
      BY <1>1, <2>1, <2>3, <2>4 DEF Together, Waiting
    <2>6. got # got + 1
      BY <1>1
    <2> QED
      BY <1>3, <2>3, <2>4, <2>5, <2>6
  <1> QED
    BY <1>2, <1>3 DEF ServerWaits, Reads

\* A run that is lost stays so.
LEMMA LostStays ==
  ASSUME Kept, phase = "lost", Cooperative, [Next]_vars
  PROVE  CoopInv'
  <1>1. Deserted /\ up /\ client = "left"
    BY DEF Kept, CoopInv, Deserted
  <1>2. ~Worker
    BY DEF Worker, SetUp, BadName, SetUpFails, EngineGoesOn, EngineReturns, EngineRaises, SendCase,
           CaseAcked, Handle, SendDone, DoneAcked, Finish, Timeout, ReadClosed, SendFails, Reads, Sends
  <1>3. ~Client /\ ~Refuse /\ ~Vanish
    BY <1>1 DEF Client, Receive, TakeReply, Ask, Complete, Refuse, Vanish, Cooperative
  <1>4. UNCHANGED vars
    BY <1>2, <1>3 DEF Next
  <1>5. UNCHANGED <<up, client, phase, kind, failed, result>>
    BY <1>4 DEF vars, workerVars, wireVars, clientVars
  <1> QED
    BY <1>1, <1>5 DEF CoopInv, Deserted

-----------------------------------------------------------------------------
(* The steps of the client.                                                *)

LEMMA ReceiveTogether ==
  ASSUME Kept, phase # "lost", Receive
  PROVE  Together'
  <1> DEFINE e == events[seen + 1].event
  <1>1. /\ Together /\ Unread = 1 /\ Unread' = 0 /\ seen + 1 = Len(events)
        /\ UNCHANGED workerVars /\ UNCHANGED <<events, inbox, outbox>>
    BY EventRead DEF Receive, Kept, Known, CoopInv
  <1>2. /\ UNCHANGED <<kind, phase, case, result, left>> /\ (Serving' <=> Serving)
        /\ (Ordinary' <=> Ordinary) /\ (Told' <=> Told)
        /\ \A x \in {"test_case", "test_done"} : Last(x)' <=> Last(x)
    BY <1>1 DEF workerVars, Serving, Ordinary, Replaying, Told, Last
  <1>3. phase \in {"opening", "reporting"}
    BY <1>1 DEF Kept, StepInv
  <1>4. /\ case \in Nat /\ doing \in Nat /\ left \in Nat /\ result.n \in Nat /\ MaxCases \in Nat
        /\ case <= 2 * MaxCases
    BY Ground
  <1>5. Telling'
    BY <1>1, <1>2 DEF Together, Telling
  <1>6. CASE phase = "opening"
    <2>1. e = "test_case"
      BY <1>1, <1>6 DEF Together, Telling, Last
    <2>2. client' = "testing" /\ doing' = doing + 1 /\ asked' = 0 /\ got' = 0
      BY <2>1 DEF Receive
    <2>3. doing = case - 1
      BY <1>1, <1>6 DEF Together, InStep
    <2>4. doing' = case /\ case \in Cases /\ case > doing
      BY <1>4, <2>2, <2>3 DEF Cases
    <2>5. inbox[case] = <<>> /\ outbox[case] = <<>>
      BY <1>1, <2>4 DEF Together, Fresh
    <2>6. InStep'
      BY <1>1, <1>2, <1>4, <1>6, <2>4 DEF InStep, Cases
    <2>7. Testing'
      BY <1>1, <1>2, <1>6, <2>2, <2>4, <2>5 DEF Testing, Serving
    <2>8. Waiting' /\ Written' /\ Away'
      BY <2>2 DEF Waiting, Written, Away
    <2>9. Fresh'
      <3>1. \A c \in Cases : c > doing' => c > doing
        BY <1>4, <2>2 DEF Cases
      <3> QED
        BY <1>1, <3>1 DEF Together, Fresh
    <2> QED
      BY <1>5, <2>6, <2>7, <2>8, <2>9 DEF Together
  <1>7. CASE phase = "reporting"
    <2>1. e = "test_done"
      BY <1>1, <1>7 DEF Together, Telling, Last
    <2>2. /\ client' \in {"left", "over", "awaiting"} /\ doing' = doing
          /\ client' = "left" => result.error # "none" \/ (kind = "single" /\ result.n > 0)
          /\ client' = "over" => result.n = 0
      BY <2>1 DEF Receive
    <2>3. ~Serving' /\ ~Ordinary' /\ ~Ordinary
      BY <1>2, <1>7 DEF Serving, Ordinary
    <2>4. InStep'
      BY <1>1, <1>2, <1>7, <2>2 DEF Together, InStep
    <2>5. Testing' /\ Waiting' /\ Written'
      BY <2>2, <2>3 DEF Testing, Waiting, Written
    <2>6. Fresh'
      BY <1>1, <2>2 DEF Together, Fresh
    <2>7. left <= result.n
      BY <1>1, <2>3 DEF Together, Telling, Kept, Known, VerdictInv, LaterInv
    <2>8. result.n = 0 => left = 0
      BY <1>4, <2>7
    <2>9. client' = "over" => left = 0
      BY <2>2, <2>8
    <2>10. client' = "left" => left = 0 \/ (result.error = "flaky" /\ result.n > 0)
      <3>1. kind = "single" => left = 0
        BY <1>7 DEF Kept, Known, RunInv, SingleInv
      <3>2. result.error # "none" => result.n = 0 \/ result.error = "flaky"
        BY <1>1 DEF Together, Telling
      <3>3. result.n = 0 \/ result.n > 0
        BY <1>4
      <3> QED
        BY <2>2, <2>8, <3>1, <3>2, <3>3
    <2>11. Away'
      BY <1>1, <1>2, <1>7, <2>3, <2>9, <2>10 DEF Away
    <2> QED
      BY <1>5, <2>4, <2>5, <2>6, <2>11 DEF Together
  <1> QED
    BY <1>3, <1>6, <1>7

LEMMA AskTogether ==
  ASSUME Kept, phase # "lost", Cooperative, NEW m \in Asks, Ask(m)
  PROVE  Together'
  <1>1. /\ client = "testing" /\ client' = "waiting" /\ asked' = asked + 1
        /\ inbox' = [inbox EXCEPT ![doing] = @ \o <<m>>]
        /\ UNCHANGED <<events, acks, outbox, seen, doing, got, due, failed>>
        /\ UNCHANGED workerVars
    BY DEF Ask, Write, Cooperative
  <1>2. /\ UNCHANGED <<kind, phase, case, result, left, Unread>> /\ (Serving' <=> Serving)
        /\ (Ordinary' <=> Ordinary) /\ (Told' <=> Told)
        /\ \A x \in {"test_case", "test_done"} : Last(x)' <=> Last(x)
    BY <1>1 DEF workerVars, Serving, Ordinary, Replaying, Told, Last, Unread
  <1>3. Together /\ doing \in Nat /\ case \in Nat /\ got \in Nat /\ inbox \in [Cases -> Seq(Messages)]
    BY Ground DEF Kept, CoopInv
  <1>4. Serving /\ doing = case /\ inbox[case] = <<>> /\ got = asked /\ Len(outbox[case]) = asked
    BY <1>1, <1>3 DEF Together, Testing
  <1>5. case \in Cases
    <2>1. case > 0
      BY <1>3, <1>4 DEF Together, InStep
    <2> QED
      BY <1>3, <2>1, Ground DEF Cases
  <1>6. inbox'[case] = <<m>>
    BY <1>1, <1>3, <1>4, <1>5
  <1>7. Waiting'
    BY <1>1, <1>2, <1>4, <1>5, <1>6 DEF Waiting
  <1>8. Fresh'
    <2>1. \A c \in Cases : c > doing => inbox'[c] = inbox[c]
      BY <1>1, <1>3 DEF Cases
    <2> QED
      BY <1>1, <1>3, <2>1 DEF Together, Fresh
  <1>9. Testing' /\ Written' /\ Away'
    BY <1>1 DEF Testing, Written, Away
  <1>10. InStep' /\ Telling'
    BY <1>1, <1>2, <1>3 DEF Together, InStep, Telling
  <1> QED
    BY <1>7, <1>8, <1>9, <1>10 DEF Together

LEMMA CompleteTogether ==
  ASSUME Kept, phase # "lost", NEW s \in Conclusions \cup {"bad"}, Complete(s)
  PROVE  Together'
  <1>1. /\ client = "testing"
        /\ client' = IF s = "INTERESTING" /\ kind = "single" THEN "left"
                     ELSE IF due = 1 THEN "over" ELSE "awaiting"
        /\ inbox' = [inbox EXCEPT ![doing] = @ \o <<s, "close">>]
        /\ failed' = (failed \/ (s = "INTERESTING" /\ due = 0))
        /\ due' = IF due > 0 THEN due - 1 ELSE 0
        /\ UNCHANGED <<events, acks, outbox, seen, doing, asked, got>>
        /\ UNCHANGED workerVars
    BY DEF Complete, Write, Leave
  <1>2. /\ UNCHANGED <<kind, phase, case, result, left, Unread>> /\ (Serving' <=> Serving)
        /\ (Ordinary' <=> Ordinary) /\ (Told' <=> Told)
        /\ \A x \in {"test_case", "test_done"} : Last(x)' <=> Last(x)
    BY <1>1 DEF workerVars, Serving, Ordinary, Replaying, Told, Last, Unread
  <1>3. /\ Together /\ up /\ doing \in Nat /\ case \in Nat /\ Unread \in {0, 1}
        /\ inbox \in [Cases -> Seq(Messages)] /\ MaxCases \in Nat /\ case <= 2 * MaxCases
    BY Ground DEF Kept, CoopInv
  <1>4. Serving /\ doing = case /\ inbox[case] = <<>>
    BY <1>1, <1>3 DEF Together, Testing
  <1>5. case \in Cases
    BY <1>3, <1>4 DEF Together, InStep, Cases
  <1>6. Unread = 0 /\ phase # "reporting"
    <2>1. phase = "opening" => Unread = 0
      BY <1>3, <1>4 DEF Together, InStep
    <2>2. phase = "reading" => Unread = 0
      BY DEF Kept, StepInv
    <2> QED
      BY <1>4, <2>1, <2>2 DEF Serving
  <1>7. inbox'[case] = <<s, "close">>
    BY <1>1, <1>3, <1>4, <1>5
  <1>8. Testing' /\ Waiting'
    BY <1>1 DEF Testing, Waiting
  <1>9. Written'
    BY <1>2, <1>6, <1>7 DEF Written
  <1>10. Fresh'
    <2>1. \A c \in Cases : c > doing => inbox'[c] = inbox[c]
      BY <1>1, <1>3 DEF Cases
    <2> QED
      BY <1>1, <1>3, <2>1 DEF Together, Fresh
  <1>11. InStep'
    BY <1>1, <1>2, <1>3 DEF Together, InStep
  <1>12. Telling'
    BY <1>1, <1>2, <1>3, <1>6 DEF Together, Telling
  <1>13. Away'
    <2>1. ASSUME client' = "left" PROVE kind = "single" /\ failed'
      <3>1. s = "INTERESTING" /\ kind = "single"
        BY <1>1, <2>1
      <3>2. Ordinary
        BY <1>4, <3>1 DEF Ordinary, Replaying
      <3>3. due = 0
        BY <1>3, <3>2 DEF Kept, Known, VerdictInv, SyncInv, Level
      <3> QED
        BY <1>1, <3>1, <3>3
    <2>2. ASSUME client' = "over" PROVE ~Ordinary /\ Unread = 0 /\ left = 0
      <3>1. due = 1
        BY <1>1, <2>2
      <3> QED
        BY <1>1, <3>1, LastExpected
    <2> QED
      BY <1>2, <2>1, <2>2, Zenon DEF Away
  <1> QED
    BY <1>8, <1>9, <1>10, <1>11, <1>12, <1>13 DEF Together

LEMMA TakeReplyTogether ==
  ASSUME Kept, phase # "lost", TakeReply
  PROVE  Together'
  <1>1. /\ client = "waiting" /\ got < Len(outbox[doing]) /\ got' = got + 1
        /\ UNCHANGED <<events, acks, outbox, seen, doing, asked, failed>>
        /\ UNCHANGED workerVars
    BY DEF TakeReply
  <1>2. /\ UNCHANGED <<kind, phase, case, result, left, Unread>> /\ (Serving' <=> Serving)
        /\ (Ordinary' <=> Ordinary) /\ (Told' <=> Told)
        /\ \A x \in {"test_case", "test_done"} : Last(x)' <=> Last(x)
    BY <1>1 DEF workerVars, Serving, Ordinary, Replaying, Told, Last, Unread
  <1>3. /\ Together /\ up /\ doing \in Nat /\ case \in Nat /\ got \in Nat /\ Unread \in {0, 1}
        /\ due \in Nat
        /\ inbox \in [Cases -> Seq(Messages)] /\ MaxCases \in Nat /\ case <= 2 * MaxCases
    BY Ground DEF Kept, CoopInv
  <1>4. InStep'
    BY <1>1, <1>2, <1>3 DEF Together, InStep
  <1>5. asked = got + 1 /\ doing \in Cases
    BY <1>1, <1>3 DEF Together, Waiting
  <1>6. CASE Serving /\ doing = case
    <2>1. inbox[case] = <<>> /\ Len(outbox[case]) = got + 1
      <3>1. \/ \E m \in Asks : inbox[case] = <<m>> /\ Len(outbox[case]) = got
            \/ inbox[case] = <<>> /\ Len(outbox[case]) = got + 1
        BY <1>1, <1>3, <1>6 DEF Together, Waiting
      <3>2. Len(outbox[case]) # got
        BY <1>1, <1>3, <1>6
      <3> QED
        BY <3>1, <3>2
    <2>2. outbox[doing][got + 1] \notin Ending
      <3>1. got + 1 \in DOMAIN outbox[case]
        BY <1>3, <1>5, <1>6, <2>1, Ground
      <3> QED
        BY <1>5, <1>6, <3>1 DEF Kept, Known, StopInv, Serving
    <2>3. client' = "testing" /\ UNCHANGED <<due, inbox>>
      BY <1>5, <2>2 DEF TakeReply, Ending
    <2>4. Testing'
      BY <1>1, <1>2, <1>5, <1>6, <2>1, <2>3 DEF Testing
    <2>5. Waiting' /\ Written' /\ Away'
      BY <2>3 DEF Waiting, Written, Away
    <2>6. Fresh' /\ Telling'
      BY <1>1, <1>2, <1>3, <2>3 DEF Together, Fresh, Telling
    <2> QED
      BY <1>4, <2>4, <2>5, <2>6 DEF Together
  <1>7. CASE ~(Serving /\ doing = case)
    <2>1. outbox[doing][got + 1] \in Ending
      BY <1>1, <1>3, <1>7 DEF Together, Waiting
    <2>2. /\ client' = IF due = 1 THEN "over" ELSE "awaiting"
          /\ due' = IF due > 0 THEN due - 1 ELSE 0
          /\ inbox' = [inbox EXCEPT ![doing] = @ \o <<"close">>]
      BY <2>1 DEF TakeReply, Write, Leave, Ending
    <2>3. Testing' /\ Waiting'
      BY <2>2 DEF Testing, Waiting
    <2>4. Fresh'
      <3>1. \A c \in Cases : c > doing => inbox'[c] = inbox[c]
        BY <1>3, <2>2 DEF Cases
      <3> QED
        BY <1>1, <1>3, <3>1 DEF Together, Fresh
    <2>5. Written'
      <3> SUFFICES ASSUME Serving PROVE Unread = 1 /\ inbox'[case] = <<>>
        BY <1>2 DEF Written
      <3>1. doing # case
        BY <1>7
      <3>2. phase = "opening" /\ Unread = 1 /\ doing = case - 1
        BY <1>3, <3>1 DEF Together, InStep
      <3>3. case \in Cases /\ case > doing
        BY <1>3, <3>2 DEF Together, InStep, Cases
      <3>4. inbox[case] = <<>>
        BY <1>3, <3>3 DEF Together, Fresh
      <3> QED
        BY <1>3, <2>2, <3>1, <3>2, <3>3, <3>4
    <2>6. Away'
      <3>1. ASSUME client' = "over" PROVE ~Ordinary /\ Unread = 0 /\ left = 0
        <4>1. due = 1
          BY <2>2, <3>1
        <4> QED
          BY <1>1, <4>1, LastExpected
      <3>2. client' # "left"
        BY <2>2
      <3> QED
        BY <1>2, <3>1, <3>2, Zenon DEF Away
    <2>7. Telling'
      BY <1>1, <1>2, <1>3, <2>2 DEF Together, Telling
    <2> QED
      BY <1>4, <2>3, <2>4, <2>5, <2>6, <2>7 DEF Together
  <1> QED
    BY <1>6, <1>7

LEMMA ClientCoop ==
  ASSUME Kept, Cooperative, ClientSide
  PROVE  CoopInv'
  <1>1. CASE phase = "lost"
    <2>1. [Next]_vars
      BY DEF ClientSide, Next
    <2> QED
      BY <1>1, <2>1, LostStays
  <1>2. CASE phase # "lost" /\ Client
    <2>1. phase' # "lost"
      BY <1>2, ClientChanges DEF ClientSide, workerVars
    <2>2. up' /\ client' # "gone"
      BY <1>2 DEF Client, Receive, TakeReply, Ask, Complete, Leave, Kept, CoopInv
    <2>3. Together'
      <3>1. CASE Receive
        BY <1>2, <3>1, ReceiveTogether
      <3>2. CASE TakeReply
        BY <1>2, <3>2, TakeReplyTogether
      <3>3. ASSUME NEW m \in Asks, Ask(m) PROVE Together'
        BY <1>2, <3>3, AskTogether
      <3>4. ASSUME NEW s \in Conclusions \cup (IF "badcomplete" \in Faults THEN {"bad"} ELSE {}),
                   Complete(s)
            PROVE  Together'
        <4>1. s \in Conclusions \cup {"bad"}
          OBVIOUS
        <4> QED
          BY <1>2, <3>4, <4>1, CompleteTogether
      <3> QED
        BY <1>2, <3>1, <3>2, <3>3, <3>4 DEF Client
    <2> QED
      BY <2>1, <2>2, <2>3 DEF CoopInv
  <1>3. CASE UNCHANGED vars
    <2>1. /\ UNCHANGED <<kind, phase, case, final, result, left, up, events, inbox, outbox>>
          /\ UNCHANGED <<client, seen, doing, asked, got, due, failed>>
      BY <1>3 DEF vars, workerVars, wireVars, clientVars
    <2> QED
      BY <2>1 DEF Kept, CoopInv, Deserted, Together, InStep, Testing, Waiting, Fresh, Written, Away,
                  Telling, Serving, Ordinary, Replaying, Unread, Told, Last
  <1>4. ~Refuse /\ ~Vanish
    BY DEF Refuse, Vanish, Cooperative
  <1> QED
    BY <1>1, <1>2, <1>3, <1>4 DEF ClientSide

-----------------------------------------------------------------------------
(* The steps of the worker.                                                *)

LEMMA BetweenTogether ==
  ASSUME Kept, SetUp \/ EngineGoesOn \/ BadName \/ EngineReturns \/ EngineRaises
  PROVE  phase' # "lost" /\ Together'
  <1>1. /\ phase \in {"setup", "engine"} /\ phase' \in {"engine", "open", "report"}
        /\ UNCHANGED <<kind, case, final, left, events, outbox, inbox, acks>>
    BY DEF SetUp, EngineGoesOn, BadName, EngineReturns, EngineRaises, wireVars
  <1>2. UNCHANGED <<up, client, seen, doing, asked, got, due, failed>>
    BY WorkerFrame DEF Worker
  <1>3. result'.error \in {"none", "flaky"} \/ result'.n = 0
    <2>1. CASE SetUp \/ EngineGoesOn
      BY <1>1, <2>1 DEF Kept, CoopInv, Together, Telling, SetUp, EngineGoesOn
    <2>2. CASE BadName \/ EngineReturns \/ EngineRaises
      BY <2>2 DEF BadName, EngineReturns, EngineRaises, Result
    <2> QED
      BY <2>1, <2>2
  <1>4. /\ ~Serving /\ Ordinary /\ ~Serving' /\ Ordinary' /\ Unread' = Unread
        /\ (Told' <=> Told)
    BY <1>1, <1>2 DEF Serving, Ordinary, Unread, Told
  <1>5. Together
    BY <1>1 DEF Kept, CoopInv
  <1>6. InStep'
    BY <1>1, <1>2, <1>4, <1>5 DEF Together, InStep
  <1>7. Testing' /\ Written'
    BY <1>2, <1>4, <1>5 DEF Together, Testing, Written
  <1>8. Waiting'
    BY <1>1, <1>2, <1>4, <1>5 DEF Together, Waiting
  <1>9. Fresh'
    BY <1>1, <1>2, <1>5 DEF Together, Fresh
  <1>10. Away'
    BY <1>1, <1>2, <1>4, <1>5 DEF Together, Away
  <1>11. Telling'
    BY <1>1, <1>3, <1>4 DEF Telling
  <1> QED
    BY <1>1, <1>6, <1>7, <1>8, <1>9, <1>10, <1>11 DEF Together

LEMMA SendCaseTogether ==
  ASSUME Kept, SendCase
  PROVE  phase' # "lost" /\ Together'
  <1>1. /\ phase = "open" \/ (phase = "replay" /\ left > 0)
        /\ phase' = "opening" /\ case' = case + 1
        /\ final' = (phase = "replay" \/ kind = "single")
        /\ events' = Append(events, TestCase(phase = "replay" \/ kind = "single"))
        /\ UNCHANGED <<kind, result, acks, inbox, outbox>>
    BY DEF SendCase
  <1>2. UNCHANGED <<up, client, seen, doing, asked, got, due, failed>>
    BY WorkerFrame DEF Worker
  <1>3. /\ Together /\ doing \in Nat /\ case \in Nat /\ MaxCases \in Nat /\ seen \in Nat
        /\ events \in Seq(Event) /\ Len(events) \in Nat
    BY <1>1, Ground DEF Kept, CoopInv
  <1>4. Unread = 0 /\ Unread' = 1
    <2>1. Unread = 0
      BY <1>1 DEF Kept, StepInv
    <2>2. Len(events') = Len(events) + 1
      BY <1>1, <1>3
    <2> QED
      BY <1>2, <1>3, <2>1, <2>2 DEF Unread
  <1>5. ~Serving /\ doing = case /\ Serving'
    BY <1>1, <1>3 DEF Serving, Together, InStep
  <1>6. case' \in Cases /\ case' > doing
    <2>1. case' <= 2 * MaxCases
      BY CountNext DEF Kept, Known, CountInv, Next, Worker
    <2> QED
      BY <1>1, <1>3, <1>5, <2>1 DEF Cases
  <1>7. phase = "replay" => kind # "single" /\ ~Ordinary'
    <2>1. phase = "replay" => kind # "single"
      <3>1. left > 0 => left # 0
        BY Ground
      <3> QED
        BY <1>1, <3>1 DEF Kept, Known, RunInv, SingleInv
    <2> QED
      BY <1>1, <2>1 DEF Ordinary, Replaying
  <1>8. phase = "open" => Ordinary /\ Ordinary'
    BY <1>1 DEF Ordinary, Serving, Replaying
  <1>9. InStep'
    BY <1>1, <1>2, <1>3, <1>4, <1>5 DEF InStep
  <1>10. Testing'
    BY <1>2, <1>3, <1>5 DEF Together, Testing
  <1>11. Waiting'
    <2>1. doing # case'
      BY <1>1, <1>3, <1>5
    <2> QED
      BY <1>1, <1>2, <1>3, <1>5, <2>1 DEF Together, Waiting
  <1>12. Fresh'
    BY <1>1, <1>2, <1>3 DEF Together, Fresh
  <1>13. Written'
    <2>1. inbox'[case'] = <<>>
      BY <1>1, <1>3, <1>6 DEF Together, Fresh
    <2> QED
      BY <1>4, <2>1 DEF Written
  <1>14. Away'
    <2>1. phase = "replay" => left # 0
      BY <1>1, Ground
    <2>2. client = "over" => FALSE
      BY <1>1, <1>3, <1>8, <2>1 DEF Together, Away
    <2>3. client = "left" => \/ kind = "single" /\ failed
                             \/ ~Ordinary' /\ result.error = "flaky" /\ result.n > 0
      BY <1>1, <1>3, <1>7, <1>8, <2>1 DEF Together, Away
    <2> QED
      BY <1>1, <1>2, <2>2, <2>3 DEF Away
  <1>15. Telling'
    <2>1. Told => Told'
      <3> SUFFICES ASSUME NEW i \in DOMAIN events, events[i].event = "test_done" PROVE Told'
        BY DEF Told
      <3>1. i \in DOMAIN events' /\ events'[i] = events[i]
        BY <1>1, <1>3
      <3> QED
        BY <3>1 DEF Told
    <2>2. ~Ordinary' => Told'
      <3>1. ~Ordinary' => phase = "replay"
        BY <1>1, <1>8
      <3>2. phase = "replay" => ~Ordinary
        BY DEF Ordinary, Serving
      <3> QED
        BY <1>3, <2>1, <3>1, <3>2 DEF Together, Telling
    <2>3. Last("test_case")'
      <3>1. /\ events' # <<>>
            /\ events'[Len(events')] = TestCase(phase = "replay" \/ kind = "single")
        BY <1>1, <1>3
      <3> QED
        BY <3>1 DEF Last, TestCase
    <2> QED
      BY <1>1, <1>3, <2>2, <2>3 DEF Together, Telling
  <1> QED
    BY <1>1, <1>9, <1>10, <1>11, <1>12, <1>13, <1>14, <1>15 DEF Together

LEMMA AckedTogether ==
  ASSUME Kept, CaseAcked \/ DoneAcked
  PROVE  phase' # "lost" /\ Together'
  <1>1. /\ acks # <<>> /\ Head(acks) # "error"
        /\ UNCHANGED <<kind, case, final, result, left, events, inbox, outbox>>
        /\ \/ phase = "opening" /\ phase' = "reading"
           \/ phase = "reporting" /\ phase' = "replay"
    <2>1. acks # <<>>
      BY DEF CaseAcked, DoneAcked
    <2>2. Head(acks) # "error"
      BY SMTT(30), <2>1, Ground
    <2> QED
      BY <2>1, <2>2 DEF CaseAcked, DoneAcked
  <1>2. UNCHANGED <<up, client, seen, doing, asked, got, due, failed>>
    BY WorkerFrame DEF Worker
  <1>3. Together /\ case \in Nat /\ doing \in Nat /\ acks \in Seq({"ok"}) /\ Unread \in {0, 1}
    BY <1>1, Ground DEF Kept, CoopInv
  <1>4. Unread = 0
    <2>1. Len(acks) + Unread = 1 /\ Len(acks) \in Nat \ {0}
      BY <1>1, <1>3 DEF Kept, StepInv
    <2>2. \A a \in Nat \ {0}, b \in {0, 1} : a + b = 1 => b = 0
      OBVIOUS
    <2> QED
      BY <1>3, <2>1, <2>2, Zenon
  <1>5. /\ Unread' = Unread /\ (Serving' <=> Serving) /\ (Ordinary' <=> Ordinary)
        /\ (Told' <=> Told)
    BY <1>1, <1>2 DEF Unread, Serving, Ordinary, Replaying, Told
  <1>6. InStep'
    BY <1>1, <1>2, <1>3, <1>4, <1>5 DEF Together, InStep
  <1>7. Testing' /\ Written'
    BY <1>1, <1>2, <1>3, <1>5 DEF Together, Testing, Written
  <1>8. Waiting' /\ Fresh'
    BY <1>1, <1>2, <1>3, <1>5 DEF Together, Waiting, Fresh
  <1>9. Away'
    BY <1>1, <1>2, <1>3, <1>5 DEF Together, Away
  <1>10. Telling'
    BY <1>1, <1>3, <1>5 DEF Together, Telling
  <1> QED
    BY <1>1, <1>6, <1>7, <1>8, <1>9, <1>10 DEF Together

LEMMA SendDoneTogether ==
  ASSUME Kept, SendDone
  PROVE  phase' # "lost" /\ Together'
  <1>1. /\ phase = "report" /\ phase' = "reporting"
        /\ events' = Append(events, TestDone(result.n))
        /\ UNCHANGED <<kind, case, result, acks, inbox, outbox>>
    BY DEF SendDone
  <1>2. UNCHANGED <<up, client, seen, doing, asked, got, due, failed>>
    BY WorkerFrame DEF Worker
  <1>3. /\ Together /\ up /\ events \in Seq(Event)
    BY <1>1, Ground DEF Kept, CoopInv
  <1>4. ~Serving /\ Ordinary /\ ~Serving' /\ ~Ordinary'
    BY <1>1 DEF Serving, Ordinary
  <1>5. due = 0
    BY <1>3, <1>4 DEF Kept, Known, VerdictInv, SyncInv, Level
  <1>6. events' # <<>> /\ events'[Len(events')] = TestDone(result.n) /\ Len(events') \in DOMAIN events'
    BY <1>1, <1>3
  <1>7. Told' /\ Last("test_done")'
    BY <1>6 DEF Told, Last, TestDone
  <1>8. InStep'
    BY <1>1, <1>2, <1>3, <1>4 DEF Together, InStep
  <1>9. Testing' /\ Written'
    BY <1>2, <1>3, <1>4 DEF Together, Testing, Written
  <1>10. Waiting' /\ Fresh'
    BY <1>1, <1>2, <1>3, <1>4 DEF Together, Waiting, Fresh
  <1>11. Away'
    BY <1>1, <1>2, <1>3, <1>4 DEF Together, Away
  <1>12. Telling'
    BY <1>1, <1>2, <1>3, <1>5, <1>7 DEF Together, Telling
  <1> QED
    BY <1>1, <1>8, <1>9, <1>10, <1>11, <1>12 DEF Together

LEMMA FinishTogether ==
  ASSUME Kept, Finish
  PROVE  phase' # "lost" /\ Together'
  <1>1. /\ phase = "replay" /\ phase' = "done"
        /\ UNCHANGED <<kind, case, result, left, events, acks, inbox, outbox>>
    BY DEF Finish, wireVars
  <1>2. UNCHANGED <<up, client, seen, doing, asked, got, due, failed>>
    BY WorkerFrame DEF Worker
  <1>3. Together
    BY <1>1 DEF Kept, CoopInv
  <1>4. /\ ~Serving /\ ~Ordinary /\ ~Serving' /\ ~Ordinary' /\ Unread' = Unread
        /\ (Told' <=> Told)
    BY <1>1, <1>2 DEF Serving, Ordinary, Unread, Told
  <1>5. InStep' /\ Testing' /\ Written'
    BY <1>1, <1>2, <1>3, <1>4 DEF Together, InStep, Testing, Written
  <1>6. Waiting' /\ Fresh'
    BY <1>1, <1>2, <1>3, <1>4 DEF Together, Waiting, Fresh
  <1>7. Away' /\ Telling'
    BY <1>1, <1>2, <1>3, <1>4 DEF Together, Away, Telling
  <1> QED
    BY <1>1, <1>5, <1>6, <1>7 DEF Together

\* What an answer means for the one who waits for it: a conclusion always ends the test
\* case, and a command that ends it is answered so that the client knows.
LEMMA AnswersFit ==
  ASSUME NEW m, NEW a \in Answers(m)
  PROVE  /\ m \in Conclusions \cup {"bad"} => a.ends = TRUE
         /\ m \in Asks => (a.ends => a.reply \in Ending)
  <1>1. CASE m = "bad"
    BY <1>1 DEF Answers, Answer, Asks
  <1>2. CASE m \in Conclusions
    BY <1>2 DEF Answers, Answer, Stops, Flakes, Conclusions, Asks
  <1>3. CASE m \notin Conclusions \cup {"bad"}
    <2>1. \/ \E r \in {"Value", "Error"} : a = Answer(r, FALSE, status, FALSE)
          \/ a = Stops("INVALID") \/ a = Stops("OVERRUN")
          \/ a = Answer("Flaky", TRUE, status, TRUE)
      BY <1>3 DEF Answers, Flakes
    <2> QED
      BY <1>3, <2>1 DEF Stops, Answer, Ending
  <1> QED
    BY <1>1, <1>2, <1>3

\* What the worker reads in a test case.
LEMMA ReadsTogether ==
  ASSUME Kept, phase = "reading", inbox[case] # <<>>
  PROVE  /\ doing = case /\ case \in Cases /\ Unread = 0 /\ client # "testing"
         /\ \/ /\ client = "waiting" /\ Len(outbox[case]) = got
               /\ \E m \in Asks : inbox[case] = <<m>>
            \/ /\ client # "waiting"
               /\ \E c \in Conclusions \cup {"bad"} : inbox[case] = <<c, "close">>
  <1>1. Together /\ Serving /\ Unread = 0 /\ case \in Nat /\ MaxCases \in Nat /\ case <= 2 * MaxCases
    BY Ground DEF Kept, CoopInv, StepInv, Serving
  <1>2. doing = case /\ case \in Cases
    BY <1>1 DEF Together, InStep, Cases
  <1>3. client # "testing"
    BY <1>1 DEF Together, Testing
  <1>4. CASE client = "waiting"
    <2>1. \E m \in Asks : inbox[case] = <<m>> /\ Len(outbox[case]) = got
      BY <1>1, <1>2, <1>4 DEF Together, Waiting
    <2> QED
      BY <1>1, <1>2, <1>4, <2>1
  <1>5. CASE client # "waiting"
    <2>1. \E c \in Conclusions \cup {"bad"} : inbox[case] = <<c, "close">>
      BY <1>1, <1>3, <1>5 DEF Together, Written
    <2> QED
      BY <1>1, <1>2, <1>3, <1>5, <2>1
  <1> QED
    BY <1>4, <1>5

LEMMA HandleTogether ==
  ASSUME Kept, Handle
  PROVE  phase' # "lost" /\ Together'
  <1>1. /\ phase = "reading" /\ inbox[case] # <<>>
        /\ inbox' = [inbox EXCEPT ![case] = Tail(@)]
        /\ UNCHANGED <<case, final, left, events, acks>>
    BY DEF Handle, Lost
  <1>2. UNCHANGED <<kind, up, client, seen, doing, asked, got, due, failed>>
    BY WorkerFrame DEF Worker
  <1>3. /\ Together /\ up /\ got \in Nat /\ case \in Nat
        /\ inbox \in [Cases -> Seq(Messages)] /\ outbox \in [Cases -> Seq(Replies)]
    BY <1>1, Ground DEF Kept, CoopInv
  <1>4. /\ doing = case /\ case \in Cases /\ Unread = 0 /\ client # "testing"
    BY <1>1, ReadsTogether
  <1>5. PICK a \in Answers(Head(inbox[case])) :
          /\ outbox' = [outbox EXCEPT ![case] = Append(@, a.reply)]
          /\ IF a.ends THEN CaseOver(a.status) ELSE UNCHANGED <<phase, result, found>>
    <2>1. Head(inbox[case]) # "close"
      <3>1. \/ \E m \in Asks : inbox[case] = <<m>>
            \/ \E c \in Conclusions \cup {"bad"} : inbox[case] = <<c, "close">>
        BY <1>1, ReadsTogether
      <3> QED
        BY <3>1 DEF Asks, Conclusions
    <2> QED
      BY <1>3, <2>1 DEF Handle
  <1>6. /\ outbox'[case] = Append(outbox[case], a.reply) /\ inbox'[case] = Tail(inbox[case])
        /\ \A c \in Cases : c > doing => inbox'[c] = inbox[c] /\ outbox'[c] = outbox[c]
    BY <1>1, <1>3, <1>4, <1>5 DEF Cases
  <1>7. \/ ~a.ends /\ phase' = "reading" /\ UNCHANGED result
        \/ a.ends /\ Replaying /\ phase' = "replay" /\ UNCHANGED result
        \/ /\ a.ends /\ ~Replaying /\ phase' \in {"engine", "report"}
           /\ result' = result \/ result'.error = "none"
    <2>1. CASE ~a.ends
      BY <1>1, <1>5, <2>1
    <2>2. CASE a.ends
      <3>1. CaseOver(a.status)
        BY <1>5, <2>2
      <3> QED
        BY <2>2, <3>1 DEF CaseOver, Result
    <2> QED
      BY <2>1, <2>2
  <1>8. /\ phase' \in {"reading", "replay", "engine", "report"} /\ Unread' = Unread
        /\ (Told' <=> Told) /\ (Ordinary' <=> Ordinary) /\ (Replaying' <=> Replaying)
    <2>1. phase' \in {"reading", "replay", "engine", "report"}
      BY <1>7
    <2>2. Unread' = Unread /\ (Told' <=> Told) /\ (Replaying' <=> Replaying)
      BY <1>1, <1>2 DEF Unread, Told, Replaying
    <2>3. Ordinary' <=> Ordinary
      BY <1>1, <1>7, <2>2 DEF Ordinary, Serving
    <2> QED
      BY <2>1, <2>2, <2>3
  <1>9. InStep' /\ Fresh'
    <2>1. InStep'
      BY <1>1, <1>2, <1>3, <1>4, <1>8 DEF Together, InStep, Serving, Cases
    <2>2. Fresh'
      BY <1>2, <1>3, <1>6 DEF Together, Fresh
    <2> QED
      BY <2>1, <2>2
  <1>10. Telling'
    BY <1>3, <1>7, <1>8 DEF Together, Telling
  <1>11. Testing'
    BY <1>2, <1>4 DEF Testing
  <1>12. CASE /\ client = "waiting" /\ Len(outbox[case]) = got
              /\ \E m \in Asks : inbox[case] = <<m>>
    <2>1. PICK m \in Asks : inbox[case] = <<m>>
      BY <1>12
    <2>2. Head(inbox[case]) = m /\ Tail(inbox[case]) = <<>>
      BY <2>1
    <2>3. a.ends => a.reply \in Ending
      BY <2>2, AnswersFit
    <2>4. Len(outbox'[case]) = got + 1 /\ outbox'[case][got + 1] = a.reply
      BY <1>3, <1>4, <1>6, <1>12
    <2>5. asked = got + 1
      BY <1>3, <1>12 DEF Together, Waiting
    <2>6. Waiting'
      <3>1. CASE a.ends
        <4>1. ~Serving'
          BY <1>7, <3>1 DEF Serving
        <4> QED
          BY <1>2, <1>4, <2>3, <2>4, <2>5, <3>1, <4>1 DEF Waiting
      <3>2. CASE ~a.ends
        <4>1. Serving' /\ inbox'[case] = <<>>
          BY <1>6, <1>7, <2>2, <3>2 DEF Serving
        <4> QED
          BY <1>1, <1>2, <1>4, <2>4, <2>5, <4>1 DEF Waiting
      <3> QED
        BY <3>1, <3>2
    <2>7. Written' /\ Away'
      BY <1>2, <1>12 DEF Written, Away
    <2> QED
      BY <1>8, <1>9, <1>10, <1>11, <2>6, <2>7 DEF Together
  <1>13. CASE /\ client # "waiting"
              /\ \E c \in Conclusions \cup {"bad"} : inbox[case] = <<c, "close">>
    <2>1. PICK c \in Conclusions \cup {"bad"} : inbox[case] = <<c, "close">>
      BY <1>13
    <2>2. Head(inbox[case]) = c
      BY <2>1
    <2>3. a.ends
      BY <2>2, AnswersFit
    <2>4. ~Serving' /\ (~Ordinary => phase' = "replay" /\ UNCHANGED result)
      BY <1>1, <1>7, <2>3 DEF Serving, Ordinary
    <2>5. Waiting' /\ Written'
      BY <1>2, <1>13, <2>4 DEF Waiting, Written
    <2>6. Away'
      BY <1>1, <1>2, <1>3, <1>8, <2>4 DEF Together, Away
    <2> QED
      BY <1>8, <1>9, <1>10, <1>11, <2>5, <2>6 DEF Together
  <1> QED
    BY <1>1, <1>12, <1>13, ReadsTogether

LEMMA WorkerCoop ==
  ASSUME Kept, Cooperative, Worker
  PROVE  CoopInv'
  <1>1. UNCHANGED <<kind, up, client, failed>>
    BY WorkerFrame
  <1>2. CASE phase = "lost"
    <2>1. [Next]_vars
      BY DEF Next
    <2> QED
      BY <1>2, <2>1, LostStays
  <1>3. CASE WorkerLoses /\ phase # "lost"
    <2>1. ~SetUpFails /\ ~ReadClosed /\ ~SendFails
      BY DEF SetUpFails, ReadClosed, SendFails, Cooperative, Kept, CoopInv
    <2>2. Timeout
      BY <1>3, <2>1 DEF WorkerLoses
    <2>3. ServerWaits /\ ClientWaits
      BY <2>2 DEF Timeout, ServerWaits, ClientWaits, Cooperative
    <2>4. Deserted
      BY <1>3, <2>3, NobodyWaits
    <2>5. phase' = "lost" /\ result' = result
      BY <2>2 DEF Timeout, Lost
    <2> QED
      BY <1>1, <2>4, <2>5 DEF Deserted, Kept, CoopInv
  <1>4. CASE ~WorkerLoses
    <2>1. phase' # "lost" /\ Together'
      BY <1>4, BetweenTogether, SendCaseTogether, AckedTogether, SendDoneTogether, FinishTogether,
         HandleTogether
      DEF Worker, WorkerLoses
    <2> QED
      BY <1>1, <2>1 DEF Kept, CoopInv
  <1> QED
    BY <1>2, <1>3, <1>4

\* With a client that answers everything, whatever it concludes its test cases with, the
\* worker and the client never wait for each other and no run is lost, but where the client
\* has raised and left (client.py:85, server.py:756): the close of a test case's stream always
\* comes after something that ends the test case for the server too (server.py:309-322,
\* 387-395), for any number of test cases and of commands in each.
THEOREM OnlyDesertersHurt ==
  ASSUME Faults \subseteq {"badname", "badcomplete"}
  PROVE  Spec => []HurtOnlyByDeserter
  <1>1. Cooperative /\ Patient
    BY DEF Cooperative, Patient
  <1>2. /\ RunInv /\ StopInv /\ VerdictInv /\ CountInv /\ StepInv /\ RestTypes /\ CoopInv
        /\ [Next]_vars
        => VerdictInv' /\ CoopInv'
    <2> SUFFICES ASSUME Known, CountInv, StepInv, RestTypes, CoopInv, [Next]_vars
                 PROVE  VerdictInv' /\ CoopInv'
      BY DEF Known
    <2>1. VerdictInv'
      <3>1. ~Refuse
        BY <1>1 DEF Refuse, Cooperative
      <3> QED
        BY <1>1, <3>1, VerdictStep
    <2>2. CoopInv'
      BY <1>1, ClientCoop, WorkerCoop DEF Kept, Next, ClientSide
    <2> QED
      BY <2>1, <2>2
  <1>3. RunInv /\ StopInv /\ VerdictInv /\ CountInv /\ StepInv /\ RestTypes /\ CoopInv
        => HurtOnlyByDeserter
    BY NobodyWaits DEF Known, Kept, CoopInv, HurtOnlyByDeserter
  <1> QED
    BY <1>2, <1>3, InitVerdict, InitCoop, RunInvariant, StopInvariant, CountInvariant, PTL DEF Spec
=============================================================================
