------------------------------- MODULE Server -------------------------------
(***************************************************************************)
(* The server above the connection: run_server_on_connection (server.py)   *)
(* with its thread pool, called by run_server_stdio (__main__.py).  The    *)
(* main thread takes commands off the control stream and submits one run   *)
(* for each; worker threads serve the runs; when the main loop ends, the   *)
(* executor waits for the runs, the connection is closed and the futures   *)
(* are looked at.                                                          *)
(*                                                                         *)
(* A run is abstracted to what module Run shows of it: it sends events,    *)
(* and it ends (Run!RunEnds), by returning or by an exception.  The        *)
(* connection is abstracted to module Connection's running flag and queues *)
(* that are read before a close is noticed.                                *)
(***************************************************************************)
EXTENDS Naturals, Sequences, FiniteSets

CONSTANTS
  Ids,          \* the stream ids a client may name in a command
  Workers,      \* max_workers of the pool, os.cpu_count() in the code
  MaxCommands   \* bound: packets the client writes on the control stream

ASSUME ServerAssumption ==
  Ids \subseteq Nat /\ Workers \in Nat \ {0} /\ MaxCommands \in Nat

\* run stands for run_test and single_test_case; unknown for any command or
\* payload the main loop does not understand; close for the control stream's own.
Run(i) == [cmd |-> "run", id |-> i]
Other(c) == [cmd |-> c, id |-> 0]
Commands == {Run(i) : i \in Ids} \cup {Other("unknown"), Other("close")}

Outcomes == {"returned", "connection", "exception"}

VARIABLES
  main,      \* where the main thread is
  control,   \* commands on the control stream, not yet read
  current,   \* the run whose command is to be answered
  replies,   \* the runs whose command was answered with True
  queue,     \* the executor's work queue
  futures,   \* pending_futures, not yet looked at
  run,       \* by id: none, queued, started, serving (it has sent an event), ended
  outcome,   \* how it ended
  raised,    \* run_server_on_connection ends by an exception
  running,   \* the connection's flag
  peerOpen, written   \* the client's end and what it has written

vars == <<main, control, current, replies, queue, futures, run, outcome, raised, running,
          peerOpen, written>>
runVars == <<queue, run, outcome>>
mainVars == <<main, control, current, replies, futures, raised>>

Active == {i \in Ids : run[i] \in {"started", "serving"}}
Unfinished == Active \cup {i \in Ids : run[i] = "queued"}

Init ==
  /\ main = "handshake" /\ control = <<>> /\ current = 0 /\ replies = {}
  /\ queue = <<>> /\ futures = <<>> /\ raised = FALSE
  /\ run = [i \in Ids |-> "none"] /\ outcome = [i \in Ids |-> "returned"]
  /\ running = TRUE /\ peerOpen = TRUE /\ written = 0

-----------------------------------------------------------------------------
(* The main thread.                                                        *)

\* receive_handshake stands before the try: its exception is for __main__ to close.
Handshake ==
  /\ main = "handshake"
  /\ \/ main' = "serving" /\ running /\ UNCHANGED <<raised, running>>
     \/ main' = "exited" /\ raised' = TRUE /\ running' = FALSE
  /\ UNCHANGED <<control, current, replies, futures, runVars, peerOpen, written>>

Registers_Again(i) ==  \* mutant: a stream id may be registered again when its run has ended
  i % 2 = 1 /\ run[i] \in {"none", "ended"}

\* register_client_stream refuses an id that is in use, or one that is even.
Registers(i) == i % 2 = 1 /\ run[i] = "none"

\* run_test, single_test_case: register and submit, ...
Submit ==
  /\ main = "serving" /\ control # <<>> /\ Head(control).cmd = "run"
  /\ Registers(Head(control).id)
  /\ control' = Tail(control) /\ current' = Head(control).id /\ main' = "replying"
  /\ run' = [run EXCEPT ![Head(control).id] = "queued"]
  /\ queue' = Append(queue, Head(control).id)
  /\ futures' = Append(futures, Head(control).id)
  /\ UNCHANGED <<replies, outcome, raised, running, peerOpen, written>>

\* ... then answer; a closed connection raises ConnectionError instead.
Reply ==
  /\ main = "replying"
  /\ IF running THEN replies' = replies \cup {current} /\ main' = "serving"
                ELSE main' = "leaving" /\ UNCHANGED replies
  /\ UNCHANGED <<control, current, futures, raised, runVars, running, peerOpen, written>>

LeaveLoop_Deaf ==  \* mutant: the end of the connection does not reach the control stream
  /\ main = "serving"
  /\ control # <<>>
  /\ Head(control).cmd = "run" => ~Registers(Head(control).id)
  /\ control' = Tail(control)
  /\ main' = "leaving"
  /\ UNCHANGED <<current, replies, futures, raised, runVars, running, peerOpen, written>>

\* The loop is left by any exception: a stream id in use, an unknown command, the
\* close of the control stream, which get no answer, or the end of the connection.
LeaveLoop ==
  /\ main = "serving"
  /\ \/ /\ control # <<>>
        /\ Head(control).cmd = "run" => ~Registers(Head(control).id)
        /\ control' = Tail(control)
     \/ control = <<>> /\ ~running /\ UNCHANGED control
  /\ main' = "leaving"
  /\ UNCHANGED <<current, replies, futures, raised, runVars, running, peerOpen, written>>

Drain_Started ==  \* mutant: waits only for the runs a worker has taken
  /\ main = "leaving" /\ Active = {}
  /\ main' = "closing"
  /\ UNCHANGED <<control, current, replies, futures, raised, runVars, running, peerOpen, written>>

Drain_Cancel ==  \* mutant: the executor drops what no worker has taken
  /\ main = "leaving" /\ Active = {}
  /\ main' = "closing" /\ queue' = <<>>
  /\ UNCHANGED <<control, current, replies, futures, raised, run, outcome, running, peerOpen,
                 written>>

\* The executor's __exit__ waits for every run submitted, those in its queue too.
Drain ==
  /\ main = "leaving" /\ Unfinished = {}
  /\ main' = "closing"
  /\ UNCHANGED <<control, current, replies, futures, raised, runVars, running, peerOpen, written>>

\* connection.close() in the finally clause.
Close ==
  /\ main = "closing" /\ running' = FALSE /\ main' = "collecting"
  /\ UNCHANGED <<control, current, replies, futures, raised, runVars, peerOpen, written>>

Collect_Any ==  \* mutant: every exception is caught
  /\ main = "collecting"
  /\ IF futures = <<>> THEN main' = "exited" /\ UNCHANGED futures
                        ELSE futures' = Tail(futures) /\ UNCHANGED main
  /\ UNCHANGED <<control, current, replies, raised, runVars, running, peerOpen, written>>

\* The futures' results; only a ConnectionError or a TimeoutError is caught.
Collect ==
  /\ main = "collecting"
  /\ IF futures = <<>> THEN main' = "exited" /\ UNCHANGED <<futures, raised>>
     ELSE IF outcome[Head(futures)] = "exception"
     THEN main' = "exited" /\ raised' = TRUE /\ UNCHANGED futures
     ELSE futures' = Tail(futures) /\ UNCHANGED <<main, raised>>
  /\ UNCHANGED <<control, current, replies, runVars, running, peerOpen, written>>

Main == Handshake \/ Submit \/ Reply \/ LeaveLoop \/ Drain \/ Close \/ Collect

-----------------------------------------------------------------------------
(* The pool.                                                               *)

Start ==
  /\ queue # <<>> /\ Cardinality(Active) < Workers
  /\ queue' = Tail(queue)
  /\ run' = [run EXCEPT ![Head(queue)] = "started"]
  /\ UNCHANGED <<mainVars, outcome, running, peerOpen, written>>

\* The run's first event; those that follow change nothing here.
Serve(i) ==
  /\ run[i] = "started" /\ running
  /\ run' = [run EXCEPT ![i] = "serving"]
  /\ UNCHANGED <<mainVars, queue, outcome, running, peerOpen, written>>

\* A run returns only when its test_done was answered; it loses its connection, or
\* its client for STREAM_TIMEOUT; or it raises something else: bad settings before
\* its first event, an error reply of the client to one.
Finish(i, how) ==
  /\ i \in Active
  /\ how = "returned" => run[i] = "serving"
  /\ run' = [run EXCEPT ![i] = "ended"] /\ outcome' = [outcome EXCEPT ![i] = how]
  /\ UNCHANGED <<mainVars, queue, running, peerOpen, written>>

Pool(i) == Serve(i) \/ \E how \in Outcomes : Finish(i, how)

-----------------------------------------------------------------------------
(* The client and the connection's reader thread.                          *)

Command(c) ==
  /\ peerOpen /\ running /\ written < MaxCommands
  /\ written' = written + 1 /\ control' = Append(control, c)
  /\ UNCHANGED <<main, current, replies, futures, raised, runVars, running, peerOpen>>

Disconnect ==
  /\ peerOpen /\ peerOpen' = FALSE
  /\ UNCHANGED <<mainVars, runVars, running, written>>

\* End of file: the reader closes the connection behind what it has delivered.
ReaderCloses ==
  /\ ~peerOpen /\ running /\ running' = FALSE
  /\ UNCHANGED <<mainVars, runVars, peerOpen, written>>

Next ==
  \/ Main \/ Start \/ (\E i \in Ids : Pool(i))
  \/ (\E c \in Commands : Command(c)) \/ Disconnect \/ ReaderCloses

Spec == Init /\ [][Next]_vars

\* The threads have the processor, receive_handshake's read has a timeout, and a run
\* in progress ends (Run!RunEnds).  Nothing is assumed of the client.
FairSpec ==
  /\ Spec /\ WF_vars(Main) /\ WF_vars(Start) /\ WF_vars(ReaderCloses)
  /\ \A i \in Ids : WF_vars(\E how \in Outcomes : Finish(i, how))

-----------------------------------------------------------------------------
(* Properties.                                                             *)

TypeOK ==
  /\ main \in {"handshake", "serving", "replying", "leaving", "closing", "collecting", "exited"}
  /\ control \in Seq(Commands) /\ current \in Ids \cup {0} /\ replies \subseteq Ids
  /\ queue \in Seq(Ids) /\ futures \in Seq(Ids)
  /\ run \in [Ids -> {"none", "queued", "started", "serving", "ended"}]
  /\ outcome \in [Ids -> Outcomes]
  /\ raised \in BOOLEAN /\ running \in BOOLEAN /\ peerOpen \in BOOLEAN /\ written \in 0..MaxCommands
  /\ Cardinality(Active) <= Workers

\* A command the main loop cannot take ends the loop, yet no run that was accepted
\* loses its connection by it: as long as the client stays, the connection is closed
\* only when every run has ended, those still queued included (server.py:432, 484).
CloseWaitsForRuns == ~running /\ peerOpen => Unfinished = {}

\* What run_server_on_connection ends with: an exception of any run but a lost
\* connection or a timeout reaches its caller, whatever else ended, and in whatever
\* order; without one it returns (server.py:486-490).
ExitTellsOfRuns ==
  main = "exited" /\ (\E i \in Ids : run[i] # "none") =>
    (raised <=> \E i \in Ids : outcome[i] = "exception")

\* No stream id is run a second time, whatever ids the client names
\* (connection.py:297-298).
RunsOnce == [][\A i \in Ids : run[i] = "ended" => run'[i] = "ended"]_vars

\* A run that was accepted ends, also when it waited behind a full pool, the main
\* loop has ended meanwhile or the client is gone (server.py:431, 484).
AcceptedRunEnds == \A i \in Ids : run[i] = "queued" ~> run[i] = "ended"

\* Once the client is gone, or has sent what the main loop cannot take, the server
\* process comes to its end (server.py:479-490).
ServerExits == ~peerOpen \/ main = "leaving" ~> main = "exited"

\* connection.py:82-86: "The server responds with a reply packet containing the cbor
\* payload True. - We now start sending and executing test cases."
ReplyComesFirst == \A i \in Ids : run[i] = "serving" => i \in replies
=============================================================================
