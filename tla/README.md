# A TLA+ model of hegel-core

`hegel-core` is the server half of Hegel: a client library in any language
spawns it, speaks a small packet protocol to it over stdin and stdout, and asks
it to run property tests with Hypothesis as the engine.  This directory models
the protocol machinery and the way the server drives test runs, checks it with
TLC and proves its main properties with TLAPS.

Paths below are relative to `src/` of the repository (`hegel/...` is
`src/hegel/...` there).

## The system

| Part | Source | State | Operations |
|---|---|---|---|
| Packet codec | `hegel/protocol/packet.py` | none | `read_exact`, `read_packet`, `write_packet` |
| Stream | `hegel/protocol/stream.py` | `unprocessed_packets` (a queue), `requests`, `replies`, `next_message_id`, `closed`, two locks | `send_request`, `write_request`, `write_reply*`, `read_request`, `read_reply`, `handle_requests`, `close`; `PendingRequest.get` |
| Connection | `hegel/protocol/connection.py` | `streams`, `running`, `_handshake_done`, the next stream id, the writer lock, the reader thread | `receive_handshake`, `new_stream`, `register_client_stream`, `write_packet`, `close`; the reader loop |
| Variable pool | `hegel/server.py` `Variables` | `last_id`, `variables`, `removed` | `next`, `consume`, `generate` |
| Test case | `hegel/server.py` `HegelState.execute_once` | the Hypothesis data, collections, pools, state machines, `done`, `flaky_error` | one command of the client each: `generate`, spans, `target`, `mark_complete`, collections, pools, state machines |
| Server | `hegel/server.py` `run_server_on_connection`, `_run_test`, `_single_test_case` | the thread pool, the futures, one run per client stream | the main loop's commands `run_test`, `single_test_case`; the events `test_case`, `test_done` |
| Test server | `hegel/test_server.py` | the position in one scripted mode | the eight `HEGEL_PROTOCOL_TEST_MODE`s |
| Entry point | `hegel/__main__.py` | the duplicated file descriptors | `StdioTransport`, `run_server_stdio` |
| Schemas | `hegel/schema.py` | a cache of strategies | `from_schema` |
| Conformance suite | `hegel/conformance.py` | none; two metrics files per run | parameter strategies and checks for client libraries |

How they interact: `run_server_stdio` builds a `Connection` on stdin and stdout and
calls `run_server_on_connection` on the main thread. The connection starts a reader
thread that sorts packets into the queues of their streams. The main thread reads
commands from stream 0 and submits each run to a pool of worker threads. A worker
sends events on the run's stream (opened by the client, odd id), opens a stream of its
own for each test case (even id), and answers the client's commands there until the test
case concludes. Every thread writes through the connection's one writer lock, and any of
them can close a stream or the connection.

Component by component, what is hard and what makes it correct:

- **Connection and streams.** Hard: the reader thread, the application threads and two
  kinds of close meet in the same queues with only parts of it under a lock
  (`closed` is tested and set without one; `close()` snapshots the streams and marks
  them after it has let go of the lock). Correct when requests are delivered once and in
  order, ids are never reused, what came before a close is read, and nobody sleeps
  through one.
- **Runs.** Hard: the worker and the client each believe something about whose turn it is;
  errors end a test case on both sides by different routes (`StopTest` unwinds the
  server, `Flaky` does not; the client leaves by an exception in some cases), every
  wait has a timeout that loses the run, and the engine can fail in the middle. Correct
  when the stream carries what was promised, the verdict is what the client reported,
  and neither side waits for the other.
- **Variable pool.** Hard: the list keeps consumed ids and the fallback draw does not look.
  Correct when it cannot be told from a set of live ids.
- **Server main loop.** Hard: a bad command, a lost client, a full pool and a run's
  exception all end in the same few lines of shutdown. Correct when accepted runs end,
  are not cut off, and the process ends.
- **Packet codec, transport.** Hard: short reads and writes, field widths, an end of file at any
  of the four reads of a packet. Correct when what is written is what is read, or an error,
  and a damaged packet never comes out as another.
- **Test server.** Hard: each mode follows a script, the client does not. Correct when it
  ends with `test_done` for a client that obeys, and `test_done` means that the error of
  the mode has been injected.
- **Schemas.** Hard: strings must be encoded at any depth, and every bound and filter reach the
  strategy. Correct when the answer to a `generate` is what the documentation of the schema says.
- **Conformance suite.** Hard: it draws parameters that must be satisfiable and pairs the
  lines of two processes by position. Correct when a right library passes, whatever
  is drawn, and a wrong one does not.

## The modules

| Module | Models | Notes |
|---|---|---|
| `Connection` | `connection.py`, `stream.py` | one action per step between two accesses that do not commute; `pc` holds the place of each thread |
| `MCConnection` | | symmetry, and a start with the handshake done and stream 1 registered |
| `Pool` | `Variables`, the `pool_*` commands | |
| `PoolSet` | the abstract pool: a set of live ids | refined by `Pool` |
| `Run` | `_run_test`, `_single_test_case`, `execute_once`, `handle_requests`; `tests/client/client.py` | one worker, its client, the two streams between them |
| `RunPromise` | the abstract stream of a run | refined by `Run` |
| `Server` | `run_server_on_connection`, the exit path of `run_server_stdio` | a run is what `Run` shows of it |
| `TestServer` | `test_server.py`; the client of its modes | a mode is a sequence of steps, which the server's actions interpret |
| `Framing`, `MCFraming` | `packet.py`, `StdioTransport`, the writer lock, the pipe | a header field and a payload byte are one unit of the wire each |
| `Channel` | an abstract channel of packets | refined by `Framing` |
| `Schema` | `schema.py` | operators only: the values each schema can answer with; Hypothesis' strategies are external. `Strategy` and `Encode` are one step of `_from_schema` and `_encode_value`, given what the parts come to; the functions `Drawn` and `_encode_value` are the recursion |
| `Conformance`, `MCConformance` | `conformance.py`, with the binary of a right library or of one with one flaw | extends `Schema`, which the right library is drawn from |
| `ConnectionProofs`, `PoolProofs`, `RunProofs`, `ServerProofs`, `TestServerProofs`, `FramingProofs`, `SchemaProofs`, `ConformanceProofs` | | theorems |

State and code: in `Connection`, the variables carry the names of the attributes
(`streams`, `unprocessed`, `requests`, `replies`, `nextMessageId`, `running`, ...), indexed
by stream id; `sent` is what went to the wire, `pipeIn` what has not been read from it. A read of a
stream looks at `closed` twice (`stream.py:117`, `:119`), and so has two places after `Empty`: `"polled"`,
if it found the stream closed the first time and did not wait, and `"expired"`, if its timeout ran out.
`backlog` is history: how much of what was queued before a stream was closed is still unread.
In `Run`, `phase` is the place in `_run_test`, `case`, `final`, `status`, `flaky` and
`found` are the locals and `HegelState` fields of that name or meaning, `inbox` and
`outbox` a test case's stream; commands are grouped by what they can do: `draw` (use the
test case's data and can end it), `local` (cannot), a conclusion, `bad`. In `Server`,
`main` is the place in the main thread and `run[i]` that of the run of stream `i`. In
`TestServer`, `Script(mode)` is the body of the `_mode_` function and `step` the place in it. In
`Framing`, `out` is what a thread's `sendall` has still to put out and `buf` the packet
`read_packet` has come to. In `Conformance`, `lines` and `served` are the client's and the
server's metrics files, and `validate` the method of that name of each test.

The layers meet through what each shows to the next. `Run` assumes of a stream that it
is a queue whose contents are read before a close is noticed, and that a read after that
raises: `DrainBeforeRaise`, `RequestsInOrder` and `NoStrandedReader` of `Connection`. The one read
`DrainBeforeRaise` excepts has waited out `STREAM_TIMEOUT`, which `Run` takes for the end of the run whatever
is queued by then.
`Server` and `TestServer` assume of a run and a stream what those modules show: `RunEnds` of `Run`,
and the queue of `Connection`. `Connection` assumes that packets come whole and in order:
`ImplementsChannel` of `Framing`.

Mutants of a definition stand just before it, named `Definition_Something`; no model
uses them. Each shows that the property it is paired with in `PROJECT.json` breaks
when the code is changed that way.

## The runs

| Run | Question | Bounds |
|---|---|---|
| `conn_handshake` | does anything precede the handshake reply, can ids collide or a stream be replaced, from a fresh connection with two threads racing | 2 threads, streams 0 to 2, 5 calls, 2 packets |
| `conn_deliver` | is every request delivered or refused, once; order, the one packet behind a marker, draining before raising | 2 threads, streams 0 to 2, 3 calls, 2 packets |
| `conn_close` | can a reader miss a close; is the close run once, is a stream's close or a request id sent twice or an id skipped | 2 threads, 4 calls |
| `conn_live` | are blocked readers released and does a lost client close the connection, without timeouts | 2 threads, 2 calls |
| `pool_set` | is the pool a set; is the fallback draw live | 4 variables, a client that consumes what it was given |
| `run_coop` | is the verdict what the client reported; do worker and client ever wait for each other, is a run lost, does it complete, with a client that answers | 3 engine test cases, 1 command each |
| `run_faults` | order of events and announced replays, nothing follows a StopTest, the worker ends, with a client that does everything wrong | 2 engine test cases, 1 command each, written ahead of replies |
| `server_exit` | commands good and bad, three odd ids and an even one: are runs cut off or repeated, do accepted runs and the process end, do the exceptions come out | 2 workers, 3 runs, 4 commands |
| `server_reply_first` | a statement of the documentation the code does not keep | 2 workers |
| `test_server` | does a client that obeys reach the end of every mode, does `test_done` mean that the error was injected, a quiet exit that the client left; do both sides end | all modes, any set of 7 faults, tests of up to 2 commands |
| `framing` | are the undamaged packets read whole and in order, does the reader stop only for a reason, does everything arrive without a fault | 2 writers, 3 packets, a pipe of 2 units, `REPLY_BIT` 2, one fault in a behaviour |
| `conformance` | is a schema answered as documented; does a right library pass every test with any parameters, does one with a flaw not | integers -2 to 2, lengths up to 2, 1 or 2 test cases, 2 characters |

Why the bounds are enough to be interesting: the races in the connection are between two
threads and the reader over one or two streams; two packets put one ahead of a marker
and one behind it. Three engine test cases let one fail, one be flaky and
one follow; two failures give two replays, the smallest number for which "all of them"
differs from "one". Three runs on two workers leave one in the executor's queue and let runs
end out of order. A pipe of two units is smaller than any packet, so every write and every read of one is
divided; with `REPLY_BIT` 2 the third request of a stream has an id that reaches the bit.
In `conformance` a list of two elements is the smallest that can repeat one, -1 to 1 and
values one beyond them (`Reach` 2) let every bound be missed on either side, `Native` 1 (the last
integer of a typed library) lets parameters leave its range, and two test cases let one be discarded
before one that counts. The widths 1000 and 100 of `conformance.py` are 4, 1 and 2 (`Spacing`, `Spread`,
`Width`): branches that do not touch and hold an even number each. One of the two characters is
a surrogate, which the codec does not have. `Levels` lists the schemas an instance
has that hold others, inner ones first (two levels here: a `one_of` in a list is the deepest): it
is what makes the recursion over a schema end. `Reach` and `Longest` only say how far a
number or a length without a bound goes. That `LastIsLive` also holds for a client that consumes ids before they
are issued is proved (`LastAlwaysLive`), not run.

`CHECK_DEADLOCK FALSE` everywhere: the client's packets and the threads' calls are used up
in `Connection`, a pool's test case ends, a run ends, the server exits, a conformance test is
judged. A hang that matters is one where somebody waits, and `HurtOnlyByDeserter`,
`EveryReaderReleased`, `RunEnds`, `ServerExits`, `BothEnd` and `ReaderEnds` are about those.

What the runs show that a reader of the code may not expect:

- `run_coop` names the two cases in which a worker waits out `STREAM_TIMEOUT` for a client
  that has left: a failing `single_test_case` (the reference client raises before it reads
  `test_done`) and a flaky run that still has interesting examples (`server.py:756`
  replays them, the client has raised `FlakyTest`).
- `AtMostOneBehindMarker` is the exact extent of the window between the reader's test of
  `closed` and its put.
- The comment at `stream.py:112-115` (what was queued before a close "must still be consumed") is not kept by
  a read whose `STREAM_TIMEOUT` has run out: between its `Empty` and its second look at `closed` (`:119`) the
  reader thread can queue a packet and then the peer's close, and the read says "is closed" with the packet
  unread. TLC finds this trace as soon as the property includes such a read; `DrainBeforeRaise` is what is left:
  a read that chose to poll has seen the stream closed, so nothing it could lose comes after its `Empty`.
- Documentation: a test case can start before the reply to `run_test`
  (`connection.py:84-86`, run `server_reply_first`). Not runs, but read beside them: the comment at
  `server.py:775-777` says the futures are never awaited, `server.py:486-490` awaits them;
  `docs/library-api.md:610` says the checksum is of the payload, the code takes header and
  payload.
- `framing`: a packet whose write is cut short disappears in silence if none of it was
  written; an end of file in the middle of a packet, but between two of its four reads, is
  reported as a closed connection and not as a protocol error (`packet.py:98`).
- `test_server`: the modes that inject `StopTest` end in the same way for a client that insists on
  `mark_complete` after it as for one that does not, so they do not tell the two apart. A client that
  leaves its test case before the error is injected ends the mode with a clean exit
  (`test_server.py:78`): `QuietMeansClientLeft` is the exact extent of that.
- `conformance`: `PassMeansLegal` names what validators do not look at (`Unseen`): 0 and 1 are in
  `(True, False)` (`conformance.py:349`); a NaN or an infinity that was not allowed is skipped (`:501`);
  an empty list of categories is taken for none (`:558`). `RightLibraryPasses` names when a
  right library may fail: an error-handling test keeps no server metrics, so it has to
  say `skip_server_metrics` (the docstring at `:276-283` has exit code 0 suffice); and a dict with
  `max_size` 0 may be given a `min_key` one past the greatest integer of the library's language.

## Fairness

- `Connection`: weak fairness for a thread inside a call, and for the reader; the
  interpreter schedules every thread. None for timeouts, for a write to get
  through (the client may not read), for the next call, for the client.
- `Run`: weak fairness for the worker, timeouts included: a `get(timeout=30)` returns.
  `RunEnds` uses nothing else. `RunCompletes` also assumes a client that goes on, which is
  its question.
- `Server`: weak fairness for the main thread, the pool and the reader; each run ends, by
  `RunEnds`. None for the client. `receive_handshake` has a timeout; the control loop's
  read has none, and no property needs it to.
- `TestServer`: weak fairness for the server and the client, timeouts included, since each has one on
  every read; a client that has a fault of silence is excused from what it withholds.
- `Framing`: weak fairness for the reader, for a thread's release of the lock and for a write while
  the pipe has room. Nobody has to begin a packet or to close.
- `Conformance` states none and checks no liveness.

Only liveness uses these: fairness takes no state from a specification, so the safety
properties of a run that also checks liveness are those of the unfair one.

## Proofs

All are machine-checked by TLAPS from the modules' named assumptions, which type the
constants; TLC evaluates each of them in a run. Those of `Conformance` and `Schema` say a little more: a
schema that holds others is listed in `Levels` behind those it holds (`SchemaAssumption`), so none holds
itself, and all that a test sends are listed (`SentAssumption`); there are as many numbers and characters as the
largest size that is asked for (`RoomAssumption`), since a unique list and a dict with string keys cannot be had
otherwise; neighbouring floats are not both bounds, as below; and None is nothing else
(`NoneAssumption`).

- `TypeCorrect` (`ConnectionProofs`): the type invariant of the connection.
- `NoReaderStranded`, `ClosedOnce` (`ConnectionProofs`): from `CloseInv`. That a blocked
  reader has its marker coming is not inductive: `DueInv` has it for every stream
  closed or snapshotted; `RequestInv` has that a reply is only ever awaited on a stream
  the snapshot holds (the write that precedes the wait tests `running` under the lock under
  which the snapshot is taken), which needs `WriterInv` (who writes holds the lock and
  has seen `running`) and `FreshInv` (only registered streams are closed).
- `LastAlwaysLive`, `PoolImplementsSet` (`PoolProofs`): from `PoolInv`; the list is increasing and
  complete, and `Drop` leaves its last element live. The refinement needs
  `Unissued = {}`: clients that consume only what they were given.
- `RunKeepsPromise` (`RunProofs`): `Run` implements `RunPromise`. The invariant says where a
  single test case has its one event, and that the engine has no more failures than test
  cases, which bounds what is announced. Every step of the client maps to a stutter.
- `NothingAfterStop` (`RunProofs`): from `StopInv`; the test case whose packets the worker reads has no
  reply yet that ends it, and a test case not yet begun has none at all.
- `TypeCorrect` (`RunProofs`): from `CountInv`, the engine's test cases are numbered up to `MaxCases` and the
  final ones behind them, and `StepInv`, one event is unread or unacknowledged at a time, so that the client is in
  no more test cases than there have been.
- `VerdictStands` (`RunProofs`): `VerdictIsTrue`, for `Faults` without `pipeline`. With it the property is
  false: a client that concludes a test case before it has read the reply that ended it reports
  a failure nobody reads. The invariant joins the two sides of the wire. While the test cases count (`SyncInv`) the
  client is in the worker's test case or one event behind it, with every command answered (`Testing`), one
  unanswered (`Waiting`) or its conclusion unread (`Idle`), and `failed` holds just when the engine found an
  interesting test case, a flaky error is set, or that unread conclusion is the failure (`Truth`).
  Afterwards (`LaterInv`) the result stands, and the client expects at least as many final test cases as are
  still to come, so that none of their failures is taken for a new one. `FlowInv` says why the two do not
  drift apart: one event is unread or unacknowledged at a time, and the worker waits for it. A client that
  refuses an event leaves this invariant for `Refused`: it has nothing left to read and the worker only the
  refusal, which loses the run.
- `OnlyDesertersHurt` (`RunProofs`): `HurtOnlyByDeserter`, for `Faults` within `badname` and `badcomplete`: a
  client that answers everything, which is the property's own premise in `run_coop`. `CoopInv` keeps
  worker and client in step in the final test cases too, where `SyncInv` ends: the client is in the worker's test
  case or one unread event behind it (`InStep`); out of it, its conclusion and its close are what is left to
  read (`Written`), so the worker never meets the close first; and it is away only after it raised, or when no
  test case is left for it (`Away`).
- `RunsNotCutOff`, `EndedForGood` (`ServerProofs`): from `ServerInv`; the work queue holds runs that
  wait, each once, and nothing is left to run once the executor is left.
- `TypeCorrect` (`ServerProofs`): from `TypeInv`, which adds what the bound on the workers needs, that the runs
  in progress are a finite set, and that a command being answered names a stream.
- `NoExceptionLost` (`ServerProofs`): from `ExitInv`; until the futures are looked at every accepted run is
  among them, and while they are, every one that raised still is.
- `NeverReplaced`, `IdsNeverCollide`, `ReplyOpensStreams` (`ConnectionProofs`). That ids do not collide is from
  `IdInv`: an even id that is registered, or that a thread takes to the register step, is
  below the next one to draw. That the reply comes first is from
  `FlagInv` and `HandshakeInv`: whatever names a stream other than 0 (a registered stream, a call under
  way, a request owed) exists only behind the flag, the flag is set behind the greeting, and the
  reader thread writes refusals only.
- `DrainedBeforeRaise` (`ConnectionProofs`): an action property, from `DrainInv`: an open stream has no
  `backlog`, that of a closed one is at the head of the queue and before any marker, and a thread that polls
  has seen its stream closed, so the backlog is gone once it has found the queue empty (`"polled"`) and
  nothing brings it back. Of the actions that take a reader back to its caller, the ones that raise do so in
  that place, or with a marker in hand, before which the backlog was.
- `SentOnce` (`ConnectionProofs`): from `NumberInv`, the requests on the wire have used up exactly the ids
  below `next_message_id` in order, and the one thread that writes the next holds the stream's `_write_lock`
  and that id (so that neither a failed write nor a second thread skips or repeats one); and from `AnnounceInv`,
  only the thread that set `closed` is on its way to announce the close.
- `OneBehindMarker`, `RequestsStayInOrder`, `EachRequestOneFate` (`ConnectionProofs`): of the thirty-odd actions a
  dozen kinds of step remain (`DeliveryStep`) for what happens to the client's packets. `MarkerInv` adds to
  the window what closes it: a marker is queued only on a stream that is closed, or behind
  `running`, and once a packet is behind it the reader thread has no second one in hand. `LineInv` gives each
  stream four ids a <= b <= c <= d: what callers have is below a, the deque holds ids from a, the queue from b, the
  reader's hand from c, the pipe from d, all rising, and refusals are below c; no id is
  both refused and held. Order and "at most one place" follow; "at least one place" is
  `PresentInv`, which holds while both ends are open and needs that the reader thread is
  never out of its loop then.
- `TypeCorrect`, `DoneIsInjected`, `QuietIsHonest`, `SilentStop` (`TestServerProofs`): from one invariant, for any
  client and tests of any length. `PlaceInv` has where the server is in its script and how many test cases
  have begun by each step, `FlowInv` that one event at most is unread or unacknowledged, and the server waits for it.
  `ErrorInv` has that the error is injected at its one step (`ErrorStep`) and never before, and
  `QuietInv` that as long as the server goes on, only its client can have closed the connection. What each step of each
  script is, is a lemma (`StepFields`), so the modes are told apart in one place.
- `RoundTrip` (`FramingProofs`): by the units of an encoded packet, one by one.
- `StopsHonestly`, `TypeCorrect`, `Implements` (`FramingProofs`): the invariant lays the packets one behind
  the other (`LaidOut`): packet i has a place `at[i]`, and what is before the reader (its buffer, the pipe, and what
  the writing thread has still to put out) begins with the first packet it has not received. So what a
  read completes is that packet or the altered one, and an altered one is not accepted: not if the checksum was
  altered, because no checksum is a single word, and not if something else was, its length included, because no
  other sequence has that packet's checksum (`AlteredRead`). Of the refinement, `Begin` is the channel's put,
  `WriteFails`, `Crash` and a unit altered in `Begin` its spoiling, the read that completes a packet its take, and the rest
  stutters (`Promised`). `StopsHonestly` has no premise. The other two leave out a write cut short: behind
  it the reader takes the next packets for the rest of the torn one and sums units that are checksums themselves, and
  the model's checksum tells only sequences of words apart.
- That the checksum of the model does so (`Tells`, with `CrcStep`, `CrcIsNat`, `LongerIsGreater`, `WordsApart`): it is the
  number whose digits the units are, behind a 1. `CrcStep` says what the fold computes, for every
  sequence. It is induction over data without an induction theorem, which the provers cannot instantiate: of
  the lengths at which a claim fails, if there are any, one is the least (`Least`, from `WFMin`, which
  speaks of sets), and the claim holds at one less. A real CRC32 has collisions: what is
  proved of damage is that `read_packet` looks at everything a checksum can tell it.

- `SchemaRight` (`SchemaProofs`): what is drawn for a schema of the protocol is a value, its encoding is one and fits
  the schema (`Fits`), and different values have different encodings; the last is needed for lists that
  are unique and for the keys of a dict, which would not stay so on the wire. "Unique" is as in a set of
  Python's (`Distinct`): a NaN equals no other object, so one may be there twice, and so may what holds one. That the
  wire repeats nothing else needs that a NaN is still in what is written for it at any depth (`ValueFree`). `Right` says this of one schema, and each type
  of schema has its lemma, from `Right` of its parts. The recursion is over schemas, not over numbers, and the
  provers have no induction for it: `NestedExists`, `DrawnExists`, `FittingExists` and `EncodeExists` show that each
  recursive function exists level by level, and `BelowRight` that every level is right, by there being no least level
  that is not (`Least`).
- `AnswersFit` (`ConformanceProofs`): `AnswerFits`, from `SchemaRight`.
- `NoFalseAlarm`, `NoFlawPasses` (`ConformanceProofs`): `RightLibraryPasses` and `PassMeansLegal`, from `ConformanceInv`. The
  invariant is about the two files: of a library that writes every line, line i of both is
  about test case i, and the binary's is one it could write or, if it was discarded, nothing (`Aligned`); of one that
  leaves a line out, the files are unequal from then on, or no test case has been discarded (`Behind`). So with files
  of one length, the lines that are judged are the test cases that count (`CountedWritten`). What is left is about one
  test at a time: that its parameters can be met and its validator lets pass all that is then drawn
  (`MetricsRight`), and that what it lets pass of what a library draws that drops a parameter is
  also drawn with the parameter, or is `Unseen` (`MetricsLegal`). Both hold by what the parameters' strategies
  exclude: the room for unique elements and keys (`ListThere`, `KeysThere`), a list or text without
  elements only where its size may be 0, bounds that leave a float between them (`FloatRight`), an even number in every
  range of a `one_of`. `Foreign` in `RightLibraryPasses` is the one range of keys that may leave the language's
  integers: `KeyBoundsAre` has that it does so for `max_size` 0 only.

Every invariant and action property of the passing runs is stated by a theorem, two of `Framing` under a
premise. Only model-checked:

- the documentation's statement in `server_reply_first`, which is violated;
- `TypeOK` and `ImplementsChannel` of `Framing` with a write cut short, for the reason above;
- all liveness (`EveryReaderReleased`, `DisconnectCloses`, `RunCompletes`, `RunEnds`, `AcceptedRunEnds`, `ServerExits`,
  `ObedientFinishes`, `BothEnd`, `EverythingArrives`, `ReaderEnds`), and everything about fairness and ENABLED, which the
  provers cannot do.

## Assumptions and what is left out

- One thread reads a stream (`server.py` has it so); two would take each other's packets.
- A second `PendingRequest.get` (a `ValueError`) does not happen.
- In `Connection`, packets are whole and either decode or do not, as `Framing` shows them; CBOR payloads
  decode, except a command the main loop does not understand.
- In `Framing`, the checksum tells any two packets apart, a header field is put out or cut as one unit, and one
  thing goes wrong in a behaviour.
- In `Conformance`, a library has one flaw at a time; bounds of a float are never neighbours; and a run draws
  what has to be seen (`Shown`): the NaN, the infinity, the second branch that the validators wait for are
  likely with their numbers of test cases, not certain.
- In `Schema`, the texts of formats are left out: what is said of an email, a url, an address, a date or a uuid is that
  it is a string, not its `version` or `max_length`. So are the widths of numbers and `allow_subnormal`, a constant that
  is a NaN (one object, unlike those that are drawn), and elements of a unique list or keys of a dict that Python
  cannot hash (a `TypeError` in the draw). A pattern is the set of the strings it matches and there is one codec.
- In `Run`, the `data.mark_invalid()` that answers an unsatisfied assumption (`server.py:386-388`) ends the test case; it is
  not taken to raise `Flaky` itself, which the sibling `except` would not catch.
- In `TestServer`, a connection is closed by the client or by the server's own end, not by a malformed packet, so
  `QuietMeansClientLeft` says nothing of that.
- The parameters a conformance test's constructor may force are not modelled; `params_strategy` draws them all.
- `conn_live` has no `new_stream` and no `send_request`: that a stream registered while `close()` is under way strands
  nobody is `NoStrandedReader`'s, checked in `conn_close` and proved.
- Hypothesis is external: the engine asks for test cases, returns or raises; a command that uses
  the data gets a value, an error, `StopTest` or `Flaky`. `Flaky` comes only from
  the engine's own record of test cases, so not for blobs, replays and single test cases. The
  engine gives at least one interesting example if a test case was interesting, and exits as
  flaky only with one.
- A client that is not slow answers within `STREAM_TIMEOUT`; `slow` clients are a fault of their
  own, and one that has left its run is slow for ever.
- Observability, Antithesis, seeds and the texts of results are left out: they
  change no state the properties speak of.

Not modelled:

- The command line and the release scripts: options, descriptors, a changelog, calls of git; there
  is no state between steps for a property to be about.
- The cache of strategies in `schema.py`: an entry is a function of its key. The key writes an integer key
  of a map in a constant as a string, so two such constants would share an entry; the documented
  schemas of constants hold null only.
- Collections and state machines beyond their answers (`many` and `FeatureStrategy` are Hypothesis'), and the
  ids of pools, collections and state machines, which index lists.
- The generators of `tests/client`, which only build schemas and commands.

## Plan

Done, in this order: `Connection`, its close and its proofs; `Pool` and its abstraction; `Run` and
`RunPromise`; `Server`; `TestServer`; `Framing` and `Channel`; `Schema` and `Conformance`; the proofs about
opening streams, the exit of the server, the end of a test case, the verdict of a run and the codec; those about
what happens to a stream's packets, a run without deserters, the test server, and the channel of packets; those
about schemas and the conformance suite.

Left, in order:

1. `Mailbox`: the abstract promise of a stream (a queue, a close behind it), shown to be
   implemented by `Connection`; `Run`'s queues are that.
2. `TestCase`: the commands of `execute_once` with the ids they hand out, over `Pool`.
