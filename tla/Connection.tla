----------------------------- MODULE Connection -----------------------------
(***************************************************************************)
(* The server's end of a Hegel connection: protocol/connection.py and      *)
(* protocol/stream.py, with the client and the two byte pipes as           *)
(* environment.                                                            *)
(*                                                                         *)
(* Application threads call the API (receive_handshake, new_stream,        *)
(* register_client_stream, send_request, write_reply, read_request,        *)
(* PendingRequest.get, Stream.close, Connection.close).  The connection's  *)
(* reader thread takes packets off the socket and sorts them into the      *)
(* queue of their stream, where the one thread that reads the stream finds *)
(* them.  pc[p] is the place a thread has reached in the code; a step      *)
(* boundary stands wherever a thread can lose the processor between two    *)
(* accesses of shared state that do not commute.                           *)
(***************************************************************************)
EXTENDS Naturals, Sequences

CONSTANTS
  Threads,     \* the application threads: the server's main thread, its workers
  Reader,      \* the connection's own reader thread
  Nobody,      \* the holder of a free lock
  Ids,         \* stream ids: 0 the control stream, odd the client's, even ours
  Ops,         \* the API calls the threads of an instance make
  ClientOps,   \* what the client of an instance does
  MaxCalls,    \* bound: API calls in all
  MaxPackets   \* bound: packets the client writes

AllOps == {"receive_handshake", "new_stream", "register_client_stream", "send_request",
           "get", "read_request", "write_reply", "close_stream", "close"}
AllClientOps == {"hello", "request", "reply", "close", "badclose", "corrupt", "disconnect"}

ASSUME ThreadsAssumption == Reader \notin Threads /\ Nobody \notin Threads \cup {Reader}
ASSUME IdsAssumption == Ids \subseteq Nat /\ 0 \in Ids
ASSUME BoundsAssumption ==
  /\ Ops \subseteq AllOps /\ ClientOps \subseteq AllClientOps
  /\ MaxCalls \in Nat /\ MaxPackets \in Nat

Procs == Threads \cup {Reader}

\* hello is the request with the HANDSHAKE_STRING payload, greeting its reply;
\* error is the refusal _send_error_reply writes; badclose is a request whose
\* payload is CLOSE_STREAM_PAYLOAD under an ordinary message id; corrupt is
\* anything read_packet cannot decode; SHUTDOWN is the marker, never on a wire.
AllKinds == {"hello", "greeting", "request", "reply", "error", "close",
             "badclose", "corrupt", "SHUTDOWN"}
Packet == [stream : Ids, id : Nat, kind : AllKinds]
Pkt(s, m, k) == [stream |-> s, id |-> m, kind |-> k]

\* The message id of a close packet and of the marker; ordinary ids start at 1.
CLOSE_STREAM_MESSAGE_ID == 0
SHUTDOWN == Pkt(0, CLOSE_STREAM_MESSAGE_ID, "SHUTDOWN")

IsReply(p) == p.kind \in {"greeting", "reply", "error"}
IsClosePayload(p) == p.kind \in {"close", "badclose"}

VARIABLES
  \* Connection
  running, handshakeDone, writerLock, nextStreamId,
  streams,        \* the ids registered in self.streams
  snapshot,       \* close()'s local list of streams, {} before
  \* Stream, by id
  closed, unprocessed, requests, replies, nextMessageId, writeLock,
  backlog,        \* history: unread packets of a closed stream put before it was
  \* the two pipes and the client at their other end
  pipeIn,         \* written by the client, not yet read
  sent,           \* everything the server has written
  peerOpen, clientNext, clientWrote, answered,
  \* the threads
  pc,
  arg,            \* the packet a thread writes or waits for, or one that names
                  \* the stream its call is about
  toShut,         \* the rest of close()'s loop over its snapshot
  calls,
  owed,           \* <<stream, id>> read by the application and not replied to
  pending,        \* <<stream, id>> of the PendingRequests not yet got
  consumer,       \* the one thread that reads a stream
  taken,          \* history: the ids read_request has returned
  told            \* history: streams whose consumer has taken a SHUTDOWN

connVars == <<running, handshakeDone, writerLock, nextStreamId, streams, snapshot>>
queueVars == <<unprocessed, requests, replies>>
streamVars == <<closed, backlog, queueVars, nextMessageId, writeLock>>
clientVars == <<pipeIn, peerOpen, clientNext, clientWrote, answered>>
appVars == <<owed, pending, consumer, taken, told>>
vars == <<connVars, streamVars, clientVars, sent, pc, arg, toShut, calls, appVars>>

ConnInit ==
  /\ running = TRUE /\ handshakeDone = FALSE /\ writerLock = Nobody
  /\ nextStreamId = 1 /\ streams = {0} /\ snapshot = {}
  /\ sent = <<>> /\ clientNext = [s \in Ids |-> 1]
  /\ consumer = [s \in Ids |-> Nobody] /\ taken = [s \in Ids |-> <<>>]

StreamInit ==
  /\ closed = [s \in Ids |-> FALSE] /\ backlog = [s \in Ids |-> 0]
  /\ unprocessed = [s \in Ids |-> <<>>]
  /\ requests = [s \in Ids |-> <<>>]
  /\ replies = [s \in Ids |-> {}]
  /\ nextMessageId = [s \in Ids |-> 1]
  /\ writeLock = [s \in Ids |-> Nobody]

\* The reader thread at its loop, the others outside a call, the pipes empty.
ThreadInit ==
  /\ pc = [p \in Procs |-> IF p = Reader THEN "loop" ELSE "idle"]
  /\ arg = [p \in Procs |-> SHUTDOWN]
  /\ toShut = [p \in Procs |-> {}]
  /\ calls = 0 /\ owed = {} /\ pending = {} /\ told = {}
  /\ pipeIn = <<>> /\ peerOpen = TRUE /\ clientWrote = 0 /\ answered = {}

Init == ConnInit /\ StreamInit /\ ThreadInit

Goto(p, l) == pc' = [pc EXCEPT ![p] = l] /\ UNCHANGED arg
GotoWith(p, l, a) == pc' = [pc EXCEPT ![p] = l] /\ arg' = [arg EXCEPT ![p] = a]
\* A call returns or raises to its caller; the reader goes round its loop.
Return(p) == GotoWith(p, IF p = Reader THEN "loop" ELSE "idle", SHUTDOWN)

-----------------------------------------------------------------------------
(* Calls of the application threads.                                       *)

Begin(t, op) ==
  /\ pc[t] = "idle" /\ op \in Ops /\ calls < MaxCalls
  /\ calls' = calls + 1
  /\ UNCHANGED <<clientVars, sent, toShut>>

\* A call that raises, or returns, before it has changed anything.
AtOnce(t) == Return(t) /\ UNCHANGED <<connVars, streamVars, appVars>>

\* A read of stream s enters its loop, to wait for packet a.  The server has one
\* reading thread per stream: the main thread on the control stream, the worker
\* of a test run on the run's stream and on those of its test cases.
StartRead(t, s, a) ==
  /\ s \in streams /\ consumer[s] \in {t, Nobody}
  /\ consumer' = [consumer EXCEPT ![s] = t]
  /\ GotoWith(t, "scan", a)
  /\ UNCHANGED <<connVars, streamVars, owed, taken, told>>

ReceiveHandshake(t) ==
  /\ Begin(t, "receive_handshake")
  /\ \/ handshakeDone /\ AtOnce(t)
     \/ ~handshakeDone /\ StartRead(t, 0, Pkt(0, 0, "hello")) /\ UNCHANGED pending

ReadRequest(t, s) ==
  /\ Begin(t, "read_request")
  /\ StartRead(t, s, Pkt(s, 0, "request"))
  /\ UNCHANGED pending

\* PendingRequest.get marks the handle used, then reads the reply.
Get(t, s, m) ==
  /\ Begin(t, "get") /\ <<s, m>> \in pending
  /\ pending' = pending \ {<<s, m>>}
  /\ StartRead(t, s, Pkt(s, m, "reply"))

\* write_request up to connection.write_packet; a thread that finds the lock
\* held has not begun.
SendRequest_Unlocked(t, s) ==  \* mutant: write_request without _write_lock
  /\ Begin(t, "send_request") /\ s \in streams
  /\ GotoWith(t, "write", Pkt(s, nextMessageId[s], "request"))
  /\ UNCHANGED <<connVars, streamVars, appVars>>

SendRequest(t, s) ==
  /\ Begin(t, "send_request") /\ s \in streams /\ writeLock[s] = Nobody
  /\ writeLock' = [writeLock EXCEPT ![s] = t]
  /\ GotoWith(t, "write", Pkt(s, nextMessageId[s], "request"))
  /\ UNCHANGED <<connVars, closed, backlog, queueVars, nextMessageId, appVars>>

WriteReply(t, s, m) ==
  /\ Begin(t, "write_reply") /\ <<s, m>> \in owed /\ consumer[s] = t
  /\ owed' = owed \ {<<s, m>>}
  /\ GotoWith(t, "write", Pkt(s, m, "reply"))
  /\ UNCHANGED <<connVars, streamVars, pending, consumer, taken, told>>

\* new_stream takes the next even id under the writer lock ...
NewStream_BeforeHandshake(t) ==  \* mutant: no look at _handshake_done
  /\ Begin(t, "new_stream") /\ writerLock = Nobody /\ 2 * nextStreamId \in Ids
  /\ nextStreamId' = nextStreamId + 1
  /\ GotoWith(t, "register", Pkt(2 * nextStreamId, 0, "request"))
  /\ UNCHANGED <<running, handshakeDone, writerLock, streams, snapshot, streamVars, appVars>>

NewStream(t) ==
  /\ Begin(t, "new_stream")
  /\ \/ ~handshakeDone /\ AtOnce(t)
     \/ /\ handshakeDone /\ writerLock = Nobody /\ 2 * nextStreamId \in Ids
        /\ nextStreamId' = nextStreamId + 1
        /\ GotoWith(t, "register", Pkt(2 * nextStreamId, 0, "request"))
        /\ UNCHANGED <<running, handshakeDone, writerLock, streams, snapshot, streamVars, appVars>>

\* The checks register_client_stream makes before it takes any lock.
MayRegister_AnyParity(s) == handshakeDone /\ s \notin streams  \* mutant: no parity check

MayRegister(s) == handshakeDone /\ s \notin streams /\ s % 2 = 1

RegisterClientStream(t, s) ==
  /\ Begin(t, "register_client_stream")
  /\ \/ ~MayRegister(s) /\ AtOnce(t)
     \/ /\ MayRegister(s)
        /\ GotoWith(t, "register", Pkt(s, 0, "request"))
        /\ UNCHANGED <<connVars, streamVars, appVars>>

\* ... and both end in _make_stream: a fresh Stream under the writer lock.
MakeStream(s) ==
  /\ streams' = streams \cup {s}
  /\ closed' = [closed EXCEPT ![s] = FALSE] /\ backlog' = [backlog EXCEPT ![s] = 0]
  /\ unprocessed' = [unprocessed EXCEPT ![s] = <<>>]
  /\ requests' = [requests EXCEPT ![s] = <<>>]
  /\ replies' = [replies EXCEPT ![s] = {}]
  /\ nextMessageId' = [nextMessageId EXCEPT ![s] = 1]
  /\ writeLock' = [writeLock EXCEPT ![s] = Nobody]
  /\ UNCHANGED <<running, handshakeDone, writerLock, nextStreamId, snapshot, appVars>>

Register_Overwrites(t) ==  \* mutant: no duplicate check under the lock
  /\ pc[t] = "register" /\ writerLock = Nobody
  /\ MakeStream(arg[t].stream) /\ Return(t)
  /\ UNCHANGED <<clientVars, sent, toShut, calls>>

Register(t) ==
  /\ pc[t] = "register" /\ writerLock = Nobody
  /\ \/ arg[t].stream \in streams /\ AtOnce(t)
     \/ arg[t].stream \notin streams /\ MakeStream(arg[t].stream) /\ Return(t)
  /\ UNCHANGED <<clientVars, sent, toShut, calls>>

\* Either side's close marks the stream; a second one finds it marked.
MarkClosed(s) ==
  /\ closed' = [closed EXCEPT ![s] = TRUE]
  /\ backlog' = IF closed[s] THEN backlog ELSE [backlog EXCEPT ![s] = Len(unprocessed[s])]

\* Stream.close up to the end of its close lock.
CloseStream(t, s) ==
  /\ Begin(t, "close_stream") /\ s \in streams
  /\ \/ closed[s] /\ AtOnce(t)
     \/ /\ ~closed[s]
        /\ MarkClosed(s)
        /\ GotoWith(t, "unblock", Pkt(s, CLOSE_STREAM_MESSAGE_ID, "close"))
        /\ UNCHANGED <<connVars, queueVars, nextMessageId, writeLock, appVars>>

Close(t) ==
  /\ Begin(t, "close")
  /\ Goto(t, "close")
  /\ UNCHANGED <<connVars, streamVars, appVars>>

-----------------------------------------------------------------------------
(* Steps inside a call.                                                    *)

Put(s, p) == unprocessed' = [unprocessed EXCEPT ![s] = Append(@, p)]

\* A stream has just been marked closed, by Stream.close or for a close packet
\* of the peer: put the marker.  Stream.close then looks at running, which
\* write_packet tests again under the lock, and announces the close.
Unblock(p) ==
  /\ pc[p] = "unblock"
  /\ Put(arg[p].stream, SHUTDOWN)
  /\ \/ p # Reader /\ running /\ Goto(p, "write")
     \/ (p = Reader \/ ~running) /\ Return(p)
  /\ UNCHANGED <<connVars, closed, backlog, requests, replies, nextMessageId, writeLock, clientVars,
                 sent, toShut, calls, appVars>>

\* Connection.write_packet takes the writer lock ...
AcquireWriter(p) ==
  /\ pc[p] = "write" /\ writerLock = Nobody /\ running
  /\ writerLock' = p
  /\ Goto(p, "sending")
  /\ UNCHANGED <<running, handshakeDone, nextStreamId, streams, snapshot, streamVars,
                 clientVars, sent, toShut, calls, appVars>>

\* ... sendall returns, sooner or later or, to a client that does not read, never ...
Transmit(p) ==
  /\ pc[p] = "sending"
  /\ sent' = Append(sent, arg[p])
  /\ writerLock' = Nobody
  /\ UNCHANGED <<running, handshakeDone, nextStreamId, streams, snapshot, closed, backlog,
                 queueVars, clientVars, toShut, calls, owed, consumer, taken, told>>

RequestWritten(t) ==
  /\ arg[t].kind = "request"
  /\ Transmit(t)
  /\ nextMessageId' = [nextMessageId EXCEPT ![arg[t].stream] = @ + 1]
  /\ writeLock' = [writeLock EXCEPT ![arg[t].stream] = Nobody]
  /\ pending' = pending \cup {<<arg[t].stream, arg[t].id>>}
  /\ Return(t)

OtherWritten(p) ==
  /\ arg[p].kind # "request"
  /\ Transmit(p)
  /\ IF arg[p].kind = "greeting" THEN Goto(p, "greeted") ELSE Return(p)
  /\ UNCHANGED <<nextMessageId, writeLock, pending>>

\* ... or the write raises: running is false, or the client has gone.  The
\* reader swallows the error, a request's id is not used up.
WriteFails(p) ==
  /\ \/ pc[p] = "write" /\ writerLock = Nobody /\ ~running /\ UNCHANGED writerLock
     \/ pc[p] = "sending" /\ ~peerOpen /\ writerLock' = Nobody
  /\ writeLock' = IF arg[p].kind = "request"
                  THEN [writeLock EXCEPT ![arg[p].stream] = Nobody] ELSE writeLock
  /\ Return(p)
  /\ UNCHANGED <<running, handshakeDone, nextStreamId, streams, snapshot, closed, backlog,
                 queueVars, nextMessageId, clientVars, sent, toShut, calls, appVars>>

\* receive_handshake's last assignment, after its reply is on the wire.
SetHandshakeDone(t) ==
  /\ pc[t] = "greeted"
  /\ handshakeDone' = TRUE
  /\ Return(t)
  /\ UNCHANGED <<running, writerLock, nextStreamId, streams, snapshot, streamVars, clientVars,
                 sent, toShut, calls, appVars>>

Found(t) == LET s == arg[t].stream IN
  IF arg[t].kind = "reply" THEN arg[t].id \in replies[s] ELSE requests[s] # <<>>

\* read_reply and read_request return what the stream already holds ...
ReturnReply(t) ==
  /\ pc[t] = "scan" /\ arg[t].kind = "reply" /\ Found(t)
  /\ replies' = [replies EXCEPT ![arg[t].stream] = @ \ {arg[t].id}]
  /\ Return(t)
  /\ UNCHANGED <<connVars, closed, backlog, unprocessed, requests, nextMessageId, writeLock,
                 clientVars, sent, toShut, calls, appVars>>

PopRequest(t, s, p) ==
  /\ pc[t] = "scan" /\ arg[t].kind # "reply" /\ Found(t)
  /\ s = arg[t].stream /\ p = Head(requests[s])
  /\ requests' = [requests EXCEPT ![s] = Tail(@)]
  /\ taken' = [taken EXCEPT ![s] = Append(@, p.id)]
  /\ UNCHANGED <<connVars, closed, backlog, unprocessed, replies, nextMessageId, writeLock,
                 clientVars, sent, toShut, calls, pending, consumer, told>>

ReturnRequest(t) == LET s == arg[t].stream
                        p == Head(requests[s]) IN
  /\ arg[t].kind = "request"
  /\ PopRequest(t, s, p)
  /\ owed' = owed \cup {<<s, p.id>>}
  /\ Return(t)

\* receive_handshake answers the handshake string and raises on anything else.
AnswerHandshake(t) == LET p == Head(requests[0]) IN
  /\ arg[t].kind = "hello"
  /\ PopRequest(t, 0, p)
  /\ \/ p.kind = "hello" /\ GotoWith(t, "write", Pkt(0, p.id, "greeting"))
     \/ p.kind # "hello" /\ Return(t)
  /\ UNCHANGED owed

\* ... or choose the timeout of unprocessed_packets.get by looking at closed.
ChooseTimeout_Raises(t) ==  \* mutant: a closed stream raises before it is drained
  /\ pc[t] = "scan" /\ ~Found(t)
  /\ IF closed[arg[t].stream] THEN Return(t) ELSE Goto(t, "waiting")
  /\ UNCHANGED <<connVars, streamVars, clientVars, sent, toShut, calls, appVars>>

ChooseTimeout(t) ==
  /\ pc[t] = "scan" /\ ~Found(t)
  /\ Goto(t, IF closed[arg[t].stream] THEN "polling" ELSE "waiting")
  /\ UNCHANGED <<connVars, streamVars, clientVars, sent, toShut, calls, appVars>>

TakeNext(t, s, p) ==
  /\ pc[t] \in {"polling", "waiting"}
  /\ s = arg[t].stream /\ unprocessed[s] # <<>> /\ p = Head(unprocessed[s])
  /\ unprocessed' = [unprocessed EXCEPT ![s] = Tail(@)]
  /\ backlog' = [backlog EXCEPT ![s] = IF @ = 0 THEN 0 ELSE @ - 1]
  /\ UNCHANGED <<connVars, closed, nextMessageId, writeLock, clientVars, sent, toShut, calls, owed,
                 pending, consumer, taken>>

TakeMarker(t) == LET s == arg[t].stream IN
  /\ TakeNext(t, s, SHUTDOWN)
  /\ told' = told \cup {s}
  /\ Return(t)
  /\ UNCHANGED <<requests, replies>>

TakePacket(t) == LET s == arg[t].stream
                     p == Head(unprocessed[s]) IN
  /\ TakeNext(t, s, p) /\ p # SHUTDOWN
  /\ \/ IsReply(p) /\ replies' = [replies EXCEPT ![s] = @ \cup {p.id}] /\ UNCHANGED requests
     \/ ~IsReply(p) /\ requests' = [requests EXCEPT ![s] = Append(@, p)] /\ UNCHANGED replies
  /\ Goto(t, "scan")
  /\ UNCHANGED told

\* Queue.get raises Empty: at once with timeout 0, after STREAM_TIMEOUT
\* otherwise.  A read with timeout=None is one this never happens to.
Empty(t, where, next) ==
  /\ pc[t] = where /\ unprocessed[arg[t].stream] = <<>>
  /\ Goto(t, next)
  /\ UNCHANGED <<connVars, streamVars, clientVars, sent, toShut, calls, appVars>>

PollFindsNothing(t) == Empty(t, "polling", "polled")
TimesOut(t) == Empty(t, "waiting", "expired")

\* Only then does the read look at closed again, to raise ConnectionError
\* ("is closed") or TimeoutError; packets and a close may have come meanwhile.
RaiseEmpty(t, isClosed) ==
  /\ pc[t] \in {"polled", "expired"} /\ closed[arg[t].stream] = isClosed
  /\ Return(t)
  /\ UNCHANGED <<connVars, streamVars, clientVars, sent, toShut, calls, appVars>>

RaiseClosed(t) == RaiseEmpty(t, TRUE)
RaiseTimeout(t) == RaiseEmpty(t, FALSE)

\* Connection.close is over: the reader thread ends with it.
LeaveClose(p) == IF p = Reader THEN Goto(p, "done") ELSE Return(p)

\* Connection.close under the writer lock: only the first to get there runs it.
CloseUnderLock_Twice(p) ==  \* mutant: running is not tested
  /\ pc[p] = "close" /\ writerLock = Nobody
  /\ running' = FALSE /\ snapshot' = streams
  /\ toShut' = [toShut EXCEPT ![p] = streams]
  /\ Goto(p, "fanout")
  /\ UNCHANGED <<handshakeDone, writerLock, nextStreamId, streams, streamVars, clientVars,
                 sent, calls, appVars>>

CloseUnderLock(p) ==
  /\ pc[p] = "close" /\ writerLock = Nobody
  /\ \/ ~running /\ LeaveClose(p) /\ UNCHANGED <<running, snapshot, toShut>>
     \/ /\ running /\ running' = FALSE
        /\ snapshot' = streams
        /\ toShut' = [toShut EXCEPT ![p] = streams]
        /\ Goto(p, "fanout")
  /\ UNCHANGED <<handshakeDone, writerLock, nextStreamId, streams, streamVars, clientVars,
                 sent, calls, appVars>>

\* Its loop over the snapshot, outside the lock.
ShutStream_Inverted(p, s) ==  \* mutant: only closed streams get the marker
  /\ pc[p] = "fanout" /\ s \in toShut[p]
  /\ toShut' = [toShut EXCEPT ![p] = @ \ {s}]
  /\ \/ closed[s] /\ Put(s, SHUTDOWN)
     \/ ~closed[s] /\ UNCHANGED unprocessed
  /\ IF toShut[p] = {s} THEN LeaveClose(p) ELSE Goto(p, "fanout")
  /\ UNCHANGED <<connVars, closed, backlog, requests, replies, nextMessageId, writeLock, clientVars,
                 sent, calls, appVars>>

ShutStream(p, s) ==
  /\ pc[p] = "fanout" /\ s \in toShut[p]
  /\ toShut' = [toShut EXCEPT ![p] = @ \ {s}]
  /\ \/ ~closed[s] /\ Put(s, SHUTDOWN)
     \/ closed[s] /\ UNCHANGED unprocessed
  /\ IF toShut[p] = {s} THEN LeaveClose(p) ELSE Goto(p, "fanout")
  /\ UNCHANGED <<connVars, closed, backlog, requests, replies, nextMessageId, writeLock, clientVars,
                 sent, calls, appVars>>

-----------------------------------------------------------------------------
(* The reader thread.                                                      *)

At(l) ==
  /\ pc[Reader] = l
  /\ UNCHANGED <<connVars, requests, replies, nextMessageId, writeLock, peerOpen, clientNext,
                 clientWrote, answered, sent, toShut, calls, appVars>>

ReaderLoop ==
  /\ At("loop")
  /\ Goto(Reader, IF running THEN "read" ELSE "done")
  /\ UNCHANGED <<closed, backlog, unprocessed, pipeIn>>

\* read_packet.  A read already blocked in the transport when close() is called
\* may still return a packet.
ReceivePacket ==
  /\ At("read") /\ pipeIn # <<>> /\ Head(pipeIn).kind # "corrupt"
  /\ pipeIn' = Tail(pipeIn)
  /\ GotoWith(Reader, "dispatch", Head(pipeIn))
  /\ UNCHANGED <<closed, backlog, unprocessed>>

\* read_packet raises: end of file, or a packet it cannot decode.  The finally
\* clause closes the connection.
ReadFails_NoFinally ==  \* mutant: the loop ends without closing the connection
  /\ At("read")
  /\ IF pipeIn = <<>> THEN ~peerOpen ELSE Head(pipeIn).kind = "corrupt"
  /\ Goto(Reader, "done")
  /\ UNCHANGED <<closed, backlog, unprocessed, pipeIn>>

ReadFails ==
  /\ At("read")
  /\ IF pipeIn = <<>> THEN ~peerOpen ELSE Head(pipeIn).kind = "corrupt"
  /\ Goto(Reader, IF running THEN "close" ELSE "done")
  /\ UNCHANGED <<closed, backlog, unprocessed, pipeIn>>

\* close() has closed the transport under it.  Over stdio nothing wakes a read
\* that is already blocked, so no fairness is assumed of this step.
ReadInterrupted ==
  /\ At("read") /\ ~running
  /\ Goto(Reader, "done")
  /\ UNCHANGED <<closed, backlog, unprocessed, pipeIn>>

Arrived == arg[Reader]

\* _send_error_reply: a request nobody can take is answered, a reply dropped.
Refuse_Silently ==  \* mutant: no error reply
  /\ At("dispatch")
  /\ \/ Arrived.stream \notin streams
     \/ closed[Arrived.stream] /\ ~IsClosePayload(Arrived)
  /\ Return(Reader)
  /\ UNCHANGED <<closed, backlog, unprocessed, pipeIn>>

Refuse ==
  /\ At("dispatch")
  /\ \/ Arrived.stream \notin streams
     \/ closed[Arrived.stream] /\ ~IsClosePayload(Arrived)
  /\ IF IsReply(Arrived) THEN Return(Reader)
     ELSE GotoWith(Reader, "write", Pkt(Arrived.stream, Arrived.id, "error"))
  /\ UNCHANGED <<closed, backlog, unprocessed, pipeIn>>

IgnoreClose ==
  /\ At("dispatch") /\ Arrived.stream \in streams /\ Arrived.kind = "badclose"
  /\ Return(Reader)
  /\ UNCHANGED <<closed, backlog, unprocessed, pipeIn>>

PeerCloses_NoMarker ==  \* mutant: closed is set and nobody is woken
  /\ At("dispatch") /\ Arrived.stream \in streams /\ Arrived.kind = "close"
  /\ MarkClosed(Arrived.stream)
  /\ Return(Reader)
  /\ UNCHANGED <<unprocessed, pipeIn>>

PeerCloses ==
  /\ At("dispatch") /\ Arrived.stream \in streams /\ Arrived.kind = "close"
  /\ MarkClosed(Arrived.stream)
  /\ Goto(Reader, "unblock")
  /\ UNCHANGED <<unprocessed, pipeIn>>

\* The stream was open when the reader looked; it may not be when it puts.
Accept_Closed ==  \* mutant: closed is not tested
  /\ At("dispatch") /\ Arrived.stream \in streams /\ ~IsClosePayload(Arrived)
  /\ Goto(Reader, "put")
  /\ UNCHANGED <<closed, backlog, unprocessed, pipeIn>>

Accept ==
  /\ At("dispatch") /\ Arrived.stream \in streams
  /\ ~IsClosePayload(Arrived) /\ ~closed[Arrived.stream]
  /\ Goto(Reader, "put")
  /\ UNCHANGED <<closed, backlog, unprocessed, pipeIn>>

PutPacket_Lifo ==  \* mutant: a stack for a queue
  /\ At("put")
  /\ unprocessed' = [unprocessed EXCEPT ![Arrived.stream] = <<Arrived>> \o @]
  /\ Return(Reader)
  /\ UNCHANGED <<closed, backlog, pipeIn>>

PutPacket ==
  /\ At("put")
  /\ Put(Arrived.stream, Arrived)
  /\ Return(Reader)
  /\ UNCHANGED <<closed, backlog, pipeIn>>

ReaderStep == ReaderLoop \/ ReceivePacket \/ ReadFails \/ Refuse \/ IgnoreClose
              \/ PeerCloses \/ Accept \/ PutPacket

-----------------------------------------------------------------------------
(* The client, as tests/client/protocol.py writes one: request ids count   *)
(* up per stream, a request of ours is answered once.                      *)

ServerUnchanged == UNCHANGED <<connVars, streamVars, sent, pc, arg, toShut, calls, appVars>>

ClientWrites(p) ==
  /\ peerOpen /\ clientWrote < MaxPackets /\ p.kind \in ClientOps
  /\ clientWrote' = clientWrote + 1
  /\ pipeIn' = Append(pipeIn, p)
  /\ ServerUnchanged /\ UNCHANGED peerOpen

ClientRequest(s, k) ==
  /\ ClientWrites(Pkt(s, clientNext[s], k))
  /\ clientNext' = [clientNext EXCEPT ![s] = @ + 1]
  /\ UNCHANGED answered

ClientReplies(p) ==
  /\ p.kind = "request" /\ <<p.stream, p.id>> \notin answered
  /\ ClientWrites(Pkt(p.stream, p.id, "reply"))
  /\ answered' = answered \cup {<<p.stream, p.id>>}
  /\ UNCHANGED clientNext

ClientOther(s, k) ==
  /\ ClientWrites(Pkt(s, CLOSE_STREAM_MESSAGE_ID, k))
  /\ UNCHANGED <<clientNext, answered>>

Disconnect ==
  /\ peerOpen /\ "disconnect" \in ClientOps
  /\ peerOpen' = FALSE
  /\ ServerUnchanged /\ UNCHANGED <<pipeIn, clientNext, clientWrote, answered>>

ClientStep ==
  \/ \E s \in Ids : \/ \E k \in {"hello", "request"} : ClientRequest(s, k)
                    \/ \E k \in {"close", "badclose", "corrupt"} : ClientOther(s, k)
  \/ \E i \in 1..Len(sent) : ClientReplies(sent[i])
  \/ Disconnect

-----------------------------------------------------------------------------
CallStep(t) ==
  \/ ReceiveHandshake(t) \/ NewStream(t) \/ Close(t)
  \/ \E s \in Ids : ReadRequest(t, s) \/ SendRequest(t, s) \/ RegisterClientStream(t, s)
                    \/ CloseStream(t, s)
  \/ \E r \in pending : Get(t, r[1], r[2])
  \/ \E r \in owed : WriteReply(t, r[1], r[2])

\* What a thread inside a call does next; a timeout and a write, which may both
\* be a long time coming, are apart.
InnerStep(t) ==
  \/ Register(t) \/ SetHandshakeDone(t)
  \/ ReturnReply(t) \/ ReturnRequest(t) \/ AnswerHandshake(t) \/ ChooseTimeout(t)
  \/ TakeMarker(t) \/ TakePacket(t) \/ PollFindsNothing(t) \/ RaiseClosed(t) \/ RaiseTimeout(t)

\* What threads and reader have in common.
SharedStep(p) ==
  \/ Unblock(p) \/ AcquireWriter(p) \/ WriteFails(p)
  \/ CloseUnderLock(p) \/ \E s \in Ids : ShutStream(p, s)

Next ==
  \/ \E t \in Threads : CallStep(t) \/ InnerStep(t) \/ TimesOut(t) \/ RequestWritten(t)
  \/ \E p \in Procs : SharedStep(p) \/ OtherWritten(p)
  \/ ReaderStep \/ ReadInterrupted
  \/ ClientStep

Spec == Init /\ [][Next]_vars

-----------------------------------------------------------------------------
(* Properties.                                                             *)

PCs == {"idle", "scan", "polling", "waiting", "polled", "expired", "register", "unblock", "write",
        "sending", "greeted", "close", "fanout", "loop", "read", "dispatch", "put", "done"}
Handle == Ids \X Nat

ConnTypeOK ==
  /\ running \in BOOLEAN /\ handshakeDone \in BOOLEAN
  /\ writerLock \in Procs \cup {Nobody} /\ nextStreamId \in Nat \ {0}
  /\ streams \in SUBSET Ids /\ snapshot \in SUBSET Ids
StreamTypeOK ==
  /\ closed \in [Ids -> BOOLEAN] /\ backlog \in [Ids -> Nat]
  /\ unprocessed \in [Ids -> Seq(Packet)] /\ requests \in [Ids -> Seq(Packet)]
  /\ replies \in [Ids -> SUBSET Nat]
  /\ nextMessageId \in [Ids -> Nat \ {0}] /\ writeLock \in [Ids -> Threads \cup {Nobody}]
ClientTypeOK ==
  /\ pipeIn \in Seq(Packet) /\ peerOpen \in BOOLEAN
  /\ clientNext \in [Ids -> Nat \ {0}] /\ clientWrote \in Nat /\ answered \in SUBSET Handle
ThreadTypeOK ==
  /\ pc \in [Procs -> PCs] /\ arg \in [Procs -> Packet]
  /\ toShut \in [Procs -> SUBSET Ids] /\ calls \in Nat /\ sent \in Seq(Packet)
AppTypeOK ==
  /\ owed \in SUBSET Handle /\ pending \in SUBSET Handle
  /\ consumer \in [Ids -> Threads \cup {Nobody}]
  /\ taken \in [Ids -> Seq(Nat)] /\ told \in SUBSET Ids

TypeOK == ConnTypeOK /\ StreamTypeOK /\ ClientTypeOK /\ ThreadTypeOK /\ AppTypeOK

\* A marker for stream s is queued, or a thread is about to put one: a thread
\* that has just set closed, or close() with s still ahead of it.
Queued(s) == \E i \in 1..Len(unprocessed[s]) : unprocessed[s][i] = SHUTDOWN
Unblocking(s) == \E p \in Procs : pc[p] = "unblock" /\ arg[p].stream = s
InFanout(s) == \E p \in Procs : pc[p] = "fanout" /\ s \in toShut[p]
MarkerDue(s) == Queued(s) \/ Unblocking(s) \/ InFanout(s)

\* Nobody sleeps through a close (Connection.close's fan-out, connection.py:169,
\* Stream.close, the close packet): a thread blocked on a stream that is closed,
\* or on one the connection's close has to reach, has a marker coming, unless
\* the stream's marker was taken by an earlier read.  A reply is waited for only
\* on a stream the close reaches, although new_stream and register_client_stream
\* go on registering streams after the snapshot.
NoStrandedReader ==
  \A t \in Threads :
    /\ pc[t] = "waiting" /\ arg[t].stream \notin told
    /\ \/ closed[arg[t].stream]
       \/ ~running /\ (arg[t].stream \in snapshot \/ arg[t].kind = "reply")
    => MarkerDue(arg[t].stream)

\* What makes it so, as an inductive invariant: only the holder of the writer
\* lock writes, and only while the connection runs; a closed stream, or one in
\* the snapshot, was registered; whatever was requested, was requested on a
\* stream that close() finds registered; and every stream that has been closed
\* or snapshotted has its marker queued, on its way or taken.
Reached(s) == s \in streams /\ (running \/ s \in snapshot)
WriterInv == \A p \in Procs : pc[p] = "sending" => writerLock = p /\ running
FreshInv == \A s \in Ids : closed[s] \/ s \in snapshot => s \in streams
Requesting(t) == pc[t] \in {"unblock", "write", "sending"} /\ arg[t].kind = "request"
AwaitingReply(t) == pc[t] \in {"scan", "polling", "waiting"} /\ arg[t].kind = "reply"
RequestInv ==
  /\ \A t \in Threads : Requesting(t) => arg[t].stream \in streams
  /\ \A r \in pending : Reached(r[1])
  /\ \A t \in Threads : AwaitingReply(t) => Reached(arg[t].stream)
DueInv ==
  \A s \in Ids : /\ closed[s] => s \in told \/ Queued(s) \/ Unblocking(s)
                 /\ s \in snapshot => s \in told \/ MarkerDue(s)
CloseInv == TypeOK /\ WriterInv /\ FreshInv /\ RequestInv /\ DueInv

\* However threads interleave in write_request and close, and whichever writes fail,
\* the requests of a stream go out under the ids 1, 2, 3, ..., none twice and no gap,
\* and its close is announced once at most.
NothingSentTwice ==
  \A s \in Ids :
    LET Own(k) == {i \in 1..Len(sent) : sent[i].stream = s /\ sent[i].kind = k}
    IN  /\ \A i, j \in Own("request") : i < j => sent[i].id < sent[j].id
        /\ \A i \in Own("request") :
             sent[i].id = 1 \/ \E j \in Own("request") : j < i /\ sent[j].id + 1 = sent[i].id
        /\ \A i, j \in Own("close") : i = j

\* The client's requests of a stream reach its reader in the order they were
\* written: what has been returned, then the deque, then the queue, then the
\* packet in the reader thread's hand, have increasing ids.
RequestsInOrder ==
  \A s \in Ids :
    LET IsOwn(p) == p # SHUTDOWN /\ ~IsReply(p)
        hand == IF pc[Reader] = "put" /\ Arrived.stream = s THEN <<Arrived>> ELSE <<>>
        line == requests[s] \o unprocessed[s] \o hand
        own == {i \in 1..Len(line) : IsOwn(line[i])}
    IN  /\ \A i, j \in 1..Len(taken[s]) : i < j => taken[s][i] < taken[s][j]
        /\ \A i \in 1..Len(taken[s]) : \A j \in own : taken[s][i] < line[j].id
        /\ \A i, j \in own : i < j => line[i].id < line[j].id

\* The places a request m the client wrote on s is in: the pipe, the reader's
\* hand, a queue, a caller, or the refusal written for it.
IsRequest(p, s, m) == p.stream = s /\ p.id = m /\ p.kind \in {"hello", "request"}
IsRefusal(p, s, m) == p.stream = s /\ p.id = m /\ p.kind = "error"
InHand(s, m) ==
  \/ pc[Reader] \in {"dispatch", "put"} /\ IsRequest(Arrived, s, m)
  \/ pc[Reader] \in {"write", "sending"} /\ IsRefusal(Arrived, s, m)
Places(s, m) ==
  LET In(name, q) == {name} \X {i \in 1..Len(q) : IsRequest(q[i], s, m)}
  IN  In("pipe", pipeIn) \cup In("deque", requests[s]) \cup In("queue", unprocessed[s])
        \cup {"hand"} \X {i \in {1} : InHand(s, m)}
        \cup {"caller"} \X {i \in 1..Len(taken[s]) : taken[s][i] = m}
        \cup {"refused"} \X {i \in 1..Len(sent) : IsRefusal(sent[i], s, m)}

\* Each request of the client has one fate: it is never both delivered and
\* refused, nor delivered twice, and while the connection is up none vanishes
\* between the reader thread's look-up, its test of closed and its put.
OneFate ==
  \A s \in Ids : \A m \in 1..(clientNext[s] - 1) :
    /\ \A x, y \in Places(s, m) : x = y
    /\ running /\ peerOpen => Places(s, m) # {}

\* The window between the reader thread's test of closed and its put
\* (connection.py:201 and 205) lets one packet slip in behind the marker of a
\* stream that another thread closes meanwhile, and never a second.
AtMostOneBehindMarker ==
  \A s \in Ids :
    LET q == unprocessed[s]
        behind == {j \in 1..Len(q) : q[j] # SHUTDOWN /\ \E i \in 1..(j - 1) : q[i] = SHUTDOWN}
        coming == {j \in {Len(q) + 1} : pc[Reader] = "put" /\ Arrived.stream = s /\ Queued(s)}
    IN  \A j, k \in behind \cup coming : j = k

\* No packet of a stream other than the control stream leaves the server before
\* its handshake reply, the refusals of the reader thread apart: the flag that
\* opens new_stream and register_client_stream is set after the reply is sent.
HandshakeFirst ==
  \A j \in 1..Len(sent) :
    sent[j].stream # 0 /\ sent[j].kind # "error" =>
      \E i \in 1..(j - 1) : sent[i].kind = "greeting"

\* new_stream draws its id and registers it in two critical sections, and never
\* finds the id taken: not by another thread's new_stream, not by a client's.
NoServerIdCollision ==
  \A t \in Threads :
    pc[t] = "register" /\ arg[t].stream % 2 = 0 =>
      /\ arg[t].stream \notin streams
      /\ \A u \in Threads \ {t} : pc[u] = "register" => arg[u].stream # arg[t].stream

\* A stream, once registered, is the same object for good: two threads that race
\* to register one id never each get a stream, which would lose the first one's
\* queue and start its message ids again.
StreamsNeverReplaced ==
  [][\A t \in Threads : pc[t] = "register" /\ arg[t].stream \in streams =>
       UNCHANGED <<streamVars, streams>> \/ pc'[t] = "register"]_vars

\* What was queued before a close is read before the close is reported
\* (stream.py:112-115): a read that raises "is closed", or "Connection closed" while
\* the connection is up, leaves nothing unread that was put before the stream was
\* closed, however puts and closes fall between the read's two looks at closed.
\* That is so of every read but one whose timeout had run out: expired, it looks
\* at closed a second time and may find a close it has not waited for.
DrainBeforeRaise ==
  [][\A t \in Threads :
       /\ pc[t] \in {"scan", "polling", "waiting", "polled"} /\ pc'[t] = "idle"
       /\ UNCHANGED <<requests, replies>>
       => backlog[arg[t].stream] = 0 \/ (~running /\ pc[t] # "polled")]_vars

\* The body of Connection.close runs once: once the connection is down, no
\* caller starts a second fan-out and the snapshot stays what it was.
CloseBodyRunsOnce ==
  [][~running => /\ ~running' /\ UNCHANGED snapshot
                 /\ \A p \in Procs : toShut'[p] \subseteq toShut[p]]_vars

-----------------------------------------------------------------------------
(* Liveness.  A thread inside a call and the reader thread keep running (the *)
(* interpreter schedules every thread); no timeout has to fire, no call has  *)
(* to be made, the client need not write, read or go.                        *)

Fairness ==
  /\ \A t \in Threads : WF_vars(InnerStep(t))
  /\ \A p \in Procs : WF_vars(SharedStep(p))
  /\ WF_vars(ReaderStep)

FairSpec == Spec /\ Fairness

Blocked(t, s) == pc[t] = "waiting" /\ arg[t].stream = s /\ s \notin told

\* Every thread blocked on a stream is released once the stream is closed by
\* either side, or the connection by anyone, without waiting for STREAM_TIMEOUT.
EveryReaderReleased ==
  \A t \in Threads : \A s \in Ids :
    Blocked(t, s) /\ (closed[s] \/ s \in snapshot) ~> ~Blocked(t, s)

\* When the client goes, however it goes, the reader thread takes the connection
\* down, even if it was refusing a packet or the writer lock was held.
DisconnectCloses == ~peerOpen ~> ~running
=============================================================================
