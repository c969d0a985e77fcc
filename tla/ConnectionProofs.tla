--------------------------- MODULE ConnectionProofs ---------------------------
(***************************************************************************)
(* Proofs about Connection, for any threads, streams, calls and packets:    *)
(* its types; and a stream from its registration to its close: nobody       *)
(* sleeps through a close (NoStrandedReader, from the inductive invariant   *)
(* CloseInv of Connection), the close runs once, a registered stream is     *)
(* never replaced, the server's ids never collide, and nothing is sent on a *)
(* stream before the handshake reply.  Then what happens to the packets of  *)
(* a stream.                                                               *)
(***************************************************************************)
EXTENDS Connection, TLAPS

LEMMA PktType ==
  ASSUME NEW s \in Ids, NEW m \in Nat, NEW k \in AllKinds
  PROVE  Pkt(s, m, k) \in Packet
BY DEF Pkt, Packet

LEMMA MarkerType == SHUTDOWN \in Packet
BY IdsAssumption DEF SHUTDOWN, Pkt, Packet, AllKinds, CLOSE_STREAM_MESSAGE_ID

LEMMA PacketFields ==
  ASSUME NEW p \in Packet
  PROVE  p.stream \in Ids /\ p.id \in Nat /\ p.kind \in AllKinds
BY DEF Packet

LEMMA HeadTail ==
  ASSUME NEW S, NEW q \in Seq(S), q # <<>>
  PROVE  Head(q) \in S /\ Tail(q) \in Seq(S)
OBVIOUS

-----------------------------------------------------------------------------
(* Type correctness, one part of TypeOK at a time.                         *)

LEMMA ConnStutter == ConnTypeOK /\ UNCHANGED connVars => ConnTypeOK'
BY DEF ConnTypeOK, connVars
LEMMA StreamStutter == StreamTypeOK /\ UNCHANGED streamVars => StreamTypeOK'
BY DEF StreamTypeOK, streamVars, queueVars
LEMMA ClientStutter == ClientTypeOK /\ UNCHANGED clientVars => ClientTypeOK'
BY DEF ClientTypeOK, clientVars
LEMMA AppStutter == AppTypeOK /\ UNCHANGED appVars => AppTypeOK'
BY DEF AppTypeOK, appVars

\* A step moves at most one thread.
LEMMA ThreadMoves ==
  ASSUME ThreadTypeOK, NEW p \in Procs, NEW l \in PCs, NEW a \in Packet,
         GotoWith(p, l, a) \/ Goto(p, l),
         toShut' \in [Procs -> SUBSET Ids], calls' \in Nat, sent' \in Seq(Packet)
  PROVE  ThreadTypeOK'
BY DEF ThreadTypeOK, Goto, GotoWith

LEMMA MarkTypes ==
  ASSUME StreamTypeOK, NEW s \in Ids, MarkClosed(s),
         UNCHANGED <<queueVars, nextMessageId, writeLock>>
  PROVE  StreamTypeOK'
<1>1. Len(unprocessed[s]) \in Nat
  BY DEF StreamTypeOK
<1>2. closed' \in [Ids -> BOOLEAN] /\ backlog' \in [Ids -> Nat]
  BY <1>1 DEF MarkClosed, StreamTypeOK
<1> QED BY <1>2 DEF StreamTypeOK, queueVars

LEMMA CallTypes ==
  ASSUME TypeOK, NEW t \in Threads, CallStep(t)
  PROVE  TypeOK'
<1> USE DEF TypeOK
<1> DEFINE Moves == \E l \in PCs, a \in Packet : GotoWith(t, l, a) \/ Goto(t, l)
<1> t \in Procs /\ {"idle", "loop", "scan", "write", "register", "unblock", "close"} \subseteq PCs
  BY DEF Procs, PCs
<1> SHUTDOWN \in Packet /\ 0 \in Ids /\ Ids \subseteq Nat
  BY MarkerType, IdsAssumption
<1>0. Return(t) => Moves
  BY DEF Return
<1> HIDE DEF Moves
<1>begun. ASSUME NEW op, Begin(t, op), Moves, ConnTypeOK', StreamTypeOK', AppTypeOK'
          PROVE  TypeOK'
  <2>1. ClientTypeOK' /\ calls' \in Nat /\ UNCHANGED <<sent, toShut>>
    BY <1>begun, ClientStutter DEF Begin, ThreadTypeOK
  <2> QED BY <1>begun, <2>1, ThreadMoves DEF Moves, ThreadTypeOK
<1>1. ASSUME ReceiveHandshake(t) PROVE TypeOK'
  <2> Pkt(0, 0, "hello") \in Packet
    BY PktType DEF AllKinds
  <2>1. ConnTypeOK' /\ StreamTypeOK'
    BY <1>1, ConnStutter, StreamStutter DEF ReceiveHandshake, StartRead, AtOnce
  <2>2. AppTypeOK'
    BY <1>1 DEF ReceiveHandshake, StartRead, AtOnce, AppTypeOK, appVars
  <2>3. Moves
    BY <1>0, <1>1 DEF ReceiveHandshake, StartRead, AtOnce, Moves
  <2> QED BY <1>1, <1>begun, <2>1, <2>2, <2>3 DEF ReceiveHandshake
<1>2. ASSUME NewStream(t) PROVE TypeOK'
  <2> 2 * nextStreamId \in Ids => Pkt(2 * nextStreamId, 0, "request") \in Packet
    BY PktType DEF AllKinds
  <2>1. StreamTypeOK' /\ AppTypeOK'
    BY <1>2, StreamStutter, AppStutter DEF NewStream, AtOnce
  <2>2. ConnTypeOK'
    <3>1. CASE AtOnce(t)
      BY <3>1, ConnStutter DEF AtOnce
    <3>2. CASE nextStreamId' = nextStreamId + 1
               /\ UNCHANGED <<running, handshakeDone, writerLock, streams, snapshot>>
      BY <3>2 DEF ConnTypeOK
    <3> QED BY <1>2, <3>1, <3>2 DEF NewStream
  <2>3. Moves
    <3>1. CASE AtOnce(t)
      BY <1>0, <3>1 DEF AtOnce
    <3>2. CASE 2 * nextStreamId \in Ids /\ GotoWith(t, "register", Pkt(2 * nextStreamId, 0, "request"))
      BY <3>2 DEF Moves
    <3> QED BY <1>2, <3>1, <3>2 DEF NewStream
  <2> QED BY <1>2, <1>begun, <2>1, <2>2, <2>3 DEF NewStream
<1>3. ASSUME Close(t) PROVE TypeOK'
  <2>1. ConnTypeOK' /\ StreamTypeOK' /\ AppTypeOK'
    BY <1>3, ConnStutter, StreamStutter, AppStutter DEF Close
  <2>2. Moves
    BY <1>3 DEF Close, Moves
  <2> QED BY <1>3, <1>begun, <2>1, <2>2 DEF Close
<1>4. ASSUME NEW s \in Ids, ReadRequest(t, s) PROVE TypeOK'
  <2> Pkt(s, 0, "request") \in Packet
    BY PktType DEF AllKinds
  <2>1. ConnTypeOK' /\ StreamTypeOK'
    BY <1>4, ConnStutter, StreamStutter DEF ReadRequest, StartRead
  <2>2. AppTypeOK'
    BY <1>4 DEF ReadRequest, StartRead, AppTypeOK
  <2>3. Moves
    BY <1>4 DEF ReadRequest, StartRead, Moves
  <2> QED BY <1>4, <1>begun, <2>1, <2>2, <2>3 DEF ReadRequest
<1>5. ASSUME NEW s \in Ids, SendRequest(t, s) PROVE TypeOK'
  <2> Pkt(s, nextMessageId[s], "request") \in Packet
    BY PktType DEF AllKinds, StreamTypeOK
  <2>1. ConnTypeOK' /\ AppTypeOK'
    BY <1>5, ConnStutter, AppStutter DEF SendRequest
  <2>2. StreamTypeOK'
    BY <1>5 DEF SendRequest, StreamTypeOK, queueVars
  <2>3. Moves
    BY <1>5 DEF SendRequest, Moves
  <2> QED BY <1>5, <1>begun, <2>1, <2>2, <2>3 DEF SendRequest
<1>6. ASSUME NEW s \in Ids, RegisterClientStream(t, s) PROVE TypeOK'
  <2> Pkt(s, 0, "request") \in Packet
    BY PktType DEF AllKinds
  <2>1. ConnTypeOK' /\ StreamTypeOK' /\ AppTypeOK'
    BY <1>6, ConnStutter, StreamStutter, AppStutter DEF RegisterClientStream, AtOnce
  <2>2. Moves
    BY <1>0, <1>6 DEF RegisterClientStream, AtOnce, Moves
  <2> QED BY <1>6, <1>begun, <2>1, <2>2 DEF RegisterClientStream
<1>7. ASSUME NEW s \in Ids, CloseStream(t, s) PROVE TypeOK'
  <2> Pkt(s, CLOSE_STREAM_MESSAGE_ID, "close") \in Packet
    BY PktType DEF AllKinds, CLOSE_STREAM_MESSAGE_ID
  <2>1. ConnTypeOK' /\ AppTypeOK'
    BY <1>7, ConnStutter, AppStutter DEF CloseStream, AtOnce
  <2>2. StreamTypeOK'
    BY <1>7, StreamStutter, MarkTypes DEF CloseStream, AtOnce
  <2>3. Moves
    BY <1>0, <1>7 DEF CloseStream, AtOnce, Moves
  <2> QED BY <1>7, <1>begun, <2>1, <2>2, <2>3 DEF CloseStream
<1>8. ASSUME NEW r \in pending, Get(t, r[1], r[2]) PROVE TypeOK'
  <2> r[1] \in Ids /\ r[2] \in Nat
    BY DEF Handle, AppTypeOK
  <2> Pkt(r[1], r[2], "reply") \in Packet
    BY PktType DEF AllKinds
  <2>1. ConnTypeOK' /\ StreamTypeOK'
    BY <1>8, ConnStutter, StreamStutter DEF Get, StartRead
  <2>2. AppTypeOK'
    BY <1>8 DEF Get, StartRead, AppTypeOK
  <2>3. Moves
    BY <1>8 DEF Get, StartRead, Moves
  <2> QED BY <1>8, <1>begun, <2>1, <2>2, <2>3 DEF Get
<1>9. ASSUME NEW r \in owed, WriteReply(t, r[1], r[2]) PROVE TypeOK'
  <2> r[1] \in Ids /\ r[2] \in Nat
    BY DEF Handle, AppTypeOK
  <2> Pkt(r[1], r[2], "reply") \in Packet
    BY PktType DEF AllKinds
  <2>1. ConnTypeOK' /\ StreamTypeOK'
    BY <1>9, ConnStutter, StreamStutter DEF WriteReply
  <2>2. AppTypeOK'
    BY <1>9 DEF WriteReply, AppTypeOK
  <2>3. Moves
    BY <1>9 DEF WriteReply, Moves
  <2> QED BY <1>9, <1>begun, <2>1, <2>2, <2>3 DEF WriteReply
<1> QED BY <1>1, <1>2, <1>3, <1>4, <1>5, <1>6, <1>7, <1>8, <1>9 DEF CallStep

\* Steps that make no call: Goto, GotoWith and Return all move the thread as
\* ThreadMoves has it.
LEMMA StepMoves ==
  ASSUME ThreadTypeOK, NEW p \in Procs, NEW l \in PCs,
         Return(p) \/ Goto(p, l),
         toShut' \in [Procs -> SUBSET Ids], UNCHANGED calls, sent' \in Seq(Packet)
  PROVE  ThreadTypeOK'
<1> {"idle", "loop"} \subseteq PCs /\ SHUTDOWN \in Packet
  BY MarkerType DEF PCs
<1>1. calls' \in Nat
  BY DEF ThreadTypeOK
<1>2. CASE Return(p)
  BY <1>1, <1>2, ThreadMoves DEF Return
<1>3. CASE Goto(p, l)
  BY <1>1, <1>3, ThreadMoves, MarkerType
<1> QED BY <1>2, <1>3

\* A get that finds nothing, and what a read raises behind it, change nothing but
\* the thread's place.
LEMMA EmptyEffect ==
  ASSUME NEW t, PollFindsNothing(t) \/ TimesOut(t) \/ RaiseClosed(t) \/ RaiseTimeout(t)
  PROVE  /\ UNCHANGED <<connVars, streamVars, clientVars, sent, toShut, calls, appVars>>
         /\ pc[t] \in {"polling", "waiting", "polled", "expired"}
         /\ Return(t) \/ Goto(t, "polled") \/ Goto(t, "expired")
BY DEF PollFindsNothing, TimesOut, Empty, RaiseClosed, RaiseTimeout, RaiseEmpty

LEMMA InnerTypes ==
  ASSUME TypeOK, NEW t \in Threads,
         InnerStep(t) \/ TimesOut(t) \/ RequestWritten(t)
  PROVE  TypeOK'
<1> USE DEF TypeOK
<1> DEFINE s == arg[t].stream
           p == Head(requests[s])
           q == Head(unprocessed[s])
<1> t \in Procs /\ {"scan", "polling", "waiting", "polled", "expired", "write", "idle"} \subseteq PCs
  BY DEF Procs, PCs
<1> arg[t] \in Packet /\ s \in Ids /\ arg[t].id \in Nat /\ 0 \in Ids
  BY PacketFields, IdsAssumption DEF ThreadTypeOK
<1>popped. ASSUME PopRequest(t, s, p)
           PROVE  /\ ConnTypeOK' /\ StreamTypeOK' /\ ClientTypeOK' /\ p \in Packet
                  /\ taken' \in [Ids -> Seq(Nat)] /\ UNCHANGED <<sent, toShut, calls>>
                  /\ UNCHANGED <<pending, consumer, told>>
  <2> requests[s] # <<>> /\ requests[s] \in Seq(Packet)
    BY <1>popped DEF PopRequest, Found, StreamTypeOK
  <2>1. p \in Packet /\ p.id \in Nat /\ Tail(requests[s]) \in Seq(Packet)
    BY HeadTail, PacketFields
  <2>2. ConnTypeOK' /\ ClientTypeOK'
    BY <1>popped, ConnStutter, ClientStutter DEF PopRequest
  <2>3. StreamTypeOK'
    BY <1>popped, <2>1 DEF PopRequest, StreamTypeOK
  <2>4. taken' \in [Ids -> Seq(Nat)]
    BY <1>popped, <2>1 DEF PopRequest, AppTypeOK
  <2> QED BY <1>popped, <2>1, <2>2, <2>3, <2>4 DEF PopRequest
<1>took. ASSUME NEW m, TakeNext(t, s, m)
         PROVE  /\ ConnTypeOK' /\ ClientTypeOK' /\ q \in Packet /\ m = q
                /\ closed' \in [Ids -> BOOLEAN] /\ unprocessed' \in [Ids -> Seq(Packet)]
                /\ backlog' \in [Ids -> Nat]
                /\ nextMessageId' \in [Ids -> Nat \ {0}]
                /\ writeLock' \in [Ids -> Threads \cup {Nobody}]
                /\ UNCHANGED <<sent, toShut, calls, owed, pending, consumer, taken>>
  <2> unprocessed[s] # <<>> /\ unprocessed[s] \in Seq(Packet)
    BY <1>took DEF TakeNext, StreamTypeOK
  <2>1. q \in Packet /\ Tail(unprocessed[s]) \in Seq(Packet)
    BY HeadTail
  <2>2. ConnTypeOK' /\ ClientTypeOK'
    BY <1>took, ConnStutter, ClientStutter DEF TakeNext
  <2>3. backlog' \in [Ids -> Nat]
    BY <1>took DEF TakeNext, StreamTypeOK
  <2> QED BY <1>took, <2>1, <2>2, <2>3 DEF TakeNext, StreamTypeOK
<1>1. ASSUME Register(t) PROVE TypeOK'
  <2>1. ClientTypeOK' /\ ThreadTypeOK'
    BY <1>1, ClientStutter, StepMoves DEF Register, AtOnce, ThreadTypeOK
  <2>2. AppTypeOK'
    BY <1>1, AppStutter DEF Register, AtOnce, MakeStream
  <2>3. ConnTypeOK'
    BY <1>1 DEF Register, AtOnce, MakeStream, ConnTypeOK, connVars
  <2>4. StreamTypeOK'
    <3>1. CASE AtOnce(t)
      BY <3>1, StreamStutter DEF AtOnce
    <3>2. CASE MakeStream(s)
      BY <3>2 DEF MakeStream, StreamTypeOK
    <3> QED BY <1>1, <3>1, <3>2 DEF Register
  <2> QED BY <2>1, <2>2, <2>3, <2>4
<1>2. ASSUME SetHandshakeDone(t) PROVE TypeOK'
  <2>1. StreamTypeOK' /\ ClientTypeOK' /\ AppTypeOK'
    BY <1>2, StreamStutter, ClientStutter, AppStutter DEF SetHandshakeDone
  <2>2. ConnTypeOK' /\ ThreadTypeOK'
    BY <1>2, StepMoves DEF SetHandshakeDone, ConnTypeOK, ThreadTypeOK
  <2> QED BY <2>1, <2>2
<1>3. ASSUME ReturnReply(t) PROVE TypeOK'
  <2>1. ConnTypeOK' /\ ClientTypeOK' /\ AppTypeOK'
    BY <1>3, ConnStutter, ClientStutter, AppStutter DEF ReturnReply
  <2>2. StreamTypeOK'
    BY <1>3 DEF ReturnReply, StreamTypeOK
  <2>3. ThreadTypeOK'
    BY <1>3, StepMoves DEF ReturnReply, ThreadTypeOK
  <2> QED BY <2>1, <2>2, <2>3
<1>4. ASSUME ReturnRequest(t) PROVE TypeOK'
  <2>1. PopRequest(t, s, p) /\ Return(t) /\ owed' = owed \cup {<<s, p.id>>}
    BY <1>4 DEF ReturnRequest
  <2>2. AppTypeOK'
    BY SMTT(30), <1>popped, <2>1, PacketFields DEF AppTypeOK, Handle
  <2>3. ThreadTypeOK'
    BY <1>popped, <2>1, StepMoves DEF ThreadTypeOK
  <2> QED BY <1>popped, <2>1, <2>2, <2>3
<1>5. ASSUME AnswerHandshake(t) PROVE TypeOK'
  <2>1. s = 0 /\ PopRequest(t, s, p)
    BY <1>5 DEF AnswerHandshake, PopRequest
  <2>2. AppTypeOK'
    BY <1>5, <1>popped, <2>1 DEF AnswerHandshake, AppTypeOK
  <2>3. Pkt(0, p.id, "greeting") \in Packet
    BY <1>popped, <2>1, PacketFields, PktType DEF AllKinds
  <2>4. ThreadTypeOK'
    BY <1>5, <1>popped, <2>1, <2>3, StepMoves, ThreadMoves DEF AnswerHandshake, ThreadTypeOK
  <2> QED BY <1>popped, <2>1, <2>2, <2>4
<1>6. ASSUME ChooseTimeout(t) PROVE TypeOK'
  <2>1. ConnTypeOK' /\ StreamTypeOK' /\ ClientTypeOK' /\ AppTypeOK'
    BY <1>6, ConnStutter, StreamStutter, ClientStutter, AppStutter DEF ChooseTimeout
  <2>2. ThreadTypeOK'
    BY <1>6, StepMoves DEF ChooseTimeout, ThreadTypeOK
  <2> QED BY <2>1, <2>2
<1>7. ASSUME TakeMarker(t) PROVE TypeOK'
  <2>1. TakeNext(t, s, SHUTDOWN) /\ UNCHANGED <<requests, replies>>
    BY <1>7 DEF TakeMarker
  <2>2. StreamTypeOK'
    BY <1>took, <2>1 DEF StreamTypeOK
  <2>3. AppTypeOK'
    BY <1>7, <1>took, <2>1 DEF TakeMarker, AppTypeOK
  <2>4. ThreadTypeOK'
    BY SMTT(30), <1>7, <1>took, <2>1, StepMoves DEF TakeMarker, ThreadTypeOK
  <2> QED BY <1>took, <2>1, <2>2, <2>3, <2>4
<1>8. ASSUME TakePacket(t) PROVE TypeOK'
  <2>1. TakeNext(t, s, q)
    BY <1>8 DEF TakePacket
  <2>2. q \in Packet /\ q.id \in Nat
    BY SMTT(30), <1>took, <2>1, PacketFields
  <2>3. StreamTypeOK'
    <3>1. CASE UNCHANGED requests /\ replies' = [replies EXCEPT ![s] = @ \cup {q.id}]
      <4>1. replies[s] \cup {q.id} \in SUBSET Nat
        BY <2>2 DEF StreamTypeOK
      <4>2. replies' \in [Ids -> SUBSET Nat]
        BY <3>1, <4>1 DEF StreamTypeOK
      <4>3. requests' \in [Ids -> Seq(Packet)]
        BY <3>1 DEF StreamTypeOK
      <4> QED BY <1>took, <2>1, <4>2, <4>3 DEF StreamTypeOK
    <3>2. CASE UNCHANGED replies /\ requests' = [requests EXCEPT ![s] = Append(@, q)]
      <4>1. Append(requests[s], q) \in Seq(Packet)
        BY <2>2 DEF StreamTypeOK
      <4>2. requests' \in [Ids -> Seq(Packet)]
        BY <3>2, <4>1 DEF StreamTypeOK
      <4>3. replies' \in [Ids -> SUBSET Nat]
        BY SMTT(30), <3>2 DEF StreamTypeOK
      <4> QED BY <1>took, <2>1, <4>2, <4>3 DEF StreamTypeOK
    <3> QED BY <1>8, <3>1, <3>2 DEF TakePacket
  <2>4. AppTypeOK'
    BY SMTT(30), <1>8, <1>took, <2>1, AppStutter DEF TakePacket, appVars
  <2>5. ThreadTypeOK'
    BY <1>8, <1>took, <2>1, StepMoves DEF TakePacket, ThreadTypeOK
  <2> QED BY <1>took, <2>1, <2>3, <2>4, <2>5
<1>9. ASSUME PollFindsNothing(t) \/ TimesOut(t) \/ RaiseClosed(t) \/ RaiseTimeout(t)
      PROVE  TypeOK'
  <2>1. /\ UNCHANGED <<connVars, streamVars, clientVars, sent, toShut, calls, appVars>>
        /\ Return(t) \/ Goto(t, "polled") \/ Goto(t, "expired")
    BY <1>9, EmptyEffect
  <2>2. ConnTypeOK' /\ StreamTypeOK' /\ ClientTypeOK' /\ AppTypeOK'
    BY <2>1, ConnStutter, StreamStutter, ClientStutter, AppStutter
  <2>3. ThreadTypeOK'
    BY <2>1, StepMoves DEF ThreadTypeOK
  <2> QED BY <2>2, <2>3
<1>10. ASSUME RequestWritten(t) PROVE TypeOK'
  <2>1. ConnTypeOK' /\ ClientTypeOK'
    BY <1>10, ClientStutter DEF RequestWritten, Transmit, ConnTypeOK
  <2>2. StreamTypeOK'
    BY SMTT(30), <1>10 DEF RequestWritten, Transmit, StreamTypeOK, queueVars
  <2>3. AppTypeOK'
    BY SMTT(30), <1>10 DEF RequestWritten, Transmit, AppTypeOK, Handle
  <2>4. ThreadTypeOK'
    BY <1>10, StepMoves DEF RequestWritten, Transmit, ThreadTypeOK
  <2> QED BY <2>1, <2>2, <2>3, <2>4
<1> QED BY <1>1, <1>2, <1>3, <1>4, <1>5, <1>6, <1>7, <1>8, <1>9, <1>10 DEF InnerStep

LEMMA SharedTypes ==
  ASSUME TypeOK, NEW p \in Procs, SharedStep(p) \/ OtherWritten(p)
  PROVE  TypeOK'
<1> USE DEF TypeOK
<1> {"idle", "loop", "write", "sending", "greeted", "done", "fanout"} \subseteq PCs
  BY DEF PCs
<1> arg[p] \in Packet /\ arg[p].stream \in Ids /\ SHUTDOWN \in Packet
  BY PacketFields, MarkerType DEF ThreadTypeOK
<1>1. ASSUME Unblock(p) PROVE TypeOK'
  <2>1. ConnTypeOK' /\ ClientTypeOK' /\ AppTypeOK'
    BY <1>1, ConnStutter, ClientStutter, AppStutter DEF Unblock
  <2>2. StreamTypeOK'
    BY <1>1 DEF Unblock, Put, StreamTypeOK
  <2>3. ThreadTypeOK'
    BY <1>1, StepMoves DEF Unblock, ThreadTypeOK
  <2> QED BY <2>1, <2>2, <2>3
<1>2. ASSUME AcquireWriter(p) PROVE TypeOK'
  <2>1. StreamTypeOK' /\ ClientTypeOK' /\ AppTypeOK'
    BY <1>2, StreamStutter, ClientStutter, AppStutter DEF AcquireWriter
  <2>2. ConnTypeOK' /\ ThreadTypeOK'
    BY <1>2, StepMoves DEF AcquireWriter, ConnTypeOK, ThreadTypeOK
  <2> QED BY <2>1, <2>2
<1>3. ASSUME WriteFails(p) PROVE TypeOK'
  <2>1. ConnTypeOK' /\ ClientTypeOK' /\ AppTypeOK'
    BY <1>3, ClientStutter, AppStutter DEF WriteFails, ConnTypeOK
  <2>2. StreamTypeOK'
    BY <1>3 DEF WriteFails, StreamTypeOK, queueVars
  <2>3. ThreadTypeOK'
    BY <1>3, StepMoves DEF WriteFails, ThreadTypeOK
  <2> QED BY <2>1, <2>2, <2>3
<1>4. ASSUME CloseUnderLock(p) PROVE TypeOK'
  <2>1. StreamTypeOK' /\ ClientTypeOK' /\ AppTypeOK'
    BY <1>4, StreamStutter, ClientStutter, AppStutter DEF CloseUnderLock
  <2>2. ConnTypeOK' /\ toShut' \in [Procs -> SUBSET Ids]
    BY <1>4 DEF CloseUnderLock, ConnTypeOK, ThreadTypeOK
  <2>3. ThreadTypeOK'
    BY <1>4, <2>2, StepMoves DEF CloseUnderLock, LeaveClose, ThreadTypeOK
  <2> QED BY <2>1, <2>2, <2>3
<1>5. ASSUME NEW s \in Ids, ShutStream(p, s) PROVE TypeOK'
  <2>1. ConnTypeOK' /\ ClientTypeOK' /\ AppTypeOK'
    BY <1>5, ConnStutter, ClientStutter, AppStutter DEF ShutStream
  <2>2. toShut' \in [Procs -> SUBSET Ids]
    BY <1>5 DEF ShutStream, ThreadTypeOK
  <2>4. StreamTypeOK'
    <3>1. CASE Put(s, SHUTDOWN)
      BY <1>5, <3>1 DEF ShutStream, Put, StreamTypeOK
    <3>2. CASE UNCHANGED unprocessed
      BY <1>5, <3>2 DEF ShutStream, StreamTypeOK
    <3> QED BY <1>5, <3>1, <3>2 DEF ShutStream
  <2>3. ThreadTypeOK'
    BY <1>5, <2>2, StepMoves DEF ShutStream, LeaveClose, ThreadTypeOK
  <2> QED BY <2>1, <2>3, <2>4
<1>6. ASSUME OtherWritten(p) PROVE TypeOK'
  <2>1. ConnTypeOK' /\ ClientTypeOK'
    BY <1>6, ClientStutter DEF OtherWritten, Transmit, ConnTypeOK
  <2>2. StreamTypeOK' /\ AppTypeOK'
    BY <1>6, StreamStutter, AppStutter DEF OtherWritten, Transmit, streamVars, appVars
  <2>3. ThreadTypeOK'
    BY <1>6, StepMoves DEF OtherWritten, Transmit, ThreadTypeOK
  <2> QED BY <2>1, <2>2, <2>3
<1> QED BY <1>1, <1>2, <1>3, <1>4, <1>5, <1>6 DEF SharedStep

LEMMA ReaderTypes ==
  ASSUME TypeOK, ReaderStep \/ ReadInterrupted
  PROVE  TypeOK'
<1> USE DEF TypeOK, ReaderStep, At
<1> Reader \in Procs /\ {"loop", "read", "dispatch", "put", "unblock", "write", "close", "done"} \subseteq PCs
  BY DEF Procs, PCs
<1> Arrived \in Packet /\ Arrived.stream \in Ids /\ Arrived.id \in Nat
  BY PacketFields DEF ThreadTypeOK, Arrived
<1>1. UNCHANGED <<connVars, appVars, sent, toShut, calls>> /\ ConnTypeOK' /\ AppTypeOK'
  BY ConnStutter, AppStutter DEF ReaderLoop, ReceivePacket, ReadFails, Refuse, IgnoreClose,
     PeerCloses, Accept, PutPacket, ReadInterrupted
<1>2. ClientTypeOK'
  BY HeadTail DEF ReaderLoop, ReceivePacket, ReadFails, Refuse, IgnoreClose,
     PeerCloses, Accept, PutPacket, ReadInterrupted, ClientTypeOK
<1>3. StreamTypeOK'
  <2>1. CASE PeerCloses
    <3>1. MarkClosed(Arrived.stream) /\ UNCHANGED <<queueVars, nextMessageId, writeLock>>
      BY <2>1 DEF PeerCloses, queueVars
    <3> QED BY <3>1, MarkTypes
  <2>2. CASE PutPacket
    <3>1. unprocessed' \in [Ids -> Seq(Packet)]
      BY <2>2 DEF PutPacket, Put, StreamTypeOK
    <3> QED BY <2>2, <3>1 DEF PutPacket, StreamTypeOK
  <2>3. CASE ReaderLoop \/ ReceivePacket \/ ReadFails \/ Refuse \/ IgnoreClose \/ Accept
             \/ ReadInterrupted
    BY <2>3, StreamStutter DEF ReaderLoop, ReceivePacket, ReadFails, Refuse, IgnoreClose, Accept,
       ReadInterrupted, streamVars, queueVars
  <2> QED BY <2>1, <2>2, <2>3
<1>4. ThreadTypeOK'
  <2> toShut' \in [Procs -> SUBSET Ids] /\ calls' \in Nat /\ sent' \in Seq(Packet)
    BY <1>1 DEF ThreadTypeOK
  <2>1. CASE ReceivePacket
    <3> Head(pipeIn) \in Packet
      BY <2>1, HeadTail DEF ReceivePacket, ClientTypeOK
    <3> QED BY <2>1, ThreadMoves DEF ReceivePacket
  <2>2. CASE Refuse
    <3> Pkt(Arrived.stream, Arrived.id, "error") \in Packet
      BY PktType DEF AllKinds
    <3> QED BY <1>1, <2>2, ThreadMoves, StepMoves DEF Refuse
  <2>3. CASE ReaderLoop \/ ReadFails \/ IgnoreClose \/ PeerCloses \/ Accept \/ PutPacket \/ ReadInterrupted
    BY <1>1, <2>3, StepMoves DEF ReaderLoop, ReadFails, IgnoreClose, PeerCloses, Accept,
       PutPacket, ReadInterrupted
  <2> QED BY <2>1, <2>2, <2>3
<1> QED BY <1>1, <1>2, <1>3, <1>4

LEMMA ClientTypes ==
  ASSUME TypeOK, ClientStep
  PROVE  TypeOK'
<1> USE DEF TypeOK
<1>written. ASSUME NEW p \in Packet, ClientWrites(p)
            PROVE  /\ pipeIn' \in Seq(Packet) /\ clientWrote' \in Nat /\ peerOpen' \in BOOLEAN
                   /\ ServerUnchanged
  BY <1>written DEF ClientWrites, ClientTypeOK
<1>server. ServerUnchanged => ConnTypeOK' /\ StreamTypeOK' /\ AppTypeOK' /\ ThreadTypeOK'
  BY ConnStutter, StreamStutter, AppStutter DEF ServerUnchanged, ThreadTypeOK
<1>1. ASSUME NEW s \in Ids, NEW k \in {"hello", "request"}, ClientRequest(s, k) PROVE TypeOK'
  <2> clientNext[s] \in Nat /\ Pkt(s, clientNext[s], k) \in Packet
    BY PktType DEF AllKinds, ClientTypeOK
  <2> QED BY <1>1, <1>written, <1>server DEF ClientRequest, ClientTypeOK
<1>2. ASSUME NEW s \in Ids, NEW k \in {"close", "badclose", "corrupt"}, ClientOther(s, k) PROVE TypeOK'
  <2> Pkt(s, CLOSE_STREAM_MESSAGE_ID, k) \in Packet
    BY PktType DEF AllKinds, CLOSE_STREAM_MESSAGE_ID
  <2> QED BY <1>2, <1>written, <1>server DEF ClientOther, ClientTypeOK
<1>3. ASSUME NEW i \in 1..Len(sent), ClientReplies(sent[i]) PROVE TypeOK'
  <2> sent[i].stream \in Ids /\ sent[i].id \in Nat
    BY PacketFields DEF ThreadTypeOK
  <2> Pkt(sent[i].stream, sent[i].id, "reply") \in Packet
    BY PktType DEF AllKinds
  <2> QED BY <1>3, <1>written, <1>server DEF ClientReplies, ClientTypeOK, Handle
<1>4. ASSUME Disconnect PROVE TypeOK'
  BY <1>4, <1>server DEF Disconnect, ClientTypeOK
<1> QED BY <1>1, <1>2, <1>3, <1>4 DEF ClientStep

LEMMA InitTypes == Init => TypeOK
<1> SUFFICES ASSUME Init PROVE TypeOK
  OBVIOUS
<1> 0 \in Ids /\ Reader \in Procs /\ {"loop", "idle"} \subseteq PCs
  BY IdsAssumption DEF Procs, PCs
<1> USE DEF Init, ConnInit, StreamInit, ThreadInit
<1>1. ConnTypeOK /\ ClientTypeOK
  BY DEF ConnTypeOK, ClientTypeOK
<1>2. StreamTypeOK
  BY DEF StreamTypeOK
<1>3. ThreadTypeOK /\ AppTypeOK
  BY MarkerType DEF ThreadTypeOK, AppTypeOK
<1> QED BY <1>1, <1>2, <1>3 DEF TypeOK

LEMMA NextTypes == TypeOK /\ [Next]_vars => TypeOK'
<1> SUFFICES ASSUME TypeOK, [Next]_vars PROVE TypeOK'
  OBVIOUS
<1>1. CASE Next
  BY <1>1, CallTypes, InnerTypes, SharedTypes, ReaderTypes, ClientTypes DEF Next
<1>2. CASE UNCHANGED vars
  BY <1>2, ConnStutter, StreamStutter, ClientStutter, AppStutter DEF vars, TypeOK, ThreadTypeOK
<1> QED BY <1>1, <1>2

\* Every reachable state of every instance is well typed; in particular a message
\* id never falls back to 0, the id of a close packet.
THEOREM TypeCorrect == Spec => []TypeOK
BY InitTypes, NextTypes, PTL DEF Spec

-----------------------------------------------------------------------------
(* What the steps of each actor leave alone.                               *)

\* Thread p goes to a place among Ls, and no other thread's arg changes.
Moved(p, Ls) ==
  /\ \E l \in Ls : pc' = [pc EXCEPT ![p] = l]
  /\ \A q \in Procs \ {p} : arg'[q] = arg[q]

LEMMA MovedBy ==
  ASSUME TypeOK, NEW p \in Procs, NEW Ls, NEW l \in Ls,
         Goto(p, l) \/ \E a : GotoWith(p, l, a)
  PROVE  Moved(p, Ls)
BY DEF Goto, GotoWith, Moved, TypeOK, ThreadTypeOK

LEMMA ReturnMoves ==
  ASSUME TypeOK, NEW p \in Procs, Return(p)
  PROVE  Moved(p, IF p = Reader THEN {"loop"} ELSE {"idle"})
BY DEF Return, GotoWith, Moved, TypeOK, ThreadTypeOK

LEMMA ReturnMovesAmong ==
  ASSUME TypeOK, NEW p \in Procs, NEW Ls, {"loop", "idle"} \subseteq Ls, Return(p)
  PROVE  Moved(p, Ls)
BY DEF Return, GotoWith, Moved, TypeOK, ThreadTypeOK

CallPlaces == {"idle", "scan", "write", "register", "unblock", "close"}

LEMMA CallEffect ==
  ASSUME TypeOK, NEW t \in Threads, CallStep(t)
  PROVE  /\ Moved(t, CallPlaces) /\ pc[t] = "idle"
         /\ UNCHANGED <<running, writerLock, streams, snapshot, unprocessed, toShut, told>>
<1> USE DEF CallPlaces, Begin, AtOnce, StartRead, connVars, streamVars, queueVars, appVars
<1> t \in Procs /\ t # Reader
  BY ThreadsAssumption DEF Procs
<1>1. Return(t) => Moved(t, CallPlaces)
  BY DEF Return, GotoWith, Moved, TypeOK, ThreadTypeOK
<1>2. ASSUME ReceiveHandshake(t) \/ NewStream(t) \/ Close(t)
      PROVE  /\ Moved(t, CallPlaces) /\ pc[t] = "idle"
             /\ UNCHANGED <<running, writerLock, streams, snapshot, unprocessed, toShut, told>>
  <2>1. CASE ReceiveHandshake(t)
    BY <1>1, <2>1, MovedBy DEF ReceiveHandshake
  <2>2. CASE NewStream(t)
    BY <1>1, <2>2, MovedBy DEF NewStream
  <2>3. CASE Close(t)
    BY <2>3, MovedBy DEF Close
  <2> QED BY <1>2, <2>1, <2>2, <2>3
<1>3. ASSUME NEW s \in Ids,
             ReadRequest(t, s) \/ SendRequest(t, s) \/ RegisterClientStream(t, s) \/ CloseStream(t, s)
      PROVE  /\ Moved(t, CallPlaces) /\ pc[t] = "idle"
             /\ UNCHANGED <<running, writerLock, streams, snapshot, unprocessed, toShut, told>>
  <2>1. CASE ReadRequest(t, s)
    BY <2>1, MovedBy DEF ReadRequest
  <2>2. CASE SendRequest(t, s)
    BY <2>2, MovedBy DEF SendRequest
  <2>3. CASE RegisterClientStream(t, s)
    BY <1>1, <2>3, MovedBy DEF RegisterClientStream
  <2>4. CASE CloseStream(t, s)
    BY <1>1, <2>4, MovedBy DEF CloseStream
  <2> QED BY <1>3, <2>1, <2>2, <2>3, <2>4
<1>4. ASSUME NEW s, NEW m, Get(t, s, m) \/ WriteReply(t, s, m)
      PROVE  /\ Moved(t, CallPlaces) /\ pc[t] = "idle"
             /\ UNCHANGED <<running, writerLock, streams, snapshot, unprocessed, toShut, told>>
  BY <1>4, MovedBy DEF Get, WriteReply
<1> QED BY <1>2, <1>3, <1>4 DEF CallStep

InnerPlaces == {"idle", "scan", "write", "polling", "waiting", "polled", "expired"}

LEMMA InnerEffect ==
  ASSUME TypeOK, NEW t \in Threads, InnerStep(t) \/ TimesOut(t)
  PROVE  /\ Moved(t, InnerPlaces) /\ pc[t] \notin {"idle", "unblock", "fanout", "write", "sending"}
         /\ UNCHANGED <<running, writerLock, snapshot, toShut, pending>>
         /\ told \subseteq told'
<1> USE DEF InnerPlaces, AtOnce, connVars, streamVars, queueVars, appVars
<1> t \in Procs /\ t # Reader
  BY ThreadsAssumption DEF Procs
<1>1. Return(t) => Moved(t, InnerPlaces)
  BY DEF Return, GotoWith, Moved, TypeOK, ThreadTypeOK
<1>2. CASE Register(t) \/ SetHandshakeDone(t) \/ ReturnReply(t)
  BY <1>1, <1>2 DEF Register, MakeStream, SetHandshakeDone, ReturnReply
<1>3. CASE ReturnRequest(t)
  BY <1>1, <1>3 DEF ReturnRequest, PopRequest
<1>4. CASE AnswerHandshake(t)
  BY <1>1, <1>4, MovedBy DEF AnswerHandshake, PopRequest
<1>5. CASE ChooseTimeout(t)
  <2>1. Goto(t, "polling") \/ Goto(t, "waiting")
    BY <1>5 DEF ChooseTimeout
  <2> QED BY <1>5, <2>1, MovedBy DEF ChooseTimeout
<1>6. CASE TakeMarker(t)
  BY <1>1, <1>6 DEF TakeMarker, TakeNext
<1>7. CASE TakePacket(t)
  BY <1>7, MovedBy DEF TakePacket, TakeNext
<1>8. CASE PollFindsNothing(t) \/ TimesOut(t) \/ RaiseClosed(t) \/ RaiseTimeout(t)
  BY <1>1, <1>8, MovedBy, EmptyEffect
<1> QED BY <1>2, <1>3, <1>4, <1>5, <1>6, <1>7, <1>8 DEF InnerStep

ReaderPlaces == {"loop", "read", "dispatch", "put", "unblock", "write", "close", "done"}

LEMMA ReaderEffect ==
  ASSUME TypeOK, ReaderStep \/ ReadInterrupted
  PROVE  /\ Moved(Reader, ReaderPlaces) /\ pc[Reader] \notin {"unblock", "fanout", "write", "sending"}
         /\ UNCHANGED <<running, writerLock, streams, snapshot, toShut, told, pending>>
<1> USE DEF ReaderPlaces, At, connVars, appVars
<1> Reader \in Procs
  BY DEF Procs
<1>1. Return(Reader) => Moved(Reader, ReaderPlaces)
  BY DEF Return, GotoWith, Moved, TypeOK, ThreadTypeOK
<1>2. CASE ReaderLoop \/ ReadFails \/ ReadInterrupted
  <2>1. Goto(Reader, "read") \/ Goto(Reader, "done") \/ Goto(Reader, "close")
    BY <1>2 DEF ReaderLoop, ReadFails, ReadInterrupted
  <2>2. Moved(Reader, ReaderPlaces)
    BY <2>1, MovedBy
  <2> QED BY <1>2, <2>2 DEF ReaderLoop, ReadFails, ReadInterrupted
<1>3. CASE ReceivePacket \/ Refuse
  <2>1. Moved(Reader, ReaderPlaces)
    BY <1>1, <1>3, MovedBy DEF ReceivePacket, Refuse
  <2> QED BY <1>3, <2>1 DEF ReceivePacket, Refuse
<1>4. CASE IgnoreClose \/ PeerCloses \/ Accept \/ PutPacket
  <2>1. Moved(Reader, ReaderPlaces)
    BY <1>1, <1>4, MovedBy DEF IgnoreClose, PeerCloses, Accept, PutPacket
  <2> QED BY <1>4, <2>1 DEF IgnoreClose, PeerCloses, Accept, PutPacket
<1> QED BY <1>2, <1>3, <1>4 DEF ReaderStep

LEMMA ClientEffect == ClientStep => ServerUnchanged
BY DEF ClientStep, ClientRequest, ClientReplies, ClientOther, ClientWrites, Disconnect
-----------------------------------------------------------------------------
(* Only the holder of the writer lock writes, and only while it runs.      *)

LEMMA WriterNext ==
  ASSUME TypeOK, WriterInv, [Next]_vars
  PROVE  WriterInv'
<1> USE DEF WriterInv, TypeOK, ThreadTypeOK
<1>frame. ASSUME NEW p \in Procs, NEW l, l # "sending", pc' = [pc EXCEPT ![p] = l],
                 UNCHANGED <<running, writerLock>>
          PROVE  WriterInv'
  BY <1>frame
<1>1. ASSUME NEW t \in Threads, CallStep(t) PROVE WriterInv'
  BY <1>1, <1>frame, CallEffect DEF Moved, CallPlaces, Procs
<1>2. ASSUME NEW t \in Threads, InnerStep(t) \/ TimesOut(t) PROVE WriterInv'
  BY <1>2, <1>frame, InnerEffect DEF Moved, InnerPlaces, Procs
<1>3. ASSUME NEW p \in Procs, Transmit(p), NEW l, l # "sending", pc' = [pc EXCEPT ![p] = l]
      PROVE  WriterInv'
  BY <1>3 DEF Transmit
<1>4. ASSUME NEW t \in Threads, RequestWritten(t) PROVE WriterInv'
  <2>1. pc' = [pc EXCEPT ![t] = "idle"]
    BY <1>4, ThreadsAssumption DEF RequestWritten, Return, GotoWith
  <2> QED BY <1>3, <1>4, <2>1 DEF RequestWritten, Procs
<1>5. ASSUME NEW p \in Procs, OtherWritten(p) PROVE WriterInv'
  <2>1. \E l \in {"greeted", "idle", "loop"} : pc' = [pc EXCEPT ![p] = l]
    BY <1>5 DEF OtherWritten, Return, GotoWith, Goto
  <2> QED BY <1>3, <1>5, <2>1 DEF OtherWritten
<1>6. ASSUME NEW p \in Procs, Unblock(p) PROVE WriterInv'
  <2>1. \E l \in {"write", "idle", "loop"} : pc' = [pc EXCEPT ![p] = l]
    BY <1>6 DEF Unblock, Return, GotoWith, Goto
  <2> QED BY <1>frame, <1>6, <2>1 DEF Unblock, connVars
<1>7. ASSUME NEW p \in Procs, AcquireWriter(p) PROVE WriterInv'
  BY <1>7, ThreadsAssumption DEF AcquireWriter, Goto, Procs
<1>8. ASSUME NEW p \in Procs, WriteFails(p) PROVE WriterInv'
  <2>1. \E l \in {"idle", "loop"} : pc' = [pc EXCEPT ![p] = l]
    BY <1>8 DEF WriteFails, Return, GotoWith
  <2> QED BY <1>8, <2>1 DEF WriteFails
<1>9. ASSUME NEW p \in Procs, CloseUnderLock(p) PROVE WriterInv'
  <2>1. \E l \in {"idle", "loop", "done", "fanout"} : pc' = [pc EXCEPT ![p] = l]
    BY <1>9 DEF CloseUnderLock, LeaveClose, Return, GotoWith, Goto
  <2>2. \A q \in Procs : pc[q] # "sending"
    BY <1>9, ThreadsAssumption DEF CloseUnderLock, Procs
  <2> QED BY <2>1, <2>2
<1>10. ASSUME NEW p \in Procs, NEW s, ShutStream(p, s) PROVE WriterInv'
  <2>1. \E l \in {"idle", "loop", "done", "fanout"} : pc' = [pc EXCEPT ![p] = l]
    BY <1>10 DEF ShutStream, LeaveClose, Return, GotoWith, Goto
  <2> QED BY <1>frame, <1>10, <2>1 DEF ShutStream, connVars
<1>11. ASSUME ReaderStep \/ ReadInterrupted PROVE WriterInv'
  BY <1>11, <1>frame, ReaderEffect DEF Moved, ReaderPlaces, Procs
<1>12. CASE ClientStep \/ UNCHANGED vars
  BY <1>12, ClientEffect DEF ServerUnchanged, connVars, vars
<1> QED BY <1>1, <1>2, <1>4, <1>5, <1>6, <1>7, <1>8, <1>9, <1>10, <1>11, <1>12 DEF Next, SharedStep

-----------------------------------------------------------------------------
(* A closed stream, and one in the snapshot, was registered.               *)

LEMMA FreshNext ==
  ASSUME TypeOK, FreshInv, [Next]_vars
  PROVE  FreshInv'
<1> USE DEF FreshInv, TypeOK, StreamTypeOK, ConnTypeOK
<1>frame. ASSUME UNCHANGED <<closed, snapshot>>, streams \subseteq streams' PROVE FreshInv'
  BY <1>frame
<1>mark. ASSUME NEW s \in streams, closed' = [closed EXCEPT ![s] = TRUE],
                UNCHANGED <<snapshot, streams>>
         PROVE  FreshInv'
  BY <1>mark
<1>1. ASSUME NEW t \in Threads, CallStep(t) PROVE FreshInv'
  <2>1. UNCHANGED closed \/ \E s \in streams : closed' = [closed EXCEPT ![s] = TRUE]
    BY <1>1 DEF CallStep, ReceiveHandshake, NewStream, Close, ReadRequest, SendRequest,
       RegisterClientStream, CloseStream, Get, WriteReply, StartRead, AtOnce, streamVars, MarkClosed
  <2> QED BY <1>1, <1>frame, <1>mark, <2>1, CallEffect
<1>2. ASSUME NEW t \in Threads, InnerStep(t) \/ TimesOut(t) PROVE FreshInv'
  <2>1. CASE Register(t)
    BY SMTT(30), <2>1, <1>frame DEF Register, AtOnce, MakeStream, connVars, streamVars
  <2>2. CASE PollFindsNothing(t) \/ TimesOut(t) \/ RaiseClosed(t) \/ RaiseTimeout(t)
    BY <1>frame, <2>2, EmptyEffect DEF connVars, streamVars
  <2>3. CASE SetHandshakeDone(t) \/ ReturnReply(t) \/ ReturnRequest(t) \/ AnswerHandshake(t)
             \/ ChooseTimeout(t) \/ TakeMarker(t) \/ TakePacket(t)
    <3>1. UNCHANGED <<closed, snapshot, streams>>
      BY <2>3 DEF SetHandshakeDone, ReturnReply, ReturnRequest, PopRequest, AnswerHandshake,
         ChooseTimeout, TakeMarker, TakePacket, TakeNext, connVars, streamVars
    <3> QED BY Zenon, <1>frame, <3>1
  <2> QED BY <1>2, <2>1, <2>2, <2>3 DEF InnerStep
<1>3. ASSUME NEW t \in Threads, RequestWritten(t) PROVE FreshInv'
  BY <1>3, <1>frame DEF RequestWritten, Transmit
<1>4. ASSUME NEW p \in Procs, SharedStep(p) \/ OtherWritten(p) PROVE FreshInv'
  <2>1. CASE CloseUnderLock(p)
    BY <2>1 DEF CloseUnderLock, streamVars
  <2>2. CASE ~CloseUnderLock(p)
    BY <1>4, <1>frame, <2>2 DEF SharedStep, OtherWritten, Transmit, Unblock, AcquireWriter, WriteFails,
       ShutStream, connVars, streamVars
  <2> QED BY <2>1, <2>2
<1>5. ASSUME ReaderStep \/ ReadInterrupted PROVE FreshInv'
  <2>1. UNCHANGED closed \/ \E s \in streams : closed' = [closed EXCEPT ![s] = TRUE]
    BY <1>5 DEF ReaderStep, ReaderLoop, ReceivePacket, ReadFails, Refuse, IgnoreClose, PeerCloses,
       Accept, PutPacket, ReadInterrupted, MarkClosed
  <2> QED BY <1>5, <1>frame, <1>mark, <2>1, ReaderEffect
<1>6. CASE ClientStep \/ UNCHANGED vars
  BY <1>6, <1>frame, ClientEffect DEF ServerUnchanged, connVars, streamVars, vars
<1> QED BY <1>1, <1>2, <1>3, <1>4, <1>5, <1>6 DEF Next
-----------------------------------------------------------------------------
(* A request is made on a stream the close will find registered.           *)

LEMMA RequestNext ==
  ASSUME TypeOK, WriterInv, RequestInv, [Next]_vars
  PROVE  RequestInv'
<1> USE DEF RequestInv, Reached, Requesting, AwaitingReply
<1> pc \in [Procs -> PCs] /\ arg \in [Procs -> Packet] /\ Threads \subseteq Procs
  BY DEF TypeOK, ThreadTypeOK, Procs
<1>frame. ASSUME NEW p \in Procs, NEW Ls, Moved(p, Ls), UNCHANGED <<running, snapshot>>,
                 streams \subseteq streams', pending' \subseteq pending,
                 p \in Threads => (Requesting(p) => arg[p].stream \in streams)',
                 p \in Threads => (AwaitingReply(p) => Reached(arg[p].stream))'
          PROVE  RequestInv'
  BY <1>frame DEF Moved
<1>idle. ASSUME NEW p \in Procs, NEW l, l \notin {"scan", "polling", "waiting", "unblock", "write", "sending"},
                Moved(p, {l}), UNCHANGED <<running, snapshot>>,
                streams \subseteq streams', pending' \subseteq pending
         PROVE  RequestInv'
  BY <1>idle, <1>frame DEF Moved
<1>return. ASSUME NEW p \in Procs, Return(p), UNCHANGED <<running, snapshot>>,
                  streams \subseteq streams', pending' \subseteq pending
           PROVE  RequestInv'
  <2>1. Moved(p, {"loop"}) \/ Moved(p, {"idle"})
    BY <1>return, ReturnMoves
  <2> QED BY <1>idle, <1>return, <2>1
<1>stay. ASSUME NEW p \in Procs, NEW l, Goto(p, l), UNCHANGED <<running, snapshot>>,
                streams \subseteq streams', pending' \subseteq pending,
                l \in {"unblock", "write", "sending"} =>
                  pc[p] \in {"unblock", "write", "sending"} \/ arg[p].kind # "request",
                l \in {"scan", "polling", "waiting"} => pc[p] \in {"scan", "polling", "waiting"}
         PROVE  RequestInv'
  BY <1>stay DEF Goto
<1> USE DEF connVars, appVars
<1>1. ASSUME NEW t \in Threads, CallStep(t) PROVE RequestInv'
  <2>0. /\ t \in Procs /\ Moved(t, CallPlaces) /\ pc[t] = "idle"
        /\ UNCHANGED <<running, snapshot, streams>>
    BY <1>1, CallEffect
  <2>1. CASE ReceiveHandshake(t) \/ NewStream(t) \/ Close(t)
    <3>1. UNCHANGED pending
      BY <2>1 DEF ReceiveHandshake, NewStream, Close, StartRead, AtOnce
    <3>2. \/ Return(t) \/ GotoWith(t, "scan", Pkt(0, 0, "hello")) \/ Goto(t, "close")
          \/ \E a : GotoWith(t, "register", a)
      BY <2>1 DEF ReceiveHandshake, NewStream, Close, StartRead, AtOnce
    <3>3. CASE GotoWith(t, "scan", Pkt(0, 0, "hello"))
      BY <1>frame, <2>0, <3>1, <3>3 DEF GotoWith, Pkt
    <3>4. CASE Goto(t, "close") \/ \E a : GotoWith(t, "register", a)
      <4>1. Moved(t, {"close"}) \/ Moved(t, {"register"})
        BY <3>4, <2>0, MovedBy
      <4> QED BY <1>idle, <2>0, <3>1, <4>1
    <3> QED BY <1>return, <2>0, <3>1, <3>2, <3>3, <3>4
  <2>2. ASSUME NEW s \in Ids, ReadRequest(t, s) PROVE RequestInv'
    BY <1>frame, <2>0, <2>2 DEF ReadRequest, StartRead, GotoWith, Pkt
  <2>3. ASSUME NEW s \in Ids, SendRequest(t, s) PROVE RequestInv'
    BY <1>frame, <2>0, <2>3 DEF SendRequest, GotoWith, Pkt
  <2>4. ASSUME NEW s \in Ids, RegisterClientStream(t, s) \/ CloseStream(t, s) PROVE RequestInv'
    <3>1. UNCHANGED pending
      BY <2>4 DEF RegisterClientStream, CloseStream, AtOnce
    <3>2. \/ Return(t) \/ \E a : GotoWith(t, "register", a)
          \/ GotoWith(t, "unblock", Pkt(s, CLOSE_STREAM_MESSAGE_ID, "close"))
      BY <2>4 DEF RegisterClientStream, CloseStream, AtOnce
    <3>3. CASE \E a : GotoWith(t, "register", a)
      <4>1. Moved(t, {"register"})
        BY <3>3, <2>0, MovedBy
      <4> QED BY <1>idle, <2>0, <3>1, <4>1
    <3>4. CASE GotoWith(t, "unblock", Pkt(s, CLOSE_STREAM_MESSAGE_ID, "close"))
      BY <1>frame, <2>0, <3>1, <3>4 DEF GotoWith, Pkt
    <3> QED BY <1>return, <2>0, <3>1, <3>2, <3>3, <3>4
  <2>5. ASSUME NEW r \in pending, Get(t, r[1], r[2]) PROVE RequestInv'
    <3>1. Reached(r[1])
      OBVIOUS
    <3> QED BY <1>frame, <2>0, <2>5, <3>1 DEF Get, StartRead, GotoWith, Pkt
  <2>6. ASSUME NEW r \in owed, WriteReply(t, r[1], r[2]) PROVE RequestInv'
    BY SMTT(30), <1>frame, <2>0, <2>6 DEF WriteReply, GotoWith, Pkt
  <2> QED BY <1>1, <2>1, <2>2, <2>3, <2>4, <2>5, <2>6 DEF CallStep
<1>2. ASSUME NEW t \in Threads, InnerStep(t) \/ TimesOut(t) PROVE RequestInv'
  <2>0. t \in Procs /\ Moved(t, InnerPlaces) /\ UNCHANGED <<running, snapshot, pending>>
    BY SMTT(30), <1>2, InnerEffect
  <2>1. streams \subseteq streams'
    <3>1. CASE PollFindsNothing(t) \/ TimesOut(t) \/ RaiseClosed(t) \/ RaiseTimeout(t)
      BY <3>1, EmptyEffect
    <3>2. CASE Register(t)
      BY <3>2 DEF Register, AtOnce, MakeStream
    <3>3. CASE SetHandshakeDone(t) \/ ReturnReply(t) \/ ReturnRequest(t) \/ AnswerHandshake(t)
               \/ ChooseTimeout(t) \/ TakeMarker(t) \/ TakePacket(t)
      BY <3>3 DEF SetHandshakeDone, ReturnReply, ReturnRequest, PopRequest, AnswerHandshake,
         ChooseTimeout, TakeMarker, TakePacket, TakeNext
    <3> QED BY <1>2, <3>1, <3>2, <3>3 DEF InnerStep
  <2>2. CASE Return(t)
    BY <1>return, <2>0, <2>1, <2>2
  <2>3. CASE AnswerHandshake(t)
    <3>1. Return(t) \/ GotoWith(t, "write", Pkt(0, Head(requests[0]).id, "greeting"))
      BY <2>3 DEF AnswerHandshake
    <3>2. CASE GotoWith(t, "write", Pkt(0, Head(requests[0]).id, "greeting"))
      BY <1>frame, <2>0, <2>1, <3>2 DEF GotoWith, Pkt
    <3> QED BY <2>2, <3>1, <3>2
  <2>4. CASE ChooseTimeout(t) \/ TakePacket(t)
    <3>1. /\ Goto(t, "polling") \/ Goto(t, "waiting") \/ Goto(t, "scan")
          /\ pc[t] \in {"scan", "polling", "waiting"}
      BY <2>4 DEF ChooseTimeout, TakePacket, TakeNext
    <3> QED BY SMTT(30), <1>stay, <2>0, <2>1, <3>1
  <2>5. CASE PollFindsNothing(t) \/ TimesOut(t) \/ RaiseClosed(t) \/ RaiseTimeout(t)
    <3>1. Goto(t, "polled") \/ Goto(t, "expired") \/ Return(t)
      BY <2>5, EmptyEffect
    <3> QED BY <1>stay, <2>0, <2>1, <2>2, <3>1
  <2> QED BY <1>2, <2>2, <2>3, <2>4, <2>5 DEF InnerStep, Register, AtOnce, SetHandshakeDone,
             ReturnReply, ReturnRequest, TakeMarker
<1>3. ASSUME NEW t \in Threads, RequestWritten(t) PROVE RequestInv'
  <2>1. t \in Procs /\ Return(t) /\ pc[t] = "sending" /\ UNCHANGED <<running, snapshot, streams>>
    BY <1>3 DEF RequestWritten, Transmit
  <2>2. running /\ arg[t].stream \in streams
    BY <1>3, <2>1 DEF RequestWritten, WriterInv
  <2>3. pending' = pending \cup {<<arg[t].stream, arg[t].id>>}
    BY <1>3 DEF RequestWritten
  <2>4. \A r \in pending' : Reached(r[1])'
    BY <2>1, <2>2, <2>3
  <2> QED BY <2>1, <2>4, ReturnMoves, ThreadsAssumption DEF Moved
<1>4. ASSUME NEW p \in Procs, SharedStep(p) \/ OtherWritten(p) PROVE RequestInv'
  <2>1. CASE CloseUnderLock(p)
    <3>1. Moved(p, {"idle"}) \/ Moved(p, {"fanout"}) \/ Moved(p, {"loop"}) \/ Moved(p, {"done"})
      BY <2>1, MovedBy, ReturnMoves DEF CloseUnderLock, LeaveClose
    <3>2. UNCHANGED <<streams, pending>>
      BY <2>1 DEF CloseUnderLock
    <3>3. CASE ~running
      BY <1>idle, <2>1, <3>1, <3>2, <3>3 DEF CloseUnderLock
    <3>4. CASE running
      <4>1. running' = FALSE /\ snapshot' = streams
        BY <2>1, <3>4 DEF CloseUnderLock
      <4> QED BY <3>1, <3>2, <3>4, <4>1 DEF Moved
    <3> QED BY <3>3, <3>4
  <2>2. CASE ~CloseUnderLock(p)
    <3>1. UNCHANGED <<running, snapshot, streams, pending>>
      BY <1>4, <2>2 DEF SharedStep, OtherWritten, Transmit, Unblock, AcquireWriter, WriteFails, ShutStream
    <3>2. CASE Unblock(p)
      <4>1. CASE Return(p)
        BY <1>return, <3>1, <4>1
      <4>2. CASE Goto(p, "write")
        BY <1>stay, <3>1, <3>2, <4>2 DEF Unblock
      <4> QED BY <3>2, <4>1, <4>2 DEF Unblock
    <3>3. CASE AcquireWriter(p)
      BY <1>stay, <3>1, <3>3 DEF AcquireWriter
    <3>4. CASE WriteFails(p) \/ OtherWritten(p)
      <4>1. Return(p) \/ Goto(p, "greeted")
        BY <3>4 DEF WriteFails, OtherWritten
      <4> QED BY <1>return, <1>stay, <3>1, <4>1
    <3>5. ASSUME NEW s \in Ids, ShutStream(p, s) PROVE RequestInv'
      <4>1. Return(p) \/ Goto(p, "done") \/ Goto(p, "fanout")
        BY <3>5 DEF ShutStream, LeaveClose
      <4> QED BY <1>return, <1>stay, <3>1, <4>1
    <3> QED BY <1>4, <2>2, <3>2, <3>3, <3>4, <3>5 DEF SharedStep
  <2> QED BY <2>1, <2>2
<1>5. ASSUME ReaderStep \/ ReadInterrupted PROVE RequestInv'
  BY <1>5, <1>frame, ReaderEffect, ThreadsAssumption DEF Procs
<1>6. CASE ClientStep \/ UNCHANGED vars
  BY <1>6, ClientEffect DEF ServerUnchanged, vars
<1> QED BY <1>1, <1>2, <1>3, <1>4, <1>5, <1>6 DEF Next

-----------------------------------------------------------------------------
(* A stream that is closed or in the snapshot has its marker: queued, on    *)
(* its way, or taken.                                                       *)

LEMMA QueuedPut ==
  ASSUME TypeOK, NEW s \in Ids, NEW x \in Packet, Put(s, x)
  PROVE  /\ \A r \in Ids : Queued(r) => Queued(r)'
         /\ x = SHUTDOWN => Queued(s)'
<1> USE DEF Put, Queued
<1>1. unprocessed \in [Ids -> Seq(Packet)]
  BY DEF TypeOK, StreamTypeOK
<1>2. ASSUME NEW r \in Ids, Queued(r) PROVE Queued(r)'
  <2>1. CASE r = s
    <3>1. PICK i \in 1..Len(unprocessed[s]) : unprocessed[s][i] = SHUTDOWN
      BY <1>2, <2>1
    <3>2. unprocessed'[s] = Append(unprocessed[s], x)
      BY <1>1
    <3>3. i \in 1..Len(unprocessed'[s]) /\ unprocessed'[s][i] = SHUTDOWN
      BY <1>1, <3>1, <3>2
    <3> QED BY <2>1, <3>3
  <2>2. CASE r # s
    BY <1>1, <1>2, <2>2
  <2> QED BY <2>1, <2>2
<1>3. ASSUME x = SHUTDOWN PROVE Queued(s)'
  <2>1. unprocessed'[s] = Append(unprocessed[s], x)
    BY <1>1
  <2>2. Len(unprocessed'[s]) \in 1..Len(unprocessed'[s])
        /\ unprocessed'[s][Len(unprocessed'[s])] = SHUTDOWN
    BY <1>1, <1>3, <2>1
  <2> QED BY <2>2
<1> QED BY <1>2, <1>3

LEMMA QueuedTake ==
  ASSUME TypeOK, NEW t \in Threads, NEW s \in Ids, NEW p, TakeNext(t, s, p)
  PROVE  \A r \in Ids : Queued(r) => Queued(r)' \/ (r = s /\ p = SHUTDOWN)
<1> SUFFICES ASSUME NEW r \in Ids, Queued(r), ~(r = s /\ p = SHUTDOWN)
             PROVE  Queued(r)'
  OBVIOUS
<1> USE DEF TakeNext, Queued
<1>1. unprocessed \in [Ids -> Seq(Packet)]
  BY DEF TypeOK, StreamTypeOK
<1>2. CASE r # s
  BY <1>1, <1>2
<1>3. CASE r = s
  <2>1. PICK i \in 1..Len(unprocessed[r]) : unprocessed[r][i] = SHUTDOWN
    OBVIOUS
  <2>2. unprocessed'[r] = Tail(unprocessed[r]) /\ unprocessed[r] # <<>>
    BY <1>1, <1>3
  <2>3. i # 1
    BY <1>1, <1>3, <2>1
  <2>4. i - 1 \in 1..Len(unprocessed'[r]) /\ unprocessed'[r][i - 1] = SHUTDOWN
    BY <1>1, <2>1, <2>2, <2>3
  <2> QED BY <2>4
<1> QED BY <1>2, <1>3

\* A step of a thread that was not putting markers, and that takes none.
LEMMA DueFrame ==
  ASSUME TypeOK, DueInv, NEW p \in Procs, pc[p] \notin {"unblock", "fanout"}, NEW Ls, Moved(p, Ls),
         UNCHANGED <<snapshot, toShut>>, told \subseteq told',
         \A s \in Ids : Queued(s) => Queued(s)' \/ s \in told',
         \A s \in Ids : closed'[s] => closed[s] \/ Unblocking(s)'
  PROVE  DueInv'
<1> pc \in [Procs -> PCs]
  BY DEF TypeOK, ThreadTypeOK
<1>1. \A q \in Procs \ {p} : pc'[q] = pc[q] /\ arg'[q] = arg[q]
  BY DEF Moved
<1>2. \A s \in Ids : (Unblocking(s) => Unblocking(s)') /\ (InFanout(s) => InFanout(s)')
  BY <1>1 DEF Unblocking, InFanout
<1> QED BY <1>2 DEF DueInv, MarkerDue

LEMMA DueNext ==
  ASSUME TypeOK, FreshInv, DueInv, [Next]_vars
  PROVE  DueInv'
<1> USE DEF connVars, streamVars, queueVars, appVars
<1> pc \in [Procs -> PCs] /\ arg \in [Procs -> Packet] /\ Threads \subseteq Procs
  BY DEF TypeOK, ThreadTypeOK, Procs
<1> closed \in [Ids -> BOOLEAN] /\ unprocessed \in [Ids -> Seq(Packet)]
  BY DEF TypeOK, StreamTypeOK
<1>same. UNCHANGED unprocessed => \A s \in Ids : Queued(s) => Queued(s)'
  BY DEF Queued
<1>1. ASSUME NEW t \in Threads, CallStep(t) PROVE DueInv'
  <2>1. \A s \in Ids : closed'[s] => closed[s] \/ Unblocking(s)'
    <3>1. ASSUME NEW r \in Ids, CloseStream(t, r) PROVE \A s \in Ids : closed'[s] => closed[s] \/ Unblocking(s)'
      BY <3>1 DEF CloseStream, AtOnce, GotoWith, Pkt, Unblocking, MarkClosed
    <3>2. (\E r \in Ids : CloseStream(t, r)) \/ UNCHANGED closed
      BY <1>1 DEF CallStep, ReceiveHandshake, NewStream, Close, ReadRequest, SendRequest,
         RegisterClientStream, Get, WriteReply, StartRead, AtOnce
    <3> QED BY <3>1, <3>2
  <2> QED BY <1>1, <1>same, <2>1, CallEffect, DueFrame
<1>2. ASSUME NEW t \in Threads, InnerStep(t) \/ TimesOut(t) PROVE DueInv'
  <2>1. CASE Register(t)
    <3>1. CASE AtOnce(t)
      BY <1>2, <1>same, <2>1, <3>1, InnerEffect, DueFrame DEF AtOnce
    <3>2. CASE arg[t].stream \notin streams /\ MakeStream(arg[t].stream)
      <4>1. ~closed[arg[t].stream] /\ arg[t].stream \notin snapshot
        BY <3>2, PacketFields DEF FreshInv
      <4>2. \A s \in Ids \ {arg[t].stream} : closed'[s] = closed[s] /\ unprocessed'[s] = unprocessed[s]
        BY <3>2 DEF MakeStream
      <4>3. ~closed'[arg[t].stream] /\ UNCHANGED <<snapshot, told, toShut>>
        BY <2>1, <3>2, PacketFields DEF MakeStream, Register
      <4>4. Moved(t, InnerPlaces) /\ pc[t] \notin {"unblock", "fanout"}
        BY <1>2, InnerEffect
      <4>5. \A s \in Ids : (Unblocking(s) => Unblocking(s)') /\ (InFanout(s) => InFanout(s)')
        BY <4>3, <4>4 DEF Moved, Unblocking, InFanout
      <4> QED BY <4>1, <4>2, <4>3, <4>5 DEF DueInv, MarkerDue, Queued
    <3> QED BY <2>1, <3>1, <3>2 DEF Register
  <2>2. CASE TakeMarker(t)
    <3>1. PICK r \in Ids : TakeNext(t, r, SHUTDOWN) /\ told' = told \cup {r}
      BY <2>2, PacketFields DEF TakeMarker
    <3>2. \A s \in Ids : Queued(s) => Queued(s)' \/ s \in told'
      BY SMTT(30), <3>1, QueuedTake
    <3> QED BY <1>2, <2>2, <3>2, InnerEffect, DueFrame DEF TakeMarker, TakeNext
  <2>3. CASE TakePacket(t)
    <3>1. PICK r \in Ids : \E x : TakeNext(t, r, x) /\ x # SHUTDOWN
      BY <2>3, PacketFields DEF TakePacket
    <3>2. \A s \in Ids : Queued(s) => Queued(s)'
      BY <3>1, QueuedTake
    <3> QED BY SMTT(30), <1>2, <2>3, <3>2, InnerEffect, DueFrame DEF TakePacket, TakeNext
  <2>4. CASE ~Register(t) /\ ~TakeMarker(t) /\ ~TakePacket(t)
    <3>1. UNCHANGED <<closed, unprocessed>>
      BY <1>2, <2>4, EmptyEffect DEF InnerStep, SetHandshakeDone, ReturnReply, ReturnRequest,
         PopRequest, AnswerHandshake, ChooseTimeout
    <3> QED BY SMTT(30), <1>2, <1>same, <3>1, InnerEffect, DueFrame
  <2> QED BY <2>1, <2>2, <2>3, <2>4
<1>3. ASSUME NEW t \in Threads, RequestWritten(t) PROVE DueInv'
  <2>1. Moved(t, {"idle"}) /\ pc[t] = "sending"
    BY <1>3, ReturnMoves, ThreadsAssumption DEF RequestWritten, Transmit
  <2> QED BY <1>3, <1>same, <2>1, DueFrame DEF RequestWritten, Transmit
<1>4. ASSUME NEW p \in Procs, SharedStep(p) \/ OtherWritten(p) PROVE DueInv'
  <2>1. CASE Unblock(p)
    <3>1. PICK s \in Ids : s = arg[p].stream /\ Put(s, SHUTDOWN)
      BY <2>1, PacketFields DEF Unblock
    <3>2. (\A r \in Ids : Queued(r) => Queued(r)') /\ Queued(s)'
      BY <3>1, QueuedPut, MarkerType
    <3>3. Moved(p, {"write"}) \/ Moved(p, {"idle"}) \/ Moved(p, {"loop"})
      BY <2>1, MovedBy, ReturnMoves DEF Unblock
    <3>4. UNCHANGED <<closed, snapshot, told, toShut>> /\ pc[p] = "unblock"
      BY <2>1 DEF Unblock
    <3>5. \A r \in Ids : Unblocking(r) => Unblocking(r)' \/ r = s
      BY <3>1, <3>3 DEF Moved, Unblocking
    <3>6. \A r \in Ids : InFanout(r) => InFanout(r)'
      BY <3>3, <3>4 DEF Moved, InFanout
    <3> QED BY <3>2, <3>4, <3>5, <3>6 DEF DueInv, MarkerDue
  <2>2. CASE AcquireWriter(p) \/ WriteFails(p) \/ OtherWritten(p)
    <3>1. Moved(p, {"sending", "greeted", "idle", "loop"})
      BY <2>2, MovedBy, ReturnMovesAmong DEF AcquireWriter, WriteFails, OtherWritten
    <3> QED BY <1>same, <2>2, <3>1, DueFrame DEF AcquireWriter, WriteFails, OtherWritten, Transmit
  <2>3. CASE CloseUnderLock(p)
    <3>1. Moved(p, {"idle", "fanout", "loop", "done"})
      BY <2>3, MovedBy, ReturnMovesAmong DEF CloseUnderLock, LeaveClose
    <3>2. CASE ~running
      BY <1>same, <2>3, <3>1, <3>2, DueFrame DEF CloseUnderLock
    <3>3. CASE running
      <4>1. /\ snapshot' = streams /\ pc'[p] = "fanout" /\ toShut'[p] = streams
            /\ UNCHANGED <<closed, unprocessed, told>> /\ pc[p] = "close"
        BY <2>3, <3>3 DEF CloseUnderLock, Goto, TypeOK, ThreadTypeOK
      <4>2. \A s \in streams : InFanout(s)'
        BY <4>1 DEF InFanout
      <4>3. \A s \in Ids : Unblocking(s) => Unblocking(s)'
        BY <3>1, <4>1 DEF Moved, Unblocking
      <4> QED BY <1>same, <4>1, <4>2, <4>3 DEF DueInv, MarkerDue
    <3> QED BY <3>2, <3>3
  <2>4. ASSUME NEW s \in Ids, ShutStream(p, s) PROVE DueInv'
    <3>1. Moved(p, {"idle", "fanout", "loop", "done"}) /\ pc[p] = "fanout"
      BY <2>4, MovedBy, ReturnMovesAmong DEF ShutStream, LeaveClose
    <3>2. UNCHANGED <<closed, snapshot, told>>
      BY <2>4 DEF ShutStream
    <3>3. \A r \in Ids : Queued(r) => Queued(r)'
      BY <1>same, <2>4, QueuedPut, MarkerType DEF ShutStream
    <3>4. \A r \in Ids : Unblocking(r) => Unblocking(r)'
      BY <3>1 DEF Moved, Unblocking
    <3>5. closed[s] \/ Queued(s)'
      BY <2>4, QueuedPut, MarkerType DEF ShutStream
    <3>6. \A r \in Ids \ {s} : InFanout(r) => InFanout(r)'
      <4> SUFFICES ASSUME NEW r \in Ids \ {s}, NEW q \in Procs, pc[q] = "fanout", r \in toShut[q]
                   PROVE  InFanout(r)'
        BY DEF InFanout
      <4>1. toShut' = [toShut EXCEPT ![p] = @ \ {s}] /\ toShut \in [Procs -> SUBSET Ids]
        BY <2>4 DEF ShutStream, TypeOK, ThreadTypeOK
      <4>2. CASE q # p
        BY <3>1, <4>1, <4>2 DEF Moved, InFanout
      <4>3. CASE q = p
        <5>1. pc'[p] = "fanout"
          BY <2>4, <4>3 DEF ShutStream, Goto
        <5> QED BY <4>1, <4>3, <5>1 DEF InFanout
      <4> QED BY <4>2, <4>3
    <3> QED BY <3>2, <3>3, <3>4, <3>5, <3>6 DEF DueInv, MarkerDue
  <2> QED BY <1>4, <2>1, <2>2, <2>3, <2>4 DEF SharedStep
<1>5. ASSUME ReaderStep \/ ReadInterrupted PROVE DueInv'
  <2> Reader \in Procs
    BY DEF Procs
  <2>1. CASE PeerCloses
    <3>1. \A s \in Ids : closed'[s] => closed[s] \/ Unblocking(s)'
      BY <2>1 DEF PeerCloses, Arrived, Goto, Unblocking, MarkClosed
    <3> QED BY <1>5, <1>same, <2>1, <3>1, ReaderEffect, DueFrame DEF PeerCloses
  <2>2. CASE PutPacket
    <3>1. \A s \in Ids : Queued(s) => Queued(s)'
      BY <2>2, QueuedPut, PacketFields DEF PutPacket, Arrived
    <3> QED BY <1>5, <2>2, <3>1, ReaderEffect, DueFrame DEF PutPacket
  <2>3. CASE ~PeerCloses /\ ~PutPacket
    <3>1. UNCHANGED <<closed, unprocessed>>
      BY <1>5, <2>3 DEF ReaderStep, ReaderLoop, ReceivePacket, ReadFails, Refuse, IgnoreClose, Accept,
         ReadInterrupted
    <3> QED BY <1>5, <1>same, <3>1, ReaderEffect, DueFrame
  <2> QED BY <2>1, <2>2, <2>3
<1>6. CASE ClientStep \/ UNCHANGED vars
  <2>1. UNCHANGED <<closed, unprocessed, snapshot, told, pc, arg, toShut>>
    BY <1>6, ClientEffect DEF ServerUnchanged, vars
  <2> QED BY <2>1 DEF DueInv, MarkerDue, Queued, Unblocking, InFanout
<1> QED BY <1>1, <1>2, <1>3, <1>4, <1>5, <1>6 DEF Next

-----------------------------------------------------------------------------
LEMMA InitClose == Init => CloseInv
<1> SUFFICES ASSUME Init PROVE CloseInv
  OBVIOUS
<1>1. TypeOK
  BY InitTypes
<1>2. /\ \A s \in Ids : ~closed[s]
      /\ running /\ snapshot = {} /\ pending = {}
      /\ \A p \in Procs : pc[p] \in {"loop", "idle"}
  BY DEF Init, ConnInit, StreamInit, ThreadInit
<1>3. WriterInv /\ FreshInv /\ RequestInv /\ DueInv
  BY <1>2 DEF WriterInv, FreshInv, RequestInv, DueInv, Requesting, AwaitingReply, Procs
<1> QED BY <1>1, <1>3 DEF CloseInv

LEMMA CloseNext == CloseInv /\ [Next]_vars => CloseInv'
BY NextTypes, WriterNext, FreshNext, RequestNext, DueNext DEF CloseInv

\* The invariant says more than enough: a closed stream, one of the snapshot,
\* and one on which a reply is awaited after the close, has its marker due.
LEMMA CloseInvSuffices == CloseInv => NoStrandedReader
<1> SUFFICES ASSUME CloseInv, NEW t \in Threads, pc[t] = "waiting", arg[t].stream \notin told,
                    \/ closed[arg[t].stream]
                    \/ ~running /\ (arg[t].stream \in snapshot \/ arg[t].kind = "reply")
             PROVE  MarkerDue(arg[t].stream)
  BY DEF NoStrandedReader
<1>1. arg[t].stream \in Ids
  BY PacketFields DEF CloseInv, TypeOK, ThreadTypeOK, Procs
<1>2. closed[arg[t].stream] \/ arg[t].stream \in snapshot
  BY DEF CloseInv, RequestInv, AwaitingReply, Reached
<1> QED BY <1>1, <1>2 DEF CloseInv, DueInv, MarkerDue

\* Nobody sleeps through a close, for any number of threads, streams, calls and
\* packets: a thread blocked in Stream.__read_one_packet (stream.py:112-117) on a
\* stream closed by either side, or reached by Connection.close, has a SHUTDOWN
\* queued or a thread on its way to put one.
THEOREM NoReaderStranded == Spec => []NoStrandedReader
BY InitClose, CloseNext, CloseInvSuffices, PTL DEF Spec

-----------------------------------------------------------------------------
LEMMA CloseOnceStep ==
  ASSUME TypeOK, Next, ~running
  PROVE  ~running' /\ UNCHANGED snapshot /\ \A q \in Procs : toShut'[q] \subseteq toShut[q]
<1>same. ASSUME UNCHANGED <<running, snapshot, toShut>>
         PROVE  ~running' /\ UNCHANGED snapshot /\ \A q \in Procs : toShut'[q] \subseteq toShut[q]
  BY <1>same
<1>1. ASSUME NEW t \in Threads, CallStep(t) \/ InnerStep(t) \/ TimesOut(t) \/ RequestWritten(t)
      PROVE  UNCHANGED <<running, snapshot, toShut>>
  BY <1>1, CallEffect, InnerEffect DEF RequestWritten, Transmit
<1>2. ASSUME NEW p \in Procs, Unblock(p) \/ AcquireWriter(p) \/ WriteFails(p) \/ CloseUnderLock(p)
                               \/ OtherWritten(p)
      PROVE  UNCHANGED <<running, snapshot, toShut>>
  BY <1>2 DEF Unblock, AcquireWriter, WriteFails, CloseUnderLock, OtherWritten, Transmit, connVars
<1>3. ASSUME NEW p \in Procs, NEW s \in Ids, ShutStream(p, s)
      PROVE  ~running' /\ UNCHANGED snapshot /\ \A q \in Procs : toShut'[q] \subseteq toShut[q]
  BY <1>3 DEF ShutStream, connVars, TypeOK, ThreadTypeOK
<1>4. ReaderStep \/ ReadInterrupted \/ ClientStep => UNCHANGED <<running, snapshot, toShut>>
  BY ReaderEffect, ClientEffect DEF ServerUnchanged, connVars
<1> QED BY <1>same, <1>1, <1>2, <1>3, <1>4 DEF Next, SharedStep

\* The body of Connection.close (connection.py:161-172) runs once, whoever calls
\* it and however often: after the flag is down no second fan-out is begun.
THEOREM ClosedOnce == Spec => CloseBodyRunsOnce
<1>1. TypeOK /\ [Next]_vars =>
        [~running => /\ ~running' /\ UNCHANGED snapshot
                     /\ \A p \in Procs : toShut'[p] \subseteq toShut[p]]_vars
  BY CloseOnceStep
<1> QED BY <1>1, TypeCorrect, PTL DEF Spec, CloseBodyRunsOnce

-----------------------------------------------------------------------------
(* Who comes to the register step, and who leaves it.                       *)

WritePlaces == {"idle", "loop", "write", "sending", "greeted", "fanout", "done"}

LEMMA SharedEffect ==
  ASSUME TypeOK, NEW p \in Procs,
         SharedStep(p) \/ OtherWritten(p) \/ (p \in Threads /\ RequestWritten(p))
  PROVE  /\ Moved(p, WritePlaces) /\ pc[p] \in {"unblock", "write", "sending", "close", "fanout"}
         /\ UNCHANGED <<handshakeDone, streams, nextStreamId, owed>>
<1> USE DEF WritePlaces, connVars, appVars
<1>1. Return(p) => Moved(p, WritePlaces)
  BY ReturnMovesAmong
<1>2. LeaveClose(p) => Moved(p, WritePlaces)
  BY <1>1, MovedBy DEF LeaveClose
<1>3. CASE Unblock(p) \/ AcquireWriter(p) \/ WriteFails(p)
  <2>1. Moved(p, WritePlaces)
    BY <1>1, <1>3, MovedBy DEF Unblock, AcquireWriter, WriteFails
  <2> QED BY <1>3, <2>1 DEF Unblock, AcquireWriter, WriteFails
<1>4. CASE CloseUnderLock(p) \/ \E s \in Ids : ShutStream(p, s)
  <2>1. Moved(p, WritePlaces)
    BY <1>2, <1>4, MovedBy DEF CloseUnderLock, ShutStream
  <2> QED BY <1>4, <2>1 DEF CloseUnderLock, ShutStream
<1>5. CASE OtherWritten(p) \/ (p \in Threads /\ RequestWritten(p))
  <2>1. Moved(p, WritePlaces)
    BY <1>1, <1>5, MovedBy DEF OtherWritten, RequestWritten
  <2> QED BY <1>5, <2>1 DEF OtherWritten, RequestWritten, Transmit
<1> QED BY <1>3, <1>4, <1>5 DEF SharedStep

Opens(t) == NewStream(t) \/ \E s \in Ids : RegisterClientStream(t, s)

\* Every step moves one process, and not to the register step unless it opens a stream.
LEMMA OneMoves ==
  ASSUME TypeOK, [Next]_vars
  PROVE  \/ UNCHANGED <<pc, arg>>
         \/ \E t \in Threads : Opens(t) /\ Moved(t, CallPlaces) /\ pc[t] = "idle"
         \/ \E t \in Threads : Register(t) /\ Moved(t, InnerPlaces)
         \/ \E p \in Procs : Moved(p, PCs \ {"register"}) /\ pc[p] # "register"
<1> USE DEF PCs
<1> Threads \subseteq Procs /\ Reader \in Procs
  BY DEF Procs
<1>1. ASSUME NEW t \in Threads, CallStep(t), ~Opens(t)
      PROVE  Moved(t, PCs \ {"register"}) /\ pc[t] # "register"
  <2> USE DEF Begin, AtOnce, StartRead
  <2>1. Return(t) => Moved(t, PCs \ {"register"})
    BY ThreadsAssumption, ReturnMovesAmong
  <2>5. pc[t] = "idle"
    BY <1>1, CallEffect
  <2>2. CASE ReceiveHandshake(t) \/ Close(t)
    <3>1. Return(t) \/ Goto(t, "close") \/ \E a : GotoWith(t, "scan", a)
      BY <2>2 DEF ReceiveHandshake, Close
    <3>2. "close" \in PCs \ {"register"} /\ "scan" \in PCs \ {"register"}
      OBVIOUS
    <3>3. Goto(t, "close") => Moved(t, PCs \ {"register"})
      BY <3>2, MovedBy
    <3>4. (\E a : GotoWith(t, "scan", a)) => Moved(t, PCs \ {"register"})
      BY <3>2, MovedBy
    <3> QED BY <2>1, <2>5, <3>1, <3>3, <3>4
  <2>3. CASE \E s \in Ids : ReadRequest(t, s) \/ SendRequest(t, s) \/ CloseStream(t, s)
    BY SMTT(30), <2>1, <2>3, MovedBy DEF ReadRequest, SendRequest, CloseStream
  <2>4. CASE (\E r \in pending : Get(t, r[1], r[2])) \/ \E r \in owed : WriteReply(t, r[1], r[2])
    BY ZenonT(60), <2>4, MovedBy DEF Get, WriteReply
  <2> QED BY <1>1, <2>2, <2>3, <2>4, <2>5 DEF CallStep, Opens
<1>2. ASSUME NEW t \in Threads, InnerStep(t) \/ TimesOut(t), ~Register(t)
      PROVE  Moved(t, PCs \ {"register"}) /\ pc[t] # "register"
  <2>1. pc[t] # "register"
    <3>1. CASE PollFindsNothing(t) \/ TimesOut(t) \/ RaiseClosed(t) \/ RaiseTimeout(t)
      BY <3>1, EmptyEffect
    <3>2. CASE ~(PollFindsNothing(t) \/ TimesOut(t) \/ RaiseClosed(t) \/ RaiseTimeout(t))
      BY <1>2, <3>2 DEF InnerStep, SetHandshakeDone, ReturnReply, ReturnRequest, AnswerHandshake,
         PopRequest, ChooseTimeout, TakeMarker, TakePacket, TakeNext
    <3> QED BY <3>1, <3>2
  <2> QED BY SMTT(30), <1>2, <2>1, InnerEffect DEF Moved, InnerPlaces
<1>3. ASSUME NEW p \in Procs,
             SharedStep(p) \/ OtherWritten(p) \/ (p \in Threads /\ RequestWritten(p))
      PROVE  Moved(p, PCs \ {"register"}) /\ pc[p] # "register"
  BY <1>3, SharedEffect DEF Moved, WritePlaces
<1>4. ASSUME ReaderStep \/ ReadInterrupted
      PROVE  Moved(Reader, PCs \ {"register"}) /\ pc[Reader] # "register"
  <2>1. pc[Reader] # "register"
    BY <1>4 DEF ReaderStep, ReadInterrupted, At, ReaderLoop, ReceivePacket, ReadFails, Refuse,
       IgnoreClose, PeerCloses, Accept, PutPacket
  <2> QED BY <1>4, <2>1, ReaderEffect DEF Moved, ReaderPlaces
<1>5. ClientStep => UNCHANGED <<pc, arg>>
  BY ClientEffect DEF ServerUnchanged
<1>6. ASSUME NEW t \in Threads, CallStep(t), Opens(t)
      PROVE  Opens(t) /\ Moved(t, CallPlaces) /\ pc[t] = "idle"
  BY <1>6, CallEffect
<1>7. ASSUME NEW t \in Threads, Register(t) PROVE Moved(t, InnerPlaces)
  BY <1>7, InnerEffect DEF InnerStep
<1> QED BY <1>1, <1>2, <1>3, <1>4, <1>5, <1>6, <1>7 DEF Next, vars

\* Two threads that race to register one id never each get a stream: the later one
\* changes nothing (connection.py:264-272, 297-304), for any number of threads and ids.
THEOREM NeverReplaced == Spec => StreamsNeverReplaced
<1>1. TypeOK /\ [Next]_vars =>
        [\A t \in Threads : pc[t] = "register" /\ arg[t].stream \in streams =>
           UNCHANGED <<streamVars, streams>> \/ pc'[t] = "register"]_vars
  <2> SUFFICES ASSUME TypeOK, [Next]_vars, NEW t \in Threads,
                      pc[t] = "register", arg[t].stream \in streams, pc'[t] # "register"
               PROVE  UNCHANGED <<streamVars, streams>>
    OBVIOUS
  <2>1. pc \in [Procs -> PCs] /\ t \in Procs
    BY DEF TypeOK, ThreadTypeOK, Procs
  <2>2. Register(t)
    BY <2>1, OneMoves DEF Moved, Procs
  <2> QED BY <2>2 DEF Register, AtOnce, connVars
<1> QED BY <1>1, TypeCorrect, PTL DEF Spec, StreamsNeverReplaced

-----------------------------------------------------------------------------
(* The ids of new_stream.                                                   *)

\* Every even id that is registered, or drawn and on its way to be, is below the
\* next one to draw.
Even(s) == s % 2 = 0
IdInv ==
  /\ \A s \in streams : Even(s) => s < 2 * nextStreamId
  /\ \A t \in Threads : pc[t] = "register" /\ Even(arg[t].stream) =>
       arg[t].stream < 2 * nextStreamId
  /\ NoServerIdCollision

LEMMA InitIds == Init => IdInv
  BY ThreadsAssumption
  DEF Init, ConnInit, ThreadInit, IdInv, Even, NoServerIdCollision, Procs

\* A step that neither registers a stream nor comes to register one.
LEMMA IdsFrame ==
  ASSUME IdInv, UNCHANGED <<streams, nextStreamId>>,
         \A t \in Threads : pc'[t] = "register" => pc[t] = "register" /\ arg'[t] = arg[t]
  PROVE  IdInv'
BY DEF IdInv, NoServerIdCollision, Even

LEMMA NextKeepsIds ==
  ASSUME TypeOK, [Next]_vars, \A t \in Threads : ~Opens(t) /\ ~Register(t)
  PROVE  UNCHANGED <<streams, nextStreamId>>
<1> USE DEF connVars
<1>1. ASSUME NEW t \in Threads, CallStep(t) PROVE UNCHANGED <<streams, nextStreamId>>
  BY <1>1 DEF CallStep, Opens, ReceiveHandshake, Close, ReadRequest, SendRequest, CloseStream, Get,
     WriteReply, StartRead, AtOnce
<1>2. ASSUME NEW t \in Threads, InnerStep(t) \/ TimesOut(t)
      PROVE  UNCHANGED <<streams, nextStreamId>>
  BY <1>2, EmptyEffect DEF InnerStep, SetHandshakeDone, ReturnReply, ReturnRequest,
     AnswerHandshake, PopRequest, ChooseTimeout, TakeMarker, TakePacket, TakeNext
<1>3. ASSUME NEW p \in Procs,
             SharedStep(p) \/ OtherWritten(p) \/ (p \in Threads /\ RequestWritten(p))
      PROVE  UNCHANGED <<streams, nextStreamId>>
  BY <1>3, SharedEffect
<1>4. CASE ReaderStep \/ ReadInterrupted
  BY <1>4 DEF ReaderStep, ReadInterrupted, At, ReaderLoop, ReceivePacket, ReadFails, Refuse,
     IgnoreClose, PeerCloses, Accept, PutPacket
<1>5. CASE ClientStep \/ UNCHANGED vars
  BY <1>5, ClientEffect DEF ServerUnchanged, vars
<1> QED BY <1>1, <1>2, <1>3, <1>4, <1>5 DEF Next, Procs

LEMMA OpensKeepIds ==
  ASSUME TypeOK, IdInv, NEW t \in Threads, Opens(t), Moved(t, CallPlaces)
  PROVE  IdInv'
<1>1. /\ t \in Procs /\ Threads \subseteq Procs /\ pc \in [Procs -> PCs]
      /\ nextStreamId \in Nat \ {0} /\ streams \subseteq Nat
      /\ \A u \in Threads : arg[u].stream \in Nat
  BY IdsAssumption, PacketFields DEF TypeOK, ThreadTypeOK, ConnTypeOK, Procs, Packet
<1>2. /\ \A u \in Threads \ {t} : pc'[u] = pc[u] /\ arg'[u] = arg[u]
      /\ UNCHANGED streams
  BY <1>1 DEF Moved, Opens, NewStream, RegisterClientStream, AtOnce, connVars
<1>3. CASE pc'[t] # "register" /\ UNCHANGED nextStreamId
  BY <1>2, <1>3, IdsFrame
<1>4. CASE /\ nextStreamId' = nextStreamId + 1
           /\ arg'[t] = Pkt(2 * nextStreamId, 0, "request")
  <2>1. arg'[t].stream = 2 * nextStreamId
    BY <1>4 DEF Pkt
  <2>2. ASSUME NEW s \in streams, Even(s)
        PROVE  s < 2 * nextStreamId' /\ s # 2 * nextStreamId
    <3>1. s \in Nat /\ s < 2 * nextStreamId
      BY <1>1, <2>2 DEF IdInv
    <3> QED BY <1>1, <1>4, <3>1
  <2>3. ASSUME NEW u \in Threads \ {t}, pc[u] = "register", Even(arg[u].stream)
        PROVE  arg[u].stream < 2 * nextStreamId' /\ arg[u].stream # 2 * nextStreamId
    <3>1. arg[u].stream \in Nat /\ arg[u].stream < 2 * nextStreamId
      BY <1>1, <2>3 DEF IdInv
    <3> QED BY <1>1, <1>4, <3>1
  <2>4. 2 * nextStreamId < 2 * nextStreamId' /\ Even(2 * nextStreamId)
    BY <1>1, <1>4 DEF Even
  <2>5. \A u \in Threads \ {t} : pc[u] = "register" => arg[u].stream # 2 * nextStreamId
    BY <2>3, <2>4
  <2>6. 2 * nextStreamId \notin streams
    BY <2>2, <2>4
  <2> QED BY <1>2, <2>1, <2>2, <2>3, <2>4, <2>5, <2>6 DEF IdInv, NoServerIdCollision, Even
<1>5. CASE /\ UNCHANGED nextStreamId
           /\ arg'[t].stream \in Nat /\ ~Even(arg'[t].stream)
  BY <1>1, <1>2, <1>5 DEF IdInv, NoServerIdCollision, Even
<1>6. CASE NewStream(t)
  <2>1. CASE ~handshakeDone /\ AtOnce(t)
    BY <1>1, <1>3, <1>6, <2>1, ThreadsAssumption
    DEF AtOnce, connVars, Return, GotoWith, TypeOK, ThreadTypeOK
  <2>2. CASE handshakeDone /\ nextStreamId' = nextStreamId + 1
             /\ GotoWith(t, "register", Pkt(2 * nextStreamId, 0, "request"))
    BY <1>1, <1>4, <2>2 DEF GotoWith, TypeOK, ThreadTypeOK
  <2> QED BY <1>6, <2>1, <2>2 DEF NewStream
<1>7. ASSUME NEW s \in Ids, RegisterClientStream(t, s) PROVE IdInv'
  <2>1. CASE AtOnce(t)
    BY <1>1, <1>3, <2>1, ThreadsAssumption
    DEF AtOnce, connVars, Return, GotoWith, TypeOK, ThreadTypeOK
  <2>2. CASE MayRegister(s) /\ GotoWith(t, "register", Pkt(s, 0, "request")) /\ UNCHANGED connVars
    <3>1. arg'[t].stream = s /\ s \in Nat /\ ~Even(s)
      BY <1>1, <2>2, IdsAssumption DEF GotoWith, TypeOK, ThreadTypeOK, Pkt, MayRegister, Even
    <3> QED BY <1>5, <2>2, <3>1 DEF connVars
  <2> QED BY <1>7, <2>1, <2>2 DEF RegisterClientStream
<1> QED BY <1>6, <1>7 DEF Opens

LEMMA RegisterKeepsIds ==
  ASSUME TypeOK, IdInv, NEW t \in Threads, Register(t), Moved(t, InnerPlaces)
  PROVE  IdInv'
<1>1. /\ t \in Procs /\ Threads \subseteq Procs /\ pc \in [Procs -> PCs]
  BY DEF TypeOK, ThreadTypeOK, Procs
<1>2. /\ \A u \in Threads \ {t} : pc'[u] = pc[u] /\ arg'[u] = arg[u]
      /\ pc[t] = "register" /\ pc'[t] # "register" /\ UNCHANGED nextStreamId
      /\ streams' = streams \cup {arg[t].stream}
  BY <1>1 DEF Moved, InnerPlaces, Register, AtOnce, MakeStream, connVars
<1> QED BY <1>2 DEF IdInv, NoServerIdCollision, Even

\* new_stream never draws an id that is registered, or on its way to be, by another
\* thread or a client (connection.py:274-279, 299-304), for any number of threads.
THEOREM IdsNeverCollide == Spec => []NoServerIdCollision
<1>1. TypeOK /\ IdInv /\ [Next]_vars => IdInv'
  <2> SUFFICES ASSUME TypeOK, IdInv, [Next]_vars PROVE IdInv'
    OBVIOUS
  <2>1. ASSUME NEW t \in Threads, Opens(t) PROVE IdInv'
    BY <2>1, CallEffect, OpensKeepIds DEF Opens, CallStep
  <2>2. ASSUME NEW t \in Threads, Register(t) PROVE IdInv'
    BY <2>2, InnerEffect, RegisterKeepsIds DEF InnerStep
  <2>3. CASE (\A t \in Threads : ~Opens(t) /\ ~Register(t))
    <3>1. UNCHANGED <<streams, nextStreamId>>
      BY <2>3, NextKeepsIds
    <3>2. \A t \in Threads : pc'[t] = "register" => pc[t] = "register" /\ arg'[t] = arg[t]
      BY <2>3, OneMoves DEF Moved, TypeOK, ThreadTypeOK, Procs
    <3> QED BY <3>1, <3>2, IdsFrame
  <2> QED BY <2>1, <2>2, <2>3
<1>2. IdInv => NoServerIdCollision
  BY DEF IdInv
<1> QED BY <1>1, <1>2, InitIds, TypeCorrect, PTL DEF Spec

-----------------------------------------------------------------------------
(* The handshake reply comes first.                                         *)

Greeted == \E i \in 1..Len(sent) : sent[i].kind = "greeting"

\* The flag is set behind the reply, and whatever names a stream but the control
\* stream, a stream registered, a call under way, a handle, exists only behind the flag.
\* The reader thread writes refusals only.
FlagInv ==
  /\ handshakeDone \/ (\E t \in Threads : pc[t] = "greeted") => Greeted
  /\ \A s \in streams : s # 0 => handshakeDone
  /\ \A r \in owed \cup pending : r[1] # 0 => handshakeDone
  /\ \A t \in Threads : arg[t].stream # 0 => handshakeDone
  /\ pc[Reader] \in {"write", "sending"} => arg[Reader].kind = "error"
HandshakeInv == FlagInv /\ HandshakeFirst

LEMMA InitHandshake == Init => HandshakeInv
  BY ThreadsAssumption
  DEF Init, ConnInit, ThreadInit, HandshakeInv, FlagInv, HandshakeFirst, Procs, SHUTDOWN, Pkt

\* A step of process p that writes nothing.
LEMMA FlagFrame ==
  ASSUME TypeOK, HandshakeInv, NEW p \in Procs, NEW Ls, Moved(p, Ls),
         UNCHANGED <<sent, handshakeDone>>,
         p \in Threads => \/ arg'[p] \in {arg[p], SHUTDOWN}
                          \/ arg'[p].stream # 0 => handshakeDone,
         p = Reader => (pc'[p] \in {"write", "sending"} => arg'[p].kind = "error"),
         \A s \in streams' : s \in streams \/ (s # 0 => handshakeDone),
         \A r \in owed' \cup pending' : r \in owed \cup pending \/ (r[1] # 0 => handshakeDone),
         "greeted" \notin Ls
  PROVE  HandshakeInv'
<1>1. SHUTDOWN.stream = 0
  BY DEF SHUTDOWN, Pkt
<1>2. pc \in [Procs -> PCs] /\ Threads \subseteq Procs /\ Reader \in Procs
  BY DEF TypeOK, ThreadTypeOK, Procs
<1>3. /\ pc'[p] \in Ls
      /\ \A q \in Procs \ {p} : pc'[q] = pc[q] /\ arg'[q] = arg[q]
  BY <1>2 DEF Moved
<1>4. Greeted' = Greeted /\ HandshakeFirst'
  BY DEF Greeted, HandshakeFirst, HandshakeInv
<1>5. \A t \in Threads : arg'[t].stream # 0 => handshakeDone'
  BY <1>1, <1>2, <1>3 DEF HandshakeInv, FlagInv
<1>6. handshakeDone' \/ (\E t \in Threads : pc'[t] = "greeted") => Greeted'
  BY <1>2, <1>3, <1>4 DEF HandshakeInv, FlagInv
<1>7. pc'[Reader] \in {"write", "sending"} => arg'[Reader].kind = "error"
  BY <1>2, <1>3 DEF HandshakeInv, FlagInv
<1>8. /\ \A s \in streams' : s # 0 => handshakeDone'
      /\ \A r \in owed' \cup pending' : r[1] # 0 => handshakeDone'
  BY DEF HandshakeInv, FlagInv
<1> QED BY <1>4, <1>5, <1>6, <1>7, <1>8 DEF HandshakeInv, FlagInv

LEMMA CallKeepsHandshake ==
  ASSUME TypeOK, HandshakeInv, NEW t \in Threads, CallStep(t)
  PROVE  HandshakeInv'
<1> USE DEF Begin, AtOnce, StartRead, connVars, appVars
<1>1. /\ t \in Procs /\ t # Reader /\ Threads \subseteq Procs
      /\ arg \in [Procs -> Packet] /\ SHUTDOWN.stream = 0
  BY ThreadsAssumption DEF Procs, TypeOK, ThreadTypeOK, SHUTDOWN, Pkt
<1>2. Moved(t, CallPlaces) /\ UNCHANGED streams
  BY CallEffect
<1>3. /\ UNCHANGED <<sent, handshakeDone>>
      /\ owed' \subseteq owed /\ pending' \subseteq pending
  BY DEF CallStep, ReceiveHandshake, NewStream, Close, ReadRequest, SendRequest,
     RegisterClientStream, CloseStream, Get, WriteReply
<1>4. \/ arg'[t] \in {arg[t], SHUTDOWN}
      \/ arg'[t].stream # 0 => handshakeDone
  <2>1. Return(t) => arg'[t] = SHUTDOWN
    BY <1>1 DEF Return, GotoWith
  <2>2. ASSUME NEW s, NEW m, NEW k, NEW l, GotoWith(t, l, Pkt(s, m, k))
        PROVE  arg'[t].stream = s
    BY <1>1, <2>2 DEF GotoWith, Pkt
  <2>3. CASE Close(t)
    BY <2>3 DEF Close, Goto
  <2>4. CASE ReceiveHandshake(t)
    BY <2>1, <2>2, <2>4 DEF ReceiveHandshake
  <2>5. CASE NewStream(t)
    BY <2>1, <2>5 DEF NewStream
  <2>6. ASSUME NEW s \in Ids, ReadRequest(t, s) \/ SendRequest(t, s) \/ CloseStream(t, s)
        PROVE  arg'[t] = SHUTDOWN \/ (arg'[t].stream = s /\ s \in streams)
    BY <2>1, <2>2, <2>6 DEF ReadRequest, SendRequest, CloseStream
  <2>7. ASSUME NEW s \in Ids, RegisterClientStream(t, s)
        PROVE  arg'[t] = SHUTDOWN \/ handshakeDone
    BY <2>1, <2>7 DEF RegisterClientStream, MayRegister
  <2>8. ASSUME NEW s, NEW m, Get(t, s, m) PROVE arg'[t].stream = s /\ s \in streams
    BY <2>2, <2>8 DEF Get
  <2>9. ASSUME NEW r \in owed, WriteReply(t, r[1], r[2]) PROVE arg'[t].stream = r[1]
    BY <2>2, <2>9 DEF WriteReply
  <2>10. CASE (\E s \in Ids : ReadRequest(t, s) \/ SendRequest(t, s) \/ CloseStream(t, s))
              \/ \E r \in pending : Get(t, r[1], r[2])
    BY <2>6, <2>8, <2>10 DEF HandshakeInv, FlagInv
  <2>11. CASE \E r \in owed : WriteReply(t, r[1], r[2])
    BY <2>9, <2>11 DEF HandshakeInv, FlagInv
  <2> QED BY <2>3, <2>4, <2>5, <2>7, <2>10, <2>11 DEF CallStep
<1> QED BY <1>1, <1>2, <1>3, <1>4, FlagFrame DEF CallPlaces

LEMMA InnerKeepsHandshake ==
  ASSUME TypeOK, HandshakeInv, NEW t \in Threads, InnerStep(t) \/ TimesOut(t)
  PROVE  HandshakeInv'
<1> USE DEF AtOnce, connVars, appVars
<1>1. /\ t \in Procs /\ t # Reader /\ Threads \subseteq Procs
      /\ arg \in [Procs -> Packet] /\ SHUTDOWN.stream = 0
  BY ThreadsAssumption DEF Procs, TypeOK, ThreadTypeOK, SHUTDOWN, Pkt
<1>2. Moved(t, InnerPlaces) /\ UNCHANGED pending
  BY InnerEffect
<1>3. Return(t) => arg'[t] = SHUTDOWN
  BY <1>1 DEF Return, GotoWith
<1>4. CASE Register(t)
  <2>1. UNCHANGED <<sent, handshakeDone, owed>> /\ arg'[t] = SHUTDOWN
        /\ streams' \subseteq streams \cup {arg[t].stream}
    BY <1>3, <1>4 DEF Register, MakeStream
  <2>2. arg[t].stream # 0 => handshakeDone
    BY DEF HandshakeInv, FlagInv
  <2> QED BY <1>1, <1>2, <2>1, <2>2, FlagFrame DEF InnerPlaces
<1>5. CASE SetHandshakeDone(t)
  <2>1. /\ handshakeDone' = TRUE /\ UNCHANGED <<sent, streams, owed>>
        /\ pc[t] = "greeted" /\ arg'[t] = SHUTDOWN
    BY <1>3, <1>5 DEF SetHandshakeDone
  <2>2. Greeted /\ Greeted'
    BY <2>1 DEF HandshakeInv, FlagInv, Greeted
  <2>3. HandshakeFirst'
    BY <2>1 DEF HandshakeInv, HandshakeFirst
  <2>4. pc'[Reader] = pc[Reader] /\ arg'[Reader] = arg[Reader]
    BY <1>1, <1>2 DEF Moved, Procs, TypeOK, ThreadTypeOK
  <2> QED BY <2>1, <2>2, <2>3, <2>4 DEF HandshakeInv, FlagInv
<1>6. CASE ReturnRequest(t)
  <2>1. PICK m : owed' = owed \cup {<<arg[t].stream, m>>}
    BY <1>6 DEF ReturnRequest
  <2>2. UNCHANGED <<sent, handshakeDone, streams>> /\ arg'[t] = SHUTDOWN
    BY <1>3, <1>6 DEF ReturnRequest, PopRequest
  <2>3. arg[t].stream # 0 => handshakeDone
    BY DEF HandshakeInv, FlagInv
  <2>4. \A r \in owed' : r \in owed \/ (r[1] # 0 => handshakeDone)
    BY <2>1, <2>3
  <2> QED BY <1>1, <1>2, <2>2, <2>4, FlagFrame DEF InnerPlaces
<1>7. CASE AnswerHandshake(t)
  <2>1. UNCHANGED <<sent, handshakeDone, streams, owed>>
    BY <1>7 DEF AnswerHandshake, PopRequest
  <2>2. arg'[t] = SHUTDOWN \/ arg'[t].stream = 0
    BY <1>1, <1>3, <1>7 DEF AnswerHandshake, GotoWith, Pkt
  <2> QED BY <1>1, <1>2, <2>1, <2>2, FlagFrame DEF InnerPlaces
<1>8. CASE ReturnReply(t) \/ ChooseTimeout(t) \/ TakeMarker(t) \/ TakePacket(t)
           \/ PollFindsNothing(t) \/ TimesOut(t) \/ RaiseClosed(t) \/ RaiseTimeout(t)
  <2>1. UNCHANGED <<sent, handshakeDone, streams, owed>> /\ arg'[t] \in {arg[t], SHUTDOWN}
    BY <1>3, <1>8, EmptyEffect DEF ReturnReply, ChooseTimeout, TakeMarker, TakePacket, TakeNext,
       Goto
  <2> QED BY SMTT(30), <1>1, <1>2, <2>1, FlagFrame DEF InnerPlaces
<1> QED BY <1>4, <1>5, <1>6, <1>7, <1>8 DEF InnerStep

LEMMA SharedKeepsHandshake ==
  ASSUME TypeOK, HandshakeInv, NEW p \in Procs, SharedStep(p)
  PROVE  HandshakeInv'
<1> USE DEF connVars, appVars
<1>1. /\ arg \in [Procs -> Packet] /\ pc \in [Procs -> PCs]
  BY DEF TypeOK, ThreadTypeOK
<1> DEFINE Ls == WritePlaces \ {"greeted"}
<1>2. Return(p) => arg'[p] = SHUTDOWN /\ Moved(p, Ls)
  <2>1. {"loop", "idle"} \subseteq Ls
    BY DEF WritePlaces
  <2> QED BY <1>1, <2>1, ReturnMovesAmong DEF Return, GotoWith
<1>3. ASSUME NEW l \in Ls, Goto(p, l) PROVE arg'[p] = arg[p] /\ Moved(p, Ls) /\ pc'[p] = l
  <2>1. Moved(p, Ls)
    BY <1>3, MovedBy
  <2> QED BY <1>1, <1>3, <2>1 DEF Goto
<1>4. LeaveClose(p) => arg'[p] \in {arg[p], SHUTDOWN} /\ Moved(p, Ls)
  <2>1. "done" \in Ls
    BY DEF WritePlaces
  <2> QED BY <1>2, <1>3, <2>1 DEF LeaveClose
<1>5. /\ "write" \in Ls /\ "sending" \in Ls /\ "fanout" \in Ls /\ "greeted" \notin Ls
  BY DEF WritePlaces
<1>6. UNCHANGED <<sent, handshakeDone, streams, owed, pending>>
  BY DEF SharedStep, Unblock, AcquireWriter, WriteFails, CloseUnderLock, ShutStream
<1>7. /\ arg'[p] \in {arg[p], SHUTDOWN} /\ Moved(p, Ls)
      /\ p = Reader /\ pc'[p] \in {"write", "sending"} => pc[p] = "write" /\ arg'[p] = arg[p]
  <2>1. CASE Unblock(p)
    <3>1. (p # Reader /\ Goto(p, "write")) \/ Return(p)
      BY <2>1 DEF Unblock
    <3>2. Return(p) => pc'[p] \in {"loop", "idle"}
      BY <1>1 DEF Return, GotoWith
    <3> QED BY <1>2, <1>3, <1>5, <3>1, <3>2
  <2>2. CASE AcquireWriter(p)
    BY <1>3, <1>5, <2>2 DEF AcquireWriter
  <2>3. CASE WriteFails(p)
    <3>1. Return(p) => pc'[p] \in {"loop", "idle"}
      BY <1>1 DEF Return, GotoWith
    <3> QED BY <1>2, <2>3, <3>1 DEF WriteFails
  <2>4. CASE CloseUnderLock(p) \/ \E s \in Ids : ShutStream(p, s)
    <3>1. LeaveClose(p) \/ Goto(p, "fanout")
      BY <2>4 DEF CloseUnderLock, ShutStream
    <3>2. pc'[p] \in {"loop", "idle", "done", "fanout"}
      BY <1>1, <3>1 DEF LeaveClose, Return, Goto, GotoWith
    <3> QED BY <1>3, <1>4, <1>5, <3>1, <3>2
  <2> QED BY <2>1, <2>2, <2>3, <2>4 DEF SharedStep
<1> HIDE DEF Ls
<1>8. p = Reader => (pc'[p] \in {"write", "sending"} => arg'[p].kind = "error")
  BY <1>7 DEF HandshakeInv, FlagInv
<1> QED BY <1>5, <1>6, <1>7, <1>8, FlagFrame

\* A packet goes out: of a thread, on another stream than the control stream, only
\* when the flag is set; of the reader thread, a refusal.
LEMMA WritingKeepsHandshake ==
  ASSUME TypeOK, HandshakeInv, NEW p \in Procs,
         OtherWritten(p) \/ (p \in Threads /\ RequestWritten(p))
  PROVE  HandshakeInv'
<1>1. /\ arg \in [Procs -> Packet] /\ pc \in [Procs -> PCs] /\ sent \in Seq(Packet)
      /\ Threads \subseteq Procs /\ Reader \in Procs /\ SHUTDOWN.stream = 0
  BY DEF Procs, TypeOK, ThreadTypeOK, SHUTDOWN, Pkt
<1>2. /\ pc[p] = "sending" /\ sent' = Append(sent, arg[p])
      /\ UNCHANGED <<handshakeDone, streams, owed>>
      /\ Return(p) \/ (Goto(p, "greeted") /\ arg[p].kind = "greeting")
      /\ \/ pending' = pending
         \/ p \in Threads /\ pending' = pending \cup {<<arg[p].stream, arg[p].id>>}
  <2>1. CASE OtherWritten(p)
    BY <2>1 DEF OtherWritten, Transmit
  <2>2. CASE p \in Threads /\ RequestWritten(p)
    BY <2>2 DEF RequestWritten, Transmit
  <2> QED BY <2>1, <2>2
<1>3. /\ Len(sent) \in Nat /\ Len(sent') = Len(sent) + 1 /\ sent'[Len(sent) + 1] = arg[p]
      /\ \A i \in 1..Len(sent) : sent'[i] = sent[i]
  BY <1>1, <1>2
<1>4. Greeted => Greeted'
  BY <1>3 DEF Greeted
<1>5. arg[p].kind = "greeting" => Greeted'
  BY <1>3 DEF Greeted
<1>6. arg[p].stream # 0 /\ arg[p].kind # "error" => Greeted
  BY <1>2 DEF HandshakeInv, FlagInv, Procs
<1>7. HandshakeFirst'
  <2> SUFFICES ASSUME NEW j \in 1..Len(sent'), sent'[j].stream # 0, sent'[j].kind # "error"
               PROVE  \E i \in 1..(j - 1) : sent'[i].kind = "greeting"
    BY DEF HandshakeFirst
  <2>1. CASE j \in 1..Len(sent)
    <3>1. PICK i \in 1..(j - 1) : sent[i].kind = "greeting"
      BY <1>3, <2>1 DEF HandshakeInv, HandshakeFirst
    <3>2. i \in 1..Len(sent)
      BY <1>3, <2>1
    <3> QED BY <1>3, <3>1, <3>2
  <2>2. CASE j = Len(sent) + 1
    <3>1. PICK i \in 1..Len(sent) : sent[i].kind = "greeting"
      BY <1>3, <1>6, <2>2 DEF Greeted
    <3>2. i \in 1..(j - 1)
      BY <1>3, <2>2
    <3> QED BY <1>3, <3>1, <3>2
  <2> QED BY <1>3, <2>1, <2>2
<1>8. /\ arg'[p] \in {arg[p], SHUTDOWN} /\ pc'[p] \in {"loop", "idle", "greeted"}
      /\ pc'[p] = "greeted" => arg[p].kind = "greeting"
      /\ \A q \in Procs \ {p} : pc'[q] = pc[q] /\ arg'[q] = arg[q]
  BY <1>1, <1>2 DEF Return, Goto, GotoWith
<1>9. FlagInv'
  <2>1. handshakeDone' \/ (\E t \in Threads : pc'[t] = "greeted") => Greeted'
    BY <1>1, <1>2, <1>4, <1>5, <1>8 DEF HandshakeInv, FlagInv
  <2>2. \A s \in streams' : s # 0 => handshakeDone'
    BY <1>2 DEF HandshakeInv, FlagInv
  <2>3. \A r \in owed' \cup pending' : r[1] # 0 => handshakeDone'
    BY <1>2 DEF HandshakeInv, FlagInv
  <2>4. \A t \in Threads : arg'[t].stream # 0 => handshakeDone'
    BY <1>1, <1>2, <1>8 DEF HandshakeInv, FlagInv
  <2>5. pc'[Reader] \in {"write", "sending"} => arg'[Reader].kind = "error"
    BY <1>1, <1>8 DEF HandshakeInv, FlagInv
  <2> QED BY <2>1, <2>2, <2>3, <2>4, <2>5 DEF FlagInv
<1> QED BY <1>7, <1>9 DEF HandshakeInv

LEMMA ReaderKeepsHandshake ==
  ASSUME TypeOK, HandshakeInv, ReaderStep \/ ReadInterrupted
  PROVE  HandshakeInv'
<1>1. Reader \in Procs /\ Reader \notin Threads /\ arg \in [Procs -> Packet] /\ pc \in [Procs -> PCs]
  BY ThreadsAssumption DEF Procs, TypeOK, ThreadTypeOK
<1>2. Moved(Reader, ReaderPlaces) /\ UNCHANGED <<streams, pending>>
  BY ReaderEffect
<1>3. UNCHANGED <<sent, handshakeDone, owed>>
  BY DEF ReaderStep, ReadInterrupted, At, ReaderLoop, ReceivePacket, ReadFails, Refuse,
     IgnoreClose, PeerCloses, Accept, PutPacket, connVars, appVars
<1>4. pc'[Reader] \in {"write", "sending"} => arg'[Reader].kind = "error"
  <2>1. CASE Refuse
    BY <1>1, <2>1 DEF Refuse, Return, GotoWith, Pkt
  <2>2. CASE ReaderLoop \/ ReceivePacket \/ ReadFails \/ IgnoreClose \/ PeerCloses \/ Accept
             \/ PutPacket \/ ReadInterrupted
    BY <1>1, <2>2 DEF ReaderLoop, ReceivePacket, ReadFails, IgnoreClose, PeerCloses, Accept,
       PutPacket, ReadInterrupted, Return, Goto, GotoWith
  <2> QED BY <2>1, <2>2 DEF ReaderStep
<1> QED BY <1>1, <1>2, <1>3, <1>4, FlagFrame DEF ReaderPlaces

LEMMA HandshakeNext == TypeOK /\ HandshakeInv /\ [Next]_vars => HandshakeInv'
<1> SUFFICES ASSUME TypeOK, HandshakeInv, [Next]_vars PROVE HandshakeInv'
  OBVIOUS
<1>1. ASSUME NEW t \in Threads, CallStep(t) \/ InnerStep(t) \/ TimesOut(t) PROVE HandshakeInv'
  BY <1>1, CallKeepsHandshake, InnerKeepsHandshake
<1>2. ASSUME NEW t \in Threads, RequestWritten(t) PROVE HandshakeInv'
  BY <1>2, WritingKeepsHandshake DEF Procs
<1>3. ASSUME NEW p \in Procs, SharedStep(p) \/ OtherWritten(p) PROVE HandshakeInv'
  BY <1>3, SharedKeepsHandshake, WritingKeepsHandshake
<1>4. CASE ReaderStep \/ ReadInterrupted
  BY <1>4, ReaderKeepsHandshake
<1>5. CASE ClientStep \/ UNCHANGED vars
  <2>1. UNCHANGED <<sent, handshakeDone, streams, owed, pending, pc, arg>>
    BY <1>5, ClientEffect DEF ServerUnchanged, connVars, appVars, vars
  <2> QED BY <2>1 DEF HandshakeInv, FlagInv, HandshakeFirst, Greeted
<1> QED BY <1>1, <1>2, <1>3, <1>4, <1>5 DEF Next

\* Nothing but refusals leaves the server on a stream of its own or the client's before
\* the handshake reply (connection.py:245-259, 273, 295), for any threads and streams.
THEOREM ReplyOpensStreams == Spec => []HandshakeFirst
<1>1. HandshakeInv => HandshakeFirst
  BY DEF HandshakeInv
<1> QED BY <1>1, InitHandshake, HandshakeNext, TypeCorrect, PTL DEF Spec

-----------------------------------------------------------------------------
(* The packets of a stream: its requests and its close are sent once; one   *)
(* packet at most slips in behind a marker; what a stream has queued is     *)
(* read before its close is reported; and the client's requests are read in *)
(* order and each have one fate.                                           *)
(*                                                                         *)
(* All but the first rest on DeliveryStep, which says what any step of Next *)
(* does to the pipe, the queues, the callers and the reader thread's hand:  *)
(* the invariants are then carried over a dozen kinds of step and not over  *)
(* the thirty actions.                                                      *)

-----------------------------------------------------------------------------
(* What a stream sends.                                                     *)

RequestsOf(s) == {i \in 1..Len(sent) : sent[i].stream = s /\ sent[i].kind = "request"}
ClosesOf(s) == {i \in 1..Len(sent) : sent[i].stream = s /\ sent[i].kind = "close"}
Closing(t, s) ==
  pc[t] \in {"unblock", "write", "sending"} /\ arg[t].kind = "close" /\ arg[t].stream = s

\* The requests sent have used up the ids below next_message_id; the thread that is
\* writing one holds the stream's write lock and the next id.
NumberInv ==
  /\ \A s \in Ids :
       /\ \A i \in RequestsOf(s) : sent[i].id \in 1..(nextMessageId[s] - 1)
       /\ \A m \in 1..(nextMessageId[s] - 1) : \E i \in RequestsOf(s) : sent[i].id = m
       /\ \A i, j \in RequestsOf(s) : i < j => sent[i].id < sent[j].id
       /\ s \notin streams => nextMessageId[s] = 1
  /\ \A t \in Threads : Requesting(t) =>
       /\ writeLock[arg[t].stream] = t
       /\ arg[t].id = nextMessageId[arg[t].stream]

\* The close is announced by the one thread that has set the flag.
AnnounceInv ==
  \A s \in Ids :
    /\ ClosesOf(s) # {} => closed[s]
    /\ \A i, j \in ClosesOf(s) : i = j
    /\ \A t \in Threads : Closing(t, s) => closed[s] /\ ClosesOf(s) = {}
    /\ \A t, u \in Threads : Closing(t, s) /\ Closing(u, s) => t = u
SentInv == NumberInv /\ AnnounceInv

LEMMA InitSent == Init => SentInv
<1> SUFFICES ASSUME Init PROVE SentInv
  OBVIOUS
<1>1. /\ sent = <<>> /\ \A s \in Ids : nextMessageId[s] = 1
      /\ \A t \in Threads : pc[t] = "idle"
  BY ThreadsAssumption DEF Init, ConnInit, StreamInit, ThreadInit, Procs
<1>2. \A s : RequestsOf(s) = {} /\ ClosesOf(s) = {}
  BY <1>1 DEF RequestsOf, ClosesOf
<1> QED BY <1>1, <1>2 DEF SentInv, NumberInv, AnnounceInv, Requesting, Closing

\* A step that sends nothing, numbers nothing and begins neither a request nor a close.
LEMMA SentFrame ==
  ASSUME SentInv, UNCHANGED <<sent, nextMessageId, writeLock>>,
         streams \subseteq streams', \A s \in Ids : closed[s] => closed'[s],
         \A t \in Threads :
           pc'[t] \in {"unblock", "write", "sending"} /\ arg'[t].kind \in {"request", "close"}
             => pc[t] \in {"unblock", "write", "sending"} /\ arg'[t] = arg[t]
  PROVE  SentInv'
<1>1. \A t \in Threads : Requesting(t)' => Requesting(t) /\ arg'[t] = arg[t]
  BY DEF Requesting
<1>2. \A t \in Threads, s \in Ids : Closing(t, s)' => Closing(t, s)
  BY DEF Closing
<1>3. \A s : RequestsOf(s)' = RequestsOf(s) /\ ClosesOf(s)' = ClosesOf(s)
  BY DEF RequestsOf, ClosesOf
<1>4. NumberInv'
  BY <1>1, <1>3 DEF SentInv, NumberInv
<1>5. AnnounceInv'
  BY <1>2, <1>3 DEF SentInv, AnnounceInv
<1> QED BY <1>4, <1>5 DEF SentInv

\* The frame of a step that moves one process.
LEMMA SentMove ==
  ASSUME TypeOK, SentInv, NEW p \in Procs, NEW Ls, Moved(p, Ls),
         UNCHANGED <<sent, nextMessageId, writeLock>>,
         streams \subseteq streams', \A s \in Ids : closed[s] => closed'[s],
         p \in Threads =>
           \/ pc'[p] \notin {"unblock", "write", "sending"}
           \/ arg'[p].kind \notin {"request", "close"}
           \/ pc[p] \in {"unblock", "write", "sending"} /\ arg'[p] = arg[p]
  PROVE  SentInv'
<1>1. \A t \in Threads \ {p} : pc'[t] = pc[t] /\ arg'[t] = arg[t]
  BY DEF Moved, TypeOK, ThreadTypeOK, Procs
<1> QED BY <1>1, SentFrame

LEMMA SendBegins ==
  ASSUME TypeOK, SentInv, NEW t \in Threads, NEW s \in Ids, SendRequest(t, s)
  PROVE  SentInv'
<1>1. /\ t \in Procs /\ Threads \subseteq Procs /\ pc \in [Procs -> PCs] /\ arg \in [Procs -> Packet]
      /\ writeLock \in [Ids -> Threads \cup {Nobody}] /\ Nobody \notin Threads
      /\ nextMessageId[s] \in Nat
  BY ThreadsAssumption DEF TypeOK, ThreadTypeOK, StreamTypeOK, Procs
<1>2. /\ UNCHANGED <<sent, nextMessageId, streams, closed>>
      /\ writeLock[s] = Nobody /\ writeLock' = [writeLock EXCEPT ![s] = t]
      /\ pc' = [pc EXCEPT ![t] = "write"]
      /\ arg' = [arg EXCEPT ![t] = Pkt(s, nextMessageId[s], "request")]
  BY DEF SendRequest, Begin, GotoWith, connVars
<1>3. \A u : \A r : Closing(u, r)' /\ u \in Threads => Closing(u, r)
  BY <1>1, <1>2 DEF Closing, Pkt
<1>4. \A r : RequestsOf(r)' = RequestsOf(r) /\ ClosesOf(r)' = ClosesOf(r)
  BY <1>2 DEF RequestsOf, ClosesOf
<1>5. ASSUME NEW u \in Threads, Requesting(u)'
      PROVE  /\ writeLock'[arg'[u].stream] = u
             /\ arg'[u].id = nextMessageId'[arg'[u].stream]
  <2>1. CASE u = t
    BY <1>1, <1>2, <2>1 DEF Pkt
  <2>2. CASE u # t
    <3>1. Requesting(u) /\ arg'[u] = arg[u] /\ arg[u].stream \in Ids
      BY <1>1, <1>2, <1>5, <2>2, PacketFields DEF Requesting
    <3>2. writeLock[arg[u].stream] = u
      BY <3>1 DEF SentInv, NumberInv
    <3>3. arg[u].stream # s
      BY <1>1, <1>2, <3>2
    <3> QED BY <1>1, <1>2, <3>1, <3>2, <3>3 DEF SentInv, NumberInv
  <2> QED BY <2>1, <2>2
<1>6. NumberInv'
  BY <1>2, <1>4, <1>5 DEF SentInv, NumberInv
<1>7. AnnounceInv'
  BY <1>2, <1>3, <1>4 DEF SentInv, AnnounceInv
<1> QED BY <1>6, <1>7 DEF SentInv

LEMMA CloseBegins ==
  ASSUME TypeOK, SentInv, NEW t \in Threads, NEW s \in Ids, CloseStream(t, s)
  PROVE  SentInv'
<1>1. /\ t \in Procs /\ Threads \subseteq Procs /\ pc \in [Procs -> PCs] /\ arg \in [Procs -> Packet]
      /\ closed \in [Ids -> BOOLEAN]
  BY DEF TypeOK, ThreadTypeOK, StreamTypeOK, Procs
<1>2. Moved(t, CallPlaces) /\ UNCHANGED <<sent, streams>>
  BY CallEffect DEF CallStep, CloseStream, Begin
<1>3. CASE AtOnce(t)
  BY <1>1, <1>2, <1>3, SentMove DEF AtOnce, Return, GotoWith, streamVars
<1>4. CASE /\ ~closed[s] /\ closed' = [closed EXCEPT ![s] = TRUE]
           /\ GotoWith(t, "unblock", Pkt(s, CLOSE_STREAM_MESSAGE_ID, "close"))
           /\ UNCHANGED <<nextMessageId, writeLock>>
  <2>1. \A r : RequestsOf(r)' = RequestsOf(r) /\ ClosesOf(r)' = ClosesOf(r)
    BY <1>2 DEF RequestsOf, ClosesOf
  <2>2. \A u \in Threads : Requesting(u)' => Requesting(u) /\ arg'[u] = arg[u]
    BY <1>1, <1>4 DEF Requesting, GotoWith, Pkt
  <2>3. \A u \in Threads, r \in Ids : Closing(u, r)' => Closing(u, r) \/ (u = t /\ r = s)
    BY <1>1, <1>4 DEF Closing, GotoWith, Pkt
  <2>4. /\ \A r \in Ids : closed[r] => closed'[r]
        /\ ClosesOf(s) = {} /\ closed'[s] /\ \A u \in Threads : ~Closing(u, s)
    BY <1>1, <1>4 DEF SentInv, AnnounceInv
  <2>5. NumberInv'
    BY <1>2, <1>4, <2>1, <2>2 DEF SentInv, NumberInv
  <2>6. AnnounceInv'
    BY <1>2, <2>1, <2>3, <2>4 DEF SentInv, AnnounceInv
  <2> QED BY <2>5, <2>6 DEF SentInv
<1> QED BY <1>3, <1>4 DEF CloseStream, MarkClosed

LEMMA CallKeepsSent ==
  ASSUME TypeOK, SentInv, NEW t \in Threads, CallStep(t)
  PROVE  SentInv'
<1> USE DEF Begin, AtOnce, StartRead, connVars, streamVars
<1>1. t \in Procs /\ arg \in [Procs -> Packet] /\ pc \in [Procs -> PCs]
  BY DEF Procs, TypeOK, ThreadTypeOK
<1>2. Moved(t, CallPlaces) /\ UNCHANGED streams
  BY CallEffect
<1>3. ASSUME ReceiveHandshake(t) \/ NewStream(t) \/ Close(t) PROVE SentInv'
  <2>1. UNCHANGED <<sent, nextMessageId, writeLock, closed>>
    BY <1>3 DEF ReceiveHandshake, NewStream, Close
  <2>2. pc'[t] \notin {"unblock", "write", "sending"}
    BY <1>1, <1>3 DEF ReceiveHandshake, NewStream, Close, Return, Goto, GotoWith
  <2> QED BY <1>1, <1>2, <2>1, <2>2, SentMove
<1>4. ASSUME NEW s \in Ids, ReadRequest(t, s) \/ RegisterClientStream(t, s) PROVE SentInv'
  <2>1. UNCHANGED <<sent, nextMessageId, writeLock, closed>>
    BY <1>4 DEF ReadRequest, RegisterClientStream
  <2>2. pc'[t] \notin {"unblock", "write", "sending"}
    BY <1>1, <1>4 DEF ReadRequest, RegisterClientStream, Return, GotoWith
  <2> QED BY <1>1, <1>2, <2>1, <2>2, SentMove
<1>5. ASSUME NEW s, NEW m, Get(t, s, m) \/ WriteReply(t, s, m) PROVE SentInv'
  <2>1. UNCHANGED <<sent, nextMessageId, writeLock, closed>>
    BY <1>5 DEF Get, WriteReply
  <2>2. arg'[t].kind = "reply"
    BY <1>1, <1>5 DEF Get, WriteReply, GotoWith, Pkt
  <2> QED BY <1>1, <1>2, <2>1, <2>2, SentMove
<1> QED BY <1>3, <1>4, <1>5, SendBegins, CloseBegins DEF CallStep

LEMMA InnerKeepsSent ==
  ASSUME TypeOK, SentInv, FreshInv, RequestInv, NEW t \in Threads, InnerStep(t) \/ TimesOut(t)
  PROVE  SentInv'
<1> USE DEF AtOnce, connVars, streamVars
<1>1. /\ t \in Procs /\ Threads \subseteq Procs /\ arg \in [Procs -> Packet] /\ pc \in [Procs -> PCs]
      /\ closed \in [Ids -> BOOLEAN] /\ writeLock \in [Ids -> Threads \cup {Nobody}]
      /\ nextMessageId \in [Ids -> Nat \ {0}]
  BY DEF Procs, TypeOK, ThreadTypeOK, StreamTypeOK
<1>2. Moved(t, InnerPlaces)
  BY InnerEffect
<1>3. CASE Register(t)
  <2> DEFINE r == arg[t].stream
  <2>1. /\ UNCHANGED sent /\ r \in Ids /\ streams \subseteq streams'
        /\ pc' = [pc EXCEPT ![t] = IF t = Reader THEN "loop" ELSE "idle"]
        /\ arg' = [arg EXCEPT ![t] = SHUTDOWN]
    BY <1>1, <1>3, PacketFields DEF Register, Return, GotoWith, MakeStream
  <2>2. CASE AtOnce(t)
    BY <1>1, <1>2, <2>1, <2>2, SentMove
  <2>3. CASE r \notin streams /\ MakeStream(r)
    <3>1. \A q : RequestsOf(q)' = RequestsOf(q) /\ ClosesOf(q)' = ClosesOf(q)
      BY <2>1 DEF RequestsOf, ClosesOf
    <3>2. UNCHANGED nextMessageId
      BY <1>1, <2>1, <2>3 DEF MakeStream, SentInv, NumberInv
    <3>3. /\ UNCHANGED closed
          /\ \A q \in Ids \ {r} : writeLock'[q] = writeLock[q]
      BY <1>1, <2>1, <2>3 DEF MakeStream, FreshInv
    <3>4. \A u \in Threads : Requesting(u)' => Requesting(u) /\ arg'[u] = arg[u]
      BY <1>1, <2>1 DEF Requesting
    <3>5. \A u \in Threads, q \in Ids : Closing(u, q)' => Closing(u, q)
      BY <1>1, <2>1 DEF Closing
    <3>6. \A u \in Threads : Requesting(u) => arg[u].stream \in Ids \ {r}
      BY <1>1, <2>3, PacketFields DEF RequestInv
    <3>7. NumberInv'
      BY <2>1, <3>1, <3>2, <3>3, <3>4, <3>6 DEF SentInv, NumberInv
    <3>8. AnnounceInv'
      BY <3>1, <3>3, <3>5 DEF SentInv, AnnounceInv
    <3> QED BY <3>7, <3>8 DEF SentInv
  <2> QED BY <1>3, <2>2, <2>3 DEF Register
<1>4. CASE AnswerHandshake(t)
  <2>1. UNCHANGED <<sent, nextMessageId, writeLock, closed, streams>>
    BY <1>4 DEF AnswerHandshake, PopRequest
  <2>2. pc'[t] \notin {"unblock", "write", "sending"} \/ arg'[t].kind = "greeting"
    BY <1>1, <1>4 DEF AnswerHandshake, Return, GotoWith, Pkt
  <2> QED BY <1>1, <1>2, <2>1, <2>2, SentMove
<1>5. CASE SetHandshakeDone(t) \/ ReturnReply(t) \/ ReturnRequest(t) \/ ChooseTimeout(t)
           \/ TakeMarker(t) \/ TakePacket(t) \/ PollFindsNothing(t) \/ TimesOut(t)
           \/ RaiseClosed(t) \/ RaiseTimeout(t)
  <2>1. UNCHANGED <<sent, nextMessageId, writeLock, closed, streams>>
    BY SMTT(30), <1>5, EmptyEffect DEF SetHandshakeDone, ReturnReply, ReturnRequest, PopRequest,
       ChooseTimeout, TakeMarker, TakePacket, TakeNext
  <2>2. pc'[t] \notin {"unblock", "write", "sending"}
    BY <1>1, <1>5, EmptyEffect DEF SetHandshakeDone, ReturnReply, ReturnRequest, ChooseTimeout,
       TakeMarker, TakePacket, Return, Goto, GotoWith
  <2> QED BY SMTT(30), <1>1, <1>2, <2>1, <2>2, SentMove
<1> QED BY <1>3, <1>4, <1>5 DEF InnerStep

LEMMA RequestGoesOut ==
  ASSUME TypeOK, SentInv, RequestInv, NEW t \in Threads, RequestWritten(t)
  PROVE  SentInv'
<1>0. PICK s \in Ids : s = arg[t].stream
  BY PacketFields DEF TypeOK, ThreadTypeOK, Procs
<1> DEFINE n == nextMessageId[s]
<1>1. /\ t \in Procs /\ Threads \subseteq Procs /\ pc \in [Procs -> PCs] /\ arg \in [Procs -> Packet]
      /\ writeLock \in [Ids -> Threads \cup {Nobody}]
      /\ nextMessageId \in [Ids -> Nat \ {0}] /\ sent \in Seq(Packet)
  BY DEF TypeOK, ThreadTypeOK, StreamTypeOK, Procs
<1>2. /\ Requesting(t) /\ sent' = Append(sent, arg[t]) /\ arg[t].kind = "request"
      /\ UNCHANGED <<streams, closed>>
      /\ writeLock' = [writeLock EXCEPT ![s] = Nobody]
      /\ nextMessageId' = [nextMessageId EXCEPT ![s] = @ + 1]
      /\ pc' = [pc EXCEPT ![t] = IF t = Reader THEN "loop" ELSE "idle"]
      /\ arg' = [arg EXCEPT ![t] = SHUTDOWN]
  BY <1>0 DEF RequestWritten, Transmit, Requesting, Return, GotoWith
<1>3. arg[t].id = n /\ writeLock[s] = t
  BY <1>0, <1>2 DEF SentInv, NumberInv
<1>4. /\ Len(sent) \in Nat /\ Len(sent') = Len(sent) + 1 /\ sent'[Len(sent) + 1] = arg[t]
      /\ \A i \in 1..Len(sent) : sent'[i] = sent[i]
  BY <1>1, <1>2
<1>5. /\ \A r : ClosesOf(r)' = ClosesOf(r)
      /\ \A r : r # s => RequestsOf(r)' = RequestsOf(r)
      /\ RequestsOf(s)' = RequestsOf(s) \cup {Len(sent) + 1}
  <2>1. 1..Len(sent') = 1..Len(sent) \cup {Len(sent) + 1} /\ arg[t].stream = s
    BY <1>0, <1>4
  <2>2. \A r : ClosesOf(r)' = ClosesOf(r)
    BY <1>2, <1>4, <2>1 DEF ClosesOf
  <2>3. \A r : r # s => RequestsOf(r)' = RequestsOf(r)
    BY <1>2, <1>4, <2>1 DEF RequestsOf
  <2>4. RequestsOf(s)' = RequestsOf(s) \cup {Len(sent) + 1}
    BY <1>2, <1>4, <2>1 DEF RequestsOf
  <2> QED BY <2>2, <2>3, <2>4
<1>6. \A r : RequestsOf(r) \subseteq 1..Len(sent)
  BY DEF RequestsOf
<1>7. \A u \in Threads : Requesting(u)' => u # t /\ Requesting(u) /\ arg'[u] = arg[u]
  BY <1>1, <1>2, ThreadsAssumption DEF Requesting
<1>8. \A u \in Threads, r \in Ids : Closing(u, r)' => Closing(u, r)
  BY <1>1, <1>2 DEF Closing
<1>9. \A u \in Threads : Requesting(u) /\ u # t => arg[u].stream # s /\ arg[u].stream \in Ids
  BY <1>0, <1>1, <1>3, PacketFields DEF SentInv, NumberInv
<1>10. ASSUME NEW r \in Ids
       PROVE  /\ \A i \in RequestsOf(r)' : sent'[i].id \in 1..(nextMessageId'[r] - 1)
              /\ \A m \in 1..(nextMessageId'[r] - 1) : \E i \in RequestsOf(r)' : sent'[i].id = m
              /\ \A i, j \in RequestsOf(r)' : i < j => sent'[i].id < sent'[j].id
  <2>0. /\ \A i \in RequestsOf(r) : sent'[i].id = sent[i].id /\ sent[i].id \in 1..(nextMessageId[r] - 1)
        /\ \A m \in 1..(nextMessageId[r] - 1) : \E i \in RequestsOf(r) : sent[i].id = m
        /\ \A i, j \in RequestsOf(r) : i < j => sent[i].id < sent[j].id
    BY <1>4, <1>6 DEF SentInv, NumberInv
  <2>1. CASE r # s
    <3>1. RequestsOf(r)' = RequestsOf(r) /\ nextMessageId'[r] = nextMessageId[r]
      BY <1>1, <1>2, <1>5, <2>1
    <3> QED BY <2>0, <3>1
  <2>2. CASE r = s
    <3>1. nextMessageId'[r] = nextMessageId[r] + 1 /\ nextMessageId[r] \in Nat \ {0} /\ n = nextMessageId[r]
      BY <1>1, <1>2, <2>2
    <3>2. RequestsOf(r)' = RequestsOf(r) \cup {Len(sent) + 1} /\ sent'[Len(sent) + 1].id = nextMessageId[r]
      <4>1. sent'[Len(sent) + 1].id = n
        BY <1>3, <1>4
      <4> QED BY <1>5, <2>2, <3>1, <4>1
    <3>3. \A i \in RequestsOf(r)' : sent'[i].id \in 1..(nextMessageId'[r] - 1)
      BY <2>0, <3>1, <3>2
    <3>4. \A m \in 1..(nextMessageId'[r] - 1) : \E i \in RequestsOf(r)' : sent'[i].id = m
      <4> SUFFICES ASSUME NEW m \in 1..(nextMessageId'[r] - 1)
                   PROVE  \E i \in RequestsOf(r)' : sent'[i].id = m
        OBVIOUS
      <4>1. CASE m = nextMessageId[r]
        BY <3>2, <4>1
      <4>2. CASE m # nextMessageId[r]
        <5>1. m \in 1..(nextMessageId[r] - 1)
          BY <3>1, <4>2
        <5>2. PICK i \in RequestsOf(r) : sent[i].id = m
          BY <2>0, <5>1
        <5> QED BY <2>0, <3>2, <5>2
      <4> QED BY <4>1, <4>2
    <3>5. \A i, j \in RequestsOf(r)' : i < j => sent'[i].id < sent'[j].id
      <4> SUFFICES ASSUME NEW i \in RequestsOf(r)', NEW j \in RequestsOf(r)', i < j
                   PROVE  sent'[i].id < sent'[j].id
        OBVIOUS
      <4>1. i \in RequestsOf(r)
        BY <1>4, <1>6, <3>2
      <4>2. sent'[i].id = sent[i].id /\ sent[i].id < nextMessageId[r]
        BY <2>0, <3>1, <4>1
      <4>3. CASE j \in RequestsOf(r)
        BY <2>0, <4>1, <4>3
      <4>4. CASE j = Len(sent) + 1
        BY <3>2, <4>2, <4>4
      <4> QED BY <3>2, <4>3, <4>4
    <3> QED BY <3>3, <3>4, <3>5
  <2> QED BY <2>1, <2>2
<1>11. \A r \in Ids : r \notin streams' => nextMessageId'[r] = 1
  <2>1. s \in streams
    BY <1>0, <1>2 DEF RequestInv
  <2>2. \A r \in Ids \ {s} : nextMessageId'[r] = nextMessageId[r]
    BY <1>1, <1>2
  <2> QED BY <1>2, <2>1, <2>2 DEF SentInv, NumberInv
<1>12. NumberInv'
  BY ZenonT(60), <1>1, <1>2, <1>7, <1>9, <1>10, <1>11 DEF SentInv, NumberInv
<1>13. AnnounceInv'
  BY <1>2, <1>5, <1>8 DEF SentInv, AnnounceInv
<1> QED BY <1>12, <1>13 DEF SentInv

LEMMA OtherGoesOut ==
  ASSUME TypeOK, SentInv, FlagInv, NEW p \in Procs, OtherWritten(p)
  PROVE  SentInv'
<1>0. PICK s \in Ids : s = arg[p].stream
  BY PacketFields DEF TypeOK, ThreadTypeOK
<1>1. /\ Threads \subseteq Procs /\ pc \in [Procs -> PCs] /\ arg \in [Procs -> Packet]
      /\ sent \in Seq(Packet)
  BY DEF TypeOK, ThreadTypeOK, Procs
<1>2. /\ sent' = Append(sent, arg[p]) /\ arg[p].kind # "request" /\ pc[p] = "sending"
      /\ UNCHANGED <<streams, closed, nextMessageId, writeLock>>
      /\ \E l \in {"loop", "idle", "greeted"} : pc' = [pc EXCEPT ![p] = l]
      /\ \A q \in Procs \ {p} : arg'[q] = arg[q]
  BY <1>1 DEF OtherWritten, Transmit, Return, Goto, GotoWith
<1>3. /\ Len(sent) \in Nat /\ Len(sent') = Len(sent) + 1 /\ sent'[Len(sent) + 1] = arg[p]
      /\ \A i \in 1..Len(sent) : sent'[i] = sent[i]
  BY <1>1, <1>2
<1>4. \A r : RequestsOf(r)' = RequestsOf(r)
  BY <1>2, <1>3 DEF RequestsOf
<1>5. \A r : ClosesOf(r)' = ClosesOf(r) \cup {i \in {Len(sent) + 1} : arg[p].kind = "close" /\ s = r}
  BY <1>0, <1>2, <1>3 DEF ClosesOf
<1>6. \A r : RequestsOf(r) \subseteq 1..Len(sent)
  BY DEF RequestsOf
<1>7. \A u \in Threads : Requesting(u)' => Requesting(u) /\ arg'[u] = arg[u]
  BY <1>1, <1>2 DEF Requesting
<1>8. \A u \in Threads, r \in Ids : Closing(u, r)' => u # p /\ Closing(u, r)
  BY <1>1, <1>2 DEF Closing
<1>9. NumberInv'
  <2>1. \A r : \A i \in RequestsOf(r) : sent'[i] = sent[i]
    BY <1>3, <1>6
  <2>2. ASSUME NEW r \in Ids
        PROVE  /\ \A i \in RequestsOf(r)' : sent'[i].id \in 1..(nextMessageId'[r] - 1)
               /\ \A m \in 1..(nextMessageId'[r] - 1) : \E i \in RequestsOf(r)' : sent'[i].id = m
               /\ \A i, j \in RequestsOf(r)' : i < j => sent'[i].id < sent'[j].id
               /\ r \notin streams' => nextMessageId'[r] = 1
    <3>1. /\ \A i \in RequestsOf(r) : sent[i].id \in 1..(nextMessageId[r] - 1)
          /\ \A m \in 1..(nextMessageId[r] - 1) : \E i \in RequestsOf(r) : sent[i].id = m
          /\ \A i, j \in RequestsOf(r) : i < j => sent[i].id < sent[j].id
          /\ r \notin streams => nextMessageId[r] = 1
      BY DEF SentInv, NumberInv
    <3>2. RequestsOf(r)' = RequestsOf(r) /\ nextMessageId'[r] = nextMessageId[r]
      BY <1>2, <1>4
    <3>3. \A i \in RequestsOf(r) : sent'[i].id = sent[i].id
      BY <2>1
    <3>4. \A i \in RequestsOf(r)' : sent'[i].id \in 1..(nextMessageId'[r] - 1)
      BY <3>1, <3>2, <3>3
    <3>5. \A m \in 1..(nextMessageId'[r] - 1) : \E i \in RequestsOf(r)' : sent'[i].id = m
      BY <3>1, <3>2, <3>3
    <3>6. \A i, j \in RequestsOf(r)' : i < j => sent'[i].id < sent'[j].id
      BY <3>1, <3>2, <3>3
    <3>7. r \notin streams' => nextMessageId'[r] = 1
      BY <1>2, <3>1, <3>2
    <3> QED BY <3>4, <3>5, <3>6, <3>7
  <2>3. \A u \in Threads : Requesting(u)' =>
          /\ writeLock'[arg'[u].stream] = u
          /\ arg'[u].id = nextMessageId'[arg'[u].stream]
    BY <1>2, <1>7 DEF SentInv, NumberInv
  <2> QED BY <2>2, <2>3 DEF NumberInv
<1>10. AnnounceInv'
  <2>1. CASE arg[p].kind # "close"
    <3>1. \A r : ClosesOf(r)' = ClosesOf(r)
      BY <1>5, <2>1
    <3> QED BY <1>2, <1>8, <3>1 DEF SentInv, AnnounceInv
  <2>2. CASE arg[p].kind = "close"
    <3>1. p \in Threads /\ Closing(p, s)
      BY <1>0, <1>2, <2>2 DEF FlagInv, Procs, Closing
    <3>2. closed[s] /\ ClosesOf(s) = {} /\ \A u \in Threads : Closing(u, s) => u = p
      BY <1>1, <3>1 DEF SentInv, AnnounceInv
    <3>3. ClosesOf(s)' = {Len(sent) + 1} /\ \A r : r # s => ClosesOf(r)' = ClosesOf(r)
      BY <1>5, <2>2, <3>2
    <3> QED BY <1>2, <1>8, <3>2, <3>3 DEF SentInv, AnnounceInv
  <2> QED BY <2>1, <2>2
<1> QED BY <1>9, <1>10 DEF SentInv

\* A failed write gives the stream's write lock back and uses up no id.
LEMMA FailedWriteKeepsSent ==
  ASSUME TypeOK, SentInv, FlagInv, NEW p \in Procs, WriteFails(p)
  PROVE  SentInv'
<1> DEFINE s == arg[p].stream
<1>1. /\ Threads \subseteq Procs /\ pc \in [Procs -> PCs] /\ arg \in [Procs -> Packet]
      /\ writeLock \in [Ids -> Threads \cup {Nobody}] /\ s \in Ids
  BY PacketFields DEF TypeOK, ThreadTypeOK, StreamTypeOK, Procs
<1>2. /\ UNCHANGED <<sent, streams, closed, nextMessageId>> /\ pc[p] \in {"write", "sending"}
      /\ writeLock' = IF arg[p].kind = "request" THEN [writeLock EXCEPT ![s] = Nobody] ELSE writeLock
      /\ pc' = [pc EXCEPT ![p] = IF p = Reader THEN "loop" ELSE "idle"]
      /\ arg' = [arg EXCEPT ![p] = SHUTDOWN]
  BY DEF WriteFails, Return, GotoWith
<1>3. Moved(p, {"loop", "idle"})
  BY ReturnMovesAmong DEF WriteFails
<1>4. CASE arg[p].kind # "request"
  BY <1>1, <1>2, <1>3, <1>4, SentMove
<1>5. CASE arg[p].kind = "request"
  <2>1. p \in Threads /\ Requesting(p)
    BY <1>2, <1>5 DEF FlagInv, Procs, Requesting
  <2>2. writeLock[s] = p
    BY <2>1 DEF SentInv, NumberInv
  <2>3. \A r : RequestsOf(r)' = RequestsOf(r) /\ ClosesOf(r)' = ClosesOf(r)
    BY <1>2 DEF RequestsOf, ClosesOf
  <2>4. \A u \in Threads : Requesting(u)' => u # p /\ Requesting(u) /\ arg'[u] = arg[u]
    BY <1>1, <1>2, <2>1, ThreadsAssumption DEF Requesting
  <2>5. \A u \in Threads : Requesting(u) /\ u # p => arg[u].stream # s /\ arg[u].stream \in Ids
    BY <1>1, <2>2, PacketFields DEF SentInv, NumberInv
  <2>6. \A u \in Threads, r \in Ids : Closing(u, r)' => Closing(u, r)
    BY <1>1, <1>2 DEF Closing
  <2>7. NumberInv'
    BY <1>1, <1>2, <1>5, <2>3, <2>4, <2>5 DEF SentInv, NumberInv
  <2>8. AnnounceInv'
    BY <1>2, <2>3, <2>6 DEF SentInv, AnnounceInv
  <2> QED BY <2>7, <2>8 DEF SentInv
<1> QED BY <1>4, <1>5

LEMMA SharedKeepsSent ==
  ASSUME TypeOK, SentInv, FlagInv, NEW p \in Procs, SharedStep(p)
  PROVE  SentInv'
<1> USE DEF connVars
<1>1. Moved(p, WritePlaces) /\ arg \in [Procs -> Packet] /\ pc \in [Procs -> PCs]
  BY SharedEffect DEF TypeOK, ThreadTypeOK
<1>2. CASE WriteFails(p)
  BY <1>2, FailedWriteKeepsSent
<1>3. CASE Unblock(p) \/ AcquireWriter(p)
  <2>1. UNCHANGED <<sent, nextMessageId, writeLock, closed, streams>> /\ pc[p] \in {"unblock", "write"}
    BY <1>3 DEF Unblock, AcquireWriter, streamVars
  <2>2. pc'[p] \notin {"unblock", "write", "sending"} \/ arg'[p] = arg[p]
    BY <1>1, <1>3 DEF Unblock, AcquireWriter, Return, Goto, GotoWith
  <2> QED BY <1>1, <2>1, <2>2, SentMove
<1>4. CASE CloseUnderLock(p) \/ \E s \in Ids : ShutStream(p, s)
  <2>1. UNCHANGED <<sent, nextMessageId, writeLock, closed, streams>>
    BY <1>4 DEF CloseUnderLock, ShutStream, streamVars
  <2>2. pc'[p] \notin {"unblock", "write", "sending"}
    BY <1>1, <1>4 DEF CloseUnderLock, ShutStream, LeaveClose, Return, Goto, GotoWith
  <2> QED BY <1>1, <2>1, <2>2, SentMove
<1> QED BY <1>2, <1>3, <1>4 DEF SharedStep

LEMMA ReaderKeepsSent ==
  ASSUME TypeOK, SentInv, ReaderStep \/ ReadInterrupted
  PROVE  SentInv'
<1>1. Reader \in Procs /\ Reader \notin Threads /\ Moved(Reader, ReaderPlaces) /\ UNCHANGED streams
  BY ReaderEffect, ThreadsAssumption DEF Procs
<1>2. UNCHANGED <<sent, nextMessageId, writeLock>>
  BY DEF ReaderStep, ReadInterrupted, At, ReaderLoop, ReceivePacket, ReadFails, Refuse,
     IgnoreClose, PeerCloses, Accept, PutPacket
<1>3. \A s \in Ids : closed[s] => closed'[s]
  BY DEF ReaderStep, ReadInterrupted, ReaderLoop, ReceivePacket, ReadFails, Refuse, IgnoreClose,
     PeerCloses, Accept, PutPacket, MarkClosed, TypeOK, StreamTypeOK
<1> QED BY <1>1, <1>2, <1>3, SentMove

LEMMA SentNext == CloseInv /\ HandshakeInv /\ SentInv /\ [Next]_vars => SentInv'
<1> SUFFICES ASSUME CloseInv, HandshakeInv, SentInv, [Next]_vars PROVE SentInv'
  OBVIOUS
<1> USE DEF CloseInv, HandshakeInv
<1>1. ASSUME NEW t \in Threads, CallStep(t) \/ InnerStep(t) \/ TimesOut(t) \/ RequestWritten(t)
      PROVE  SentInv'
  BY <1>1, CallKeepsSent, InnerKeepsSent, RequestGoesOut
<1>2. ASSUME NEW p \in Procs, SharedStep(p) \/ OtherWritten(p) PROVE SentInv'
  BY <1>2, SharedKeepsSent, OtherGoesOut
<1>3. CASE ReaderStep \/ ReadInterrupted
  BY <1>3, ReaderKeepsSent
<1>4. CASE ClientStep \/ UNCHANGED vars
  <2>1. UNCHANGED <<sent, nextMessageId, writeLock, closed, streams, pc, arg>>
    BY <1>4, ClientEffect DEF ServerUnchanged, connVars, streamVars, vars
  <2> QED BY <2>1, SentFrame
<1> QED BY <1>1, <1>2, <1>3, <1>4 DEF Next

LEMMA SentInvSuffices == TypeOK /\ SentInv => NothingSentTwice
<1> SUFFICES ASSUME TypeOK, SentInv, NEW s \in Ids
             PROVE  /\ \A i, j \in RequestsOf(s) : i < j => sent[i].id < sent[j].id
                    /\ \A i \in RequestsOf(s) :
                         sent[i].id = 1 \/ \E j \in RequestsOf(s) : j < i /\ sent[j].id + 1 = sent[i].id
                    /\ \A i, j \in ClosesOf(s) : i = j
  BY DEF NothingSentTwice, RequestsOf, ClosesOf
<1>1. /\ \A i \in RequestsOf(s) : sent[i].id \in 1..(nextMessageId[s] - 1)
      /\ \A m \in 1..(nextMessageId[s] - 1) : \E i \in RequestsOf(s) : sent[i].id = m
      /\ \A i, j \in RequestsOf(s) : i < j => sent[i].id < sent[j].id
      /\ \A i, j \in ClosesOf(s) : i = j
      /\ nextMessageId[s] \in Nat /\ RequestsOf(s) \subseteq Nat
  BY SMTT(30) DEF SentInv, NumberInv, AnnounceInv, TypeOK, StreamTypeOK, RequestsOf
<1>2. ASSUME NEW i \in RequestsOf(s), sent[i].id # 1
      PROVE  \E j \in RequestsOf(s) : j < i /\ sent[j].id + 1 = sent[i].id
  <2>1. sent[i].id - 1 \in 1..(nextMessageId[s] - 1)
    BY <1>1, <1>2
  <2>2. PICK j \in RequestsOf(s) : sent[j].id = sent[i].id - 1
    BY <1>1, <2>1
  <2>3. ~(i < j) /\ i # j
    BY <1>1, <2>2
  <2> QED BY <1>1, <2>2, <2>3
<1> QED BY <1>1, <1>2

\* However threads race in write_request and close, and whichever writes fail, the
\* requests of a stream go out under 1, 2, 3, ... and its close once at most
\* (stream.py:91-99, 157-172), for any threads, streams and calls.
THEOREM SentOnce == Spec => []NothingSentTwice
BY InitClose, CloseNext, InitHandshake, HandshakeNext, InitSent, SentNext, SentInvSuffices,
   PTL DEF Spec, CloseInv

-----------------------------------------------------------------------------
(* What is queued behind a marker.                                          *)

\* Who is about to put a marker, and where the packets in transit come from.
ClientKinds == {"hello", "request", "reply", "close", "badclose", "corrupt"}
FromClient(p) ==
  /\ p.kind \in ClientKinds
  /\ p.kind \in {"close", "badclose"} => p.id = 0
  /\ p.kind \in {"hello", "request"} => p.id # 0

PlaceInv ==
  /\ \A p \in Procs : pc[p] = "unblock" => closed[arg[p].stream]
  /\ \A p \in Procs : pc[p] = "fanout" => ~running
  /\ \A p \in Procs : toShut[p] \subseteq streams
  /\ \A t \in Threads : arg[t].kind # "error"
KindInv ==
  /\ \A i \in 1..Len(pipeIn) : FromClient(pipeIn[i])
  /\ pc[Reader] \in {"dispatch", "put"} => FromClient(Arrived) /\ Arrived.kind # "corrupt"
  /\ pc[Reader] = "put" => ~IsClosePayload(Arrived) /\ Arrived.stream \in streams
  /\ \A s \in Ids : \A i \in 1..Len(unprocessed[s]) :
       \/ unprocessed[s][i] = SHUTDOWN
       \/ unprocessed[s][i].stream = s /\ unprocessed[s][i].kind \in {"hello", "request", "reply"}
  /\ \A s \in Ids : \A i \in 1..Len(requests[s]) :
       requests[s][i].stream = s /\ requests[s][i].kind \in {"hello", "request"}
  /\ \A s \in Ids \ streams : unprocessed[s] = <<>> /\ requests[s] = <<>>

Marked(q) == \E i \in 1..Len(q) : q[i] = SHUTDOWN
Behind(q) == {j \in 1..Len(q) : q[j] # SHUTDOWN /\ \E i \in 1..(j - 1) : q[i] = SHUTDOWN}

\* A marker is queued only on a stream the reader thread will not accept for again,
\* the one packet it has already accepted apart.
MarkerInv ==
  \A s \in Ids :
    LET q == unprocessed[s]
    IN  /\ Marked(q) => closed[s] \/ ~running
        /\ \A j, k \in Behind(q) : j = k
        /\ Behind(q) # {} =>
             /\ ~(pc[Reader] = "put" /\ Arrived.stream = s)
             /\ closed[s] \/ pc[Reader] \notin {"read", "dispatch", "put"}

LEMMA PktFields ==
  \A s, m, k : Pkt(s, m, k).stream = s /\ Pkt(s, m, k).id = m /\ Pkt(s, m, k).kind = k
BY DEF Pkt

\* Streams stay registered and closed, and the connection stays down.
LEMMA Monotone ==
  ASSUME TypeOK, FreshInv, [Next]_vars
  PROVE  /\ streams \subseteq streams' /\ (~running => ~running')
         /\ \A s \in Ids : closed[s] => closed'[s]
<1> USE DEF connVars, streamVars
<1>1. ~running => ~running'
  BY CloseOnceStep DEF vars
<1>2. ASSUME NEW t \in Threads, CallStep(t)
      PROVE  UNCHANGED streams /\ \A s \in Ids : closed[s] => closed'[s]
  <2>1. UNCHANGED closed \/ \E s \in Ids : closed' = [closed EXCEPT ![s] = TRUE]
    BY <1>2 DEF CallStep, ReceiveHandshake, NewStream, Close, ReadRequest, SendRequest,
       RegisterClientStream, CloseStream, Get, WriteReply, StartRead, AtOnce, MarkClosed
  <2> QED BY <1>2, <2>1, CallEffect DEF TypeOK, StreamTypeOK
<1>3. ASSUME NEW t \in Threads, InnerStep(t) \/ TimesOut(t)
      PROVE  streams \subseteq streams' /\ \A s \in Ids : closed[s] => closed'[s]
  <2>1. CASE Register(t)
    BY ZenonT(60), <2>1 DEF Register, AtOnce, MakeStream, FreshInv, TypeOK, StreamTypeOK
  <2>2. CASE ~Register(t)
    BY <1>3, <2>2, EmptyEffect DEF InnerStep, SetHandshakeDone, ReturnReply, ReturnRequest,
       PopRequest, AnswerHandshake, ChooseTimeout, TakeMarker, TakePacket, TakeNext
  <2> QED BY <2>1, <2>2
<1>4. ASSUME NEW p \in Procs,
             SharedStep(p) \/ OtherWritten(p) \/ (p \in Threads /\ RequestWritten(p))
      PROVE  UNCHANGED <<streams, closed>>
  BY <1>4 DEF SharedStep, OtherWritten, RequestWritten, Transmit, Unblock, AcquireWriter, WriteFails,
     CloseUnderLock, ShutStream
<1>5. ASSUME ReaderStep \/ ReadInterrupted
      PROVE  UNCHANGED streams /\ \A s \in Ids : closed[s] => closed'[s]
  <2>1. UNCHANGED closed \/ closed' = [closed EXCEPT ![Arrived.stream] = TRUE]
    BY <1>5 DEF ReaderStep, ReaderLoop, ReceivePacket, ReadFails, Refuse, IgnoreClose, PeerCloses,
       Accept, PutPacket, ReadInterrupted, MarkClosed
  <2> QED BY <1>5, <2>1, ReaderEffect DEF TypeOK, StreamTypeOK
<1>6. ClientStep \/ UNCHANGED vars => UNCHANGED <<streams, closed>>
  BY ClientEffect DEF ServerUnchanged, vars
<1>7. streams \subseteq streams'
  BY <1>2, <1>3, <1>4, <1>5, <1>6 DEF Next, Procs
<1>8. \A s \in Ids : closed[s] => closed'[s]
  BY <1>2, <1>3, <1>4, <1>5, <1>6 DEF Next, Procs
<1> QED BY <1>1, <1>7, <1>8

LEMMA InitPlace == Init => PlaceInv
<1> SUFFICES ASSUME Init PROVE PlaceInv
  OBVIOUS
<1>1. \A p \in Procs : pc[p] \in {"loop", "idle"} /\ toShut[p] = {} /\ arg[p] = SHUTDOWN
  BY DEF Init, ThreadInit
<1>2. SHUTDOWN.kind # "error" /\ Threads \subseteq Procs
  BY PktFields DEF SHUTDOWN, Procs
<1> QED BY <1>1, <1>2 DEF PlaceInv

\* A step of process p that is not one to put markers.
LEMMA PlaceFrame ==
  ASSUME TypeOK, FreshInv, PlaceInv, [Next]_vars, NEW p \in Procs, NEW Ls, Moved(p, Ls),
         \A q \in Procs : toShut'[q] \subseteq toShut[q],
         pc'[p] = "unblock" => closed'[arg'[p].stream],
         pc'[p] = "fanout" => ~running',
         p \in Threads => arg'[p].kind # "error"
  PROVE  PlaceInv'
<1>1. \A q \in Procs \ {p} : pc'[q] = pc[q] /\ arg'[q] = arg[q] /\ arg[q].stream \in Ids
  BY PacketFields DEF Moved, TypeOK, ThreadTypeOK
<1>2. /\ streams \subseteq streams' /\ (~running => ~running')
      /\ \A s \in Ids : closed[s] => closed'[s]
  BY Monotone
<1>3. \A q \in Procs : pc'[q] = "unblock" => closed'[arg'[q].stream]
  BY <1>1, <1>2 DEF PlaceInv
<1>4. \A q \in Procs : pc'[q] = "fanout" => ~running'
  BY <1>1, <1>2 DEF PlaceInv
<1>5. \A q \in Procs : toShut'[q] \subseteq streams'
  BY <1>2 DEF PlaceInv
<1>6. \A t \in Threads : arg'[t].kind # "error"
  BY <1>1 DEF PlaceInv, Procs
<1> QED BY <1>3, <1>4, <1>5, <1>6 DEF PlaceInv

LEMMA PlaceNext == CloseInv /\ HandshakeInv /\ KindInv /\ PlaceInv /\ [Next]_vars => PlaceInv'
<1> SUFFICES ASSUME CloseInv, HandshakeInv, KindInv, PlaceInv, [Next]_vars PROVE PlaceInv'
  OBVIOUS
<1> USE DEF CloseInv, connVars, streamVars, Begin, AtOnce
<1>0. /\ Threads \subseteq Procs /\ Reader \in Procs /\ Reader \notin Threads
      /\ pc \in [Procs -> PCs] /\ arg \in [Procs -> Packet] /\ SHUTDOWN.kind # "error"
      /\ closed \in [Ids -> BOOLEAN] /\ toShut \in [Procs -> SUBSET Ids]
      /\ requests \in [Ids -> Seq(Packet)] /\ 0 \in Ids
  BY ThreadsAssumption, IdsAssumption DEF TypeOK, ThreadTypeOK, StreamTypeOK, Procs, SHUTDOWN, Pkt
<1>1. ASSUME NEW t \in Threads, CallStep(t) PROVE PlaceInv'
  <2>0. Moved(t, CallPlaces) /\ UNCHANGED toShut
    BY <1>1, CallEffect
  <2>1. pc'[t] = "unblock" => closed'[arg'[t].stream]
    <3>1. ASSUME NEW s \in Ids, CloseStream(t, s) PROVE pc'[t] = "unblock" => closed'[arg'[t].stream]
      BY <1>0, <3>1 DEF CloseStream, MarkClosed, Return, GotoWith, Pkt
    <3>2. CASE ~\E s \in Ids : CloseStream(t, s)
      BY <1>0, <1>1, <3>2 DEF CallStep, ReceiveHandshake, NewStream, Close, ReadRequest, SendRequest,
         RegisterClientStream, Get, WriteReply, StartRead, Return, Goto, GotoWith
    <3> QED BY <3>1, <3>2
  <2>2. pc'[t] # "fanout"
    BY <1>0, <2>0 DEF Moved, CallPlaces
  <2>3. arg'[t].kind # "error"
    <3> USE DEF StartRead, Return, Goto, GotoWith
    <3>1. arg[t].kind # "error"
      BY DEF PlaceInv
    <3>2. CASE ReceiveHandshake(t) \/ NewStream(t) \/ Close(t)
      BY <1>0, <3>1, <3>2, PktFields DEF ReceiveHandshake, NewStream, Close
    <3>3. ASSUME NEW s \in Ids, ReadRequest(t, s) \/ SendRequest(t, s) \/ RegisterClientStream(t, s)
                                \/ CloseStream(t, s)
          PROVE  arg'[t].kind # "error"
      <4>1. CASE ReadRequest(t, s) \/ SendRequest(t, s)
        BY <1>0, <4>1, PktFields DEF ReadRequest, SendRequest
      <4>2. CASE RegisterClientStream(t, s)
        BY <1>0, <4>2, PktFields DEF RegisterClientStream
      <4>3. CASE CloseStream(t, s)
        <5>1. Return(t) \/ GotoWith(t, "unblock", Pkt(s, CLOSE_STREAM_MESSAGE_ID, "close"))
          BY <4>3 DEF CloseStream
        <5> QED BY <1>0, <5>1, PktFields
      <4> QED BY <3>3, <4>1, <4>2, <4>3
    <3>4. ASSUME NEW s, NEW m, Get(t, s, m) \/ WriteReply(t, s, m) PROVE arg'[t].kind # "error"
      BY <1>0, <3>4, PktFields DEF Get, WriteReply
    <3> QED BY <1>1, <3>2, <3>3, <3>4 DEF CallStep
  <2> QED BY <1>0, <2>0, <2>1, <2>2, <2>3, PlaceFrame
<1>2. ASSUME NEW t \in Threads, InnerStep(t) \/ TimesOut(t) PROVE PlaceInv'
  <2>0. Moved(t, InnerPlaces) /\ UNCHANGED toShut
    BY <1>2, InnerEffect
  <2>1. pc'[t] \notin {"unblock", "fanout"}
    BY <1>0, <2>0 DEF Moved, InnerPlaces
  <2>2. arg'[t].kind # "error"
    <3>1. CASE AnswerHandshake(t)
      BY <1>0, <3>1, PktFields DEF AnswerHandshake, Return, GotoWith
    <3>2. CASE ~AnswerHandshake(t)
      <4>1. Return(t) \/ UNCHANGED arg
        BY <1>2, <3>2, EmptyEffect DEF InnerStep, Register, SetHandshakeDone, ReturnReply,
           ReturnRequest, ChooseTimeout, TakeMarker, TakePacket, Goto
      <4> QED BY SMTT(30), <1>0, <4>1 DEF PlaceInv, Return, GotoWith
    <3> QED BY <3>1, <3>2
  <2> QED BY <1>0, <2>0, <2>1, <2>2, PlaceFrame
<1>3. ASSUME NEW p \in Procs, SharedStep(p) \/ OtherWritten(p) \/ (p \in Threads /\ RequestWritten(p))
      PROVE  PlaceInv'
  <2>0. Moved(p, WritePlaces)
    BY <1>3, SharedEffect
  <2>1. pc'[p] # "unblock"
    BY <1>0, <2>0 DEF Moved, WritePlaces
  <2>2. arg'[p] \in {arg[p], SHUTDOWN}
    BY <1>0, <1>3 DEF SharedStep, OtherWritten, RequestWritten, Unblock, AcquireWriter, WriteFails,
       CloseUnderLock, ShutStream, LeaveClose, Return, Goto, GotoWith
  <2>3. p \in Threads => arg'[p].kind # "error"
    BY <1>0, <2>2 DEF PlaceInv
  <2>4. CASE CloseUnderLock(p)
    <3>1. CASE ~running
      BY <1>0, <2>0, <2>1, <2>3, <2>4, <3>1, PlaceFrame DEF CloseUnderLock, LeaveClose
    <3>2. CASE running
      <4>1. /\ running' = FALSE /\ UNCHANGED <<streams, closed>>
            /\ toShut' = [toShut EXCEPT ![p] = streams]
            /\ \A q \in Procs \ {p} : pc'[q] = pc[q] /\ arg'[q] = arg[q]
        BY <1>0, <2>0, <2>4, <3>2 DEF CloseUnderLock, Moved
      <4>2. \A q \in Procs : toShut'[q] \subseteq streams'
        BY <1>0, <4>1 DEF PlaceInv
      <4>3. \A q \in Procs : pc'[q] = "unblock" => closed'[arg'[q].stream]
        BY <2>1, <4>1 DEF PlaceInv
      <4>4. \A t \in Threads : arg'[t].kind # "error"
        BY <1>0, <2>3, <4>1 DEF PlaceInv
      <4> QED BY <4>1, <4>2, <4>3, <4>4 DEF PlaceInv
    <3> QED BY <3>1, <3>2
  <2>5. CASE ~CloseUnderLock(p)
    <3>1. UNCHANGED running /\ \A q \in Procs : toShut'[q] \subseteq toShut[q]
      BY <1>0, <1>3, <2>5 DEF SharedStep, OtherWritten, RequestWritten, Transmit, Unblock, AcquireWriter,
         WriteFails, ShutStream
    <3>2. pc'[p] = "fanout" => ~running
      <4>1. pc'[p] = "fanout" => pc[p] = "fanout"
        BY <1>0, <1>3, <2>5 DEF SharedStep, OtherWritten, RequestWritten, Transmit, Unblock, AcquireWriter,
           WriteFails, ShutStream, Return, Goto, GotoWith
      <4> QED BY <4>1 DEF PlaceInv
    <3> QED BY <2>0, <2>1, <2>3, <3>1, <3>2, PlaceFrame
  <2> QED BY <2>4, <2>5
<1>4. ASSUME ReaderStep \/ ReadInterrupted PROVE PlaceInv'
  <2>0. Moved(Reader, ReaderPlaces) /\ UNCHANGED toShut
    BY <1>4, ReaderEffect
  <2>1. pc'[Reader] # "fanout"
    BY <1>0, <2>0 DEF Moved, ReaderPlaces
  <2>2. pc'[Reader] = "unblock" => closed'[arg'[Reader].stream]
    <3>1. CASE PeerCloses
      <4>1. Arrived.stream \in Ids
        BY <1>0, PacketFields DEF Arrived
      <4> QED BY <1>0, <3>1, <4>1 DEF PeerCloses, MarkClosed, Goto, Arrived
    <3>2. CASE ~PeerCloses
      BY <1>0, <1>4, <3>2 DEF ReaderStep, ReadInterrupted, ReaderLoop, ReceivePacket, ReadFails, Refuse,
         IgnoreClose, Accept, PutPacket, Return, Goto, GotoWith
    <3> QED BY <3>1, <3>2
  <2> QED BY <1>0, <2>0, <2>1, <2>2, PlaceFrame
<1>5. CASE ClientStep \/ UNCHANGED vars
  <2>1. UNCHANGED <<closed, running, streams, toShut, pc, arg>>
    BY <1>5, ClientEffect DEF ServerUnchanged, vars
  <2> QED BY <2>1 DEF PlaceInv
<1> QED BY <1>0, <1>1, <1>2, <1>3, <1>4, <1>5 DEF Next

-----------------------------------------------------------------------------
(* Sequences of packets.                                                    *)

LEMMA AppendFacts ==
  ASSUME NEW q \in Seq(Packet), NEW x \in Packet
  PROVE  /\ Append(q, x) \in Seq(Packet) /\ Len(Append(q, x)) = Len(q) + 1 /\ Len(q) \in Nat
         /\ \A i \in 1..Len(q) : Append(q, x)[i] = q[i]
         /\ Append(q, x)[Len(q) + 1] = x
         /\ 1..(Len(q) + 1) = 1..Len(q) \cup {Len(q) + 1}
<1>1. Len(q) \in Nat
  OBVIOUS
<1>2. 1..(Len(q) + 1) = 1..Len(q) \cup {Len(q) + 1}
  BY <1>1
<1> QED BY <1>1, <1>2

LEMMA TailFacts ==
  ASSUME NEW q \in Seq(Packet), q # <<>>
  PROVE  /\ Tail(q) \in Seq(Packet) /\ Head(q) = q[1] /\ Head(q) \in Packet
         /\ Len(q) \in Nat \ {0} /\ Len(Tail(q)) = Len(q) - 1
         /\ \A i \in 1..(Len(q) - 1) : Tail(q)[i] = q[i + 1] /\ i + 1 \in 1..Len(q)
OBVIOUS

LEMMA MarkedAppend ==
  ASSUME NEW q \in Seq(Packet), NEW x \in Packet
  PROVE  /\ Marked(Append(q, x)) <=> Marked(q) \/ x = SHUTDOWN
         /\ x = SHUTDOWN => Behind(Append(q, x)) = Behind(q)
         /\ x # SHUTDOWN => Behind(Append(q, x)) = Behind(q) \cup {j \in {Len(q) + 1} : Marked(q)}
<1> DEFINE r == Append(q, x)
<1>1. /\ Len(r) = Len(q) + 1 /\ Len(q) \in Nat
      /\ \A i \in 1..Len(q) : r[i] = q[i]
      /\ r[Len(q) + 1] = x
      /\ 1..Len(r) = 1..Len(q) \cup {Len(q) + 1}
  BY AppendFacts
<1> HIDE DEF r
<1>2. Marked(r) <=> Marked(q) \/ x = SHUTDOWN
  BY <1>1 DEF Marked
<1>3. \A j \in 1..Len(q) : j \in Behind(r) <=> j \in Behind(q)
  <2> SUFFICES ASSUME NEW j \in 1..Len(q) PROVE j \in Behind(r) <=> j \in Behind(q)
    OBVIOUS
  <2>1. \A i \in 1..(j - 1) : r[i] = q[i]
    BY <1>1
  <2>2. j \in 1..Len(r) /\ r[j] = q[j]
    BY <1>1
  <2> QED BY <2>1, <2>2 DEF Behind
<1>4. Len(q) + 1 \in Behind(r) <=> x # SHUTDOWN /\ Marked(q)
  <2>1. (Len(q) + 1) - 1 = Len(q)
    BY <1>1
  <2> QED BY <1>1, <2>1 DEF Behind, Marked
<1>5. Behind(r) \subseteq 1..Len(q) \cup {Len(q) + 1} /\ Behind(q) \subseteq 1..Len(q)
  BY <1>1 DEF Behind
<1>6. x = SHUTDOWN => Behind(r) = Behind(q)
  BY <1>3, <1>4, <1>5
<1>7. x # SHUTDOWN => Behind(r) = Behind(q) \cup {j \in {Len(q) + 1} : Marked(q)}
  BY <1>3, <1>4, <1>5
<1> QED BY <1>2, <1>6, <1>7 DEF r

LEMMA MarkedTail ==
  ASSUME NEW q \in Seq(Packet), q # <<>>
  PROVE  /\ Marked(Tail(q)) => Marked(q)
         /\ \A j \in Behind(Tail(q)) : j + 1 \in Behind(q)
<1>1. /\ Len(q) \in Nat \ {0} /\ Len(Tail(q)) = Len(q) - 1
      /\ \A i \in 1..(Len(q) - 1) : Tail(q)[i] = q[i + 1] /\ i + 1 \in 1..Len(q)
  BY TailFacts
<1>2. Marked(Tail(q)) => Marked(q)
  BY <1>1 DEF Marked
<1>3. ASSUME NEW j \in Behind(Tail(q)) PROVE j + 1 \in Behind(q)
  <2>1. j \in 1..(Len(q) - 1) /\ Tail(q)[j] # SHUTDOWN
    BY <1>1 DEF Behind
  <2>2. PICK i \in 1..(j - 1) : Tail(q)[i] = SHUTDOWN
    BY DEF Behind
  <2>3. i + 1 \in 1..((j + 1) - 1) /\ q[i + 1] = SHUTDOWN
    BY <1>1, <2>1, <2>2
  <2>4. j + 1 \in 1..Len(q) /\ q[j + 1] # SHUTDOWN
    BY <1>1, <2>1
  <2> QED BY <2>3, <2>4 DEF Behind
<1> QED BY <1>2, <1>3

-----------------------------------------------------------------------------
(* What a step does to the packets under way.                               *)

\* The refusal or request in the reader thread's hand stays in it.
HandKept == \A s \in Ids : \A m \in Nat \ {0} : InHand(s, m)' <=> InHand(s, m)

Quiet == UNCHANGED <<pipeIn, requests, unprocessed, taken, sent, clientNext>>
DropsRefusal == Quiet /\ WriteFails(Reader)
PutsMarker(s) ==
  /\ s \in streams /\ Put(s, SHUTDOWN) /\ (closed[s] \/ ~running)
  /\ UNCHANGED <<pipeIn, requests, taken, sent, clientNext>>
Takes(s) == unprocessed[s] # <<>> /\ unprocessed' = [unprocessed EXCEPT ![s] = Tail(@)]
TakesOther(s) ==
  /\ Takes(s)
  /\ Head(unprocessed[s]) = SHUTDOWN \/ Head(unprocessed[s]).kind = "reply"
  /\ UNCHANGED <<pipeIn, requests, taken, sent, clientNext>>
MovesRequest(s) ==
  /\ Takes(s)
  /\ Head(unprocessed[s]) # SHUTDOWN /\ Head(unprocessed[s]).kind # "reply"
  /\ requests' = [requests EXCEPT ![s] = Append(@, Head(unprocessed[s]))]
  /\ UNCHANGED <<pipeIn, taken, sent, clientNext>>
PopsRequest(s) ==
  /\ requests[s] # <<>> /\ requests' = [requests EXCEPT ![s] = Tail(@)]
  /\ taken' = [taken EXCEPT ![s] = Append(@, Head(requests[s]).id)]
  /\ UNCHANGED <<pipeIn, unprocessed, sent, clientNext>>
Sends(x) ==
  /\ x.kind # "error" /\ sent' = Append(sent, x)
  /\ UNCHANGED <<pipeIn, requests, unprocessed, taken, clientNext>>
Refused ==
  /\ pc[Reader] = "sending" /\ Arrived.kind = "error" /\ sent' = Append(sent, Arrived)
  /\ pc'[Reader] = "loop"
  /\ UNCHANGED <<pipeIn, requests, unprocessed, taken, clientNext>>
Receives ==
  /\ ReceivePacket /\ UNCHANGED <<requests, unprocessed, taken, sent, clientNext>>
Puts ==
  /\ PutPacket /\ UNCHANGED <<pipeIn, requests, taken, sent, clientNext>>
ClientSends(x) ==
  /\ FromClient(x) /\ pipeIn' = Append(pipeIn, x)
  /\ UNCHANGED <<requests, unprocessed, taken, sent>>
ClientSendsRequest(s, k) ==
  /\ k \in {"hello", "request"}
  /\ ClientSends(Pkt(s, clientNext[s], k)) /\ clientNext' = [clientNext EXCEPT ![s] = @ + 1]
ClientSendsOther(x) ==
  /\ x \in Packet /\ x.kind \notin {"hello", "request"} /\ ClientSends(x) /\ UNCHANGED clientNext

DeliveryStep ==
  \/ /\ HandKept
     /\ \/ Quiet
        \/ \E s \in Ids : PutsMarker(s) \/ TakesOther(s) \/ MovesRequest(s) \/ PopsRequest(s)
        \/ \E x \in Packet : Sends(x)
        \/ \E s \in Ids, k \in {"hello", "request"} : ClientSendsRequest(s, k)
        \/ \E x \in Packet : ClientSendsOther(x)
  \/ DropsRefusal \/ Refused \/ Receives \/ Puts

LEMMA HandFrame == pc'[Reader] = pc[Reader] /\ arg'[Reader] = arg[Reader] => HandKept
BY DEF HandKept, InHand, IsRequest, IsRefusal, Arrived

\* The reader's hand is empty: before or after a step.
HandPlaces == {"dispatch", "put", "write", "sending"}
LEMMA HandEmpty ==
  ASSUME pc[Reader] \notin HandPlaces, pc'[Reader] \notin HandPlaces
  PROVE  HandKept
BY DEF HandKept, InHand, HandPlaces

LEMMA ThreadDelivery ==
  ASSUME CloseInv, HandshakeInv, PlaceInv, KindInv, NEW t \in Threads,
         CallStep(t) \/ InnerStep(t) \/ TimesOut(t) \/ RequestWritten(t)
  PROVE  DeliveryStep
<1> USE DEF CloseInv, connVars, streamVars, queueVars, clientVars, appVars, Begin, AtOnce
<1>0. /\ Threads \subseteq Procs /\ Reader \in Procs /\ t # Reader /\ t \in Procs
      /\ arg \in [Procs -> Packet] /\ pc \in [Procs -> PCs] /\ arg[t] \in Packet /\ arg[t].stream \in Ids
      /\ requests \in [Ids -> Seq(Packet)] /\ unprocessed \in [Ids -> Seq(Packet)] /\ 0 \in Ids
  BY ThreadsAssumption, IdsAssumption, PacketFields DEF TypeOK, ThreadTypeOK, StreamTypeOK, Procs
<1>1. HandKept
  <2>1. \E Ls : Moved(t, Ls)
    BY <1>0, CallEffect, InnerEffect, SharedEffect
  <2> QED BY <1>0, <2>1, HandFrame DEF Moved
<1>2. CASE CallStep(t)
  <2>1. Quiet
    BY <1>2 DEF CallStep, ReceiveHandshake, NewStream, Close, ReadRequest, SendRequest, RegisterClientStream,
       CloseStream, Get, WriteReply, StartRead, Quiet
  <2> QED BY SMTT(30), <1>1, <2>1 DEF DeliveryStep
<1>3. CASE RequestWritten(t)
  <2>1. Sends(arg[t])
    BY <1>3 DEF RequestWritten, Transmit, Sends
  <2> QED BY <1>0, <1>1, <2>1 DEF DeliveryStep
<1>4. CASE Register(t)
  <2>1. CASE AtOnce(t)
    BY <1>1, <1>4, <2>1 DEF Register, Quiet, DeliveryStep
  <2>2. CASE arg[t].stream \notin streams /\ MakeStream(arg[t].stream)
    <3>1. unprocessed[arg[t].stream] = <<>> /\ requests[arg[t].stream] = <<>>
      BY <1>0, <2>2 DEF KindInv
    <3>2. UNCHANGED <<unprocessed, requests>>
      BY <1>0, <2>2, <3>1 DEF MakeStream
    <3> QED BY <1>1, <1>4, <2>2, <3>2 DEF Register, MakeStream, Quiet, DeliveryStep
  <2> QED BY <1>4, <2>1, <2>2 DEF Register
<1>5. CASE \/ SetHandshakeDone(t) \/ ReturnReply(t) \/ ChooseTimeout(t) \/ PollFindsNothing(t)
           \/ TimesOut(t) \/ RaiseClosed(t) \/ RaiseTimeout(t)
  <2>1. Quiet
    BY <1>5, EmptyEffect DEF SetHandshakeDone, ReturnReply, ChooseTimeout, Quiet
  <2> QED BY <1>1, <2>1 DEF DeliveryStep
<1>6. CASE ReturnRequest(t) \/ AnswerHandshake(t)
  <2>1. PICK s \in Ids : PopRequest(t, s, Head(requests[s]))
    BY <1>0, <1>6 DEF ReturnRequest, AnswerHandshake
  <2>2. PopsRequest(s)
    BY <1>0, <2>1 DEF PopRequest, Found, PopsRequest
  <2> QED BY <1>1, <2>2 DEF DeliveryStep
<1>7. CASE TakeMarker(t)
  <2>1. TakesOther(arg[t].stream)
    BY <1>7 DEF TakeMarker, TakeNext, TakesOther, Takes
  <2> QED BY <1>0, <1>1, <2>1 DEF DeliveryStep
<1>8. CASE TakePacket(t)
  <2>1. PICK s \in Ids : s = arg[t].stream
    BY <1>0
  <2>2. /\ Takes(s) /\ UNCHANGED <<pipeIn, taken, sent, clientNext>> /\ Head(unprocessed[s]) # SHUTDOWN
    BY <1>8, <2>1 DEF TakePacket, TakeNext, Takes
  <2>3. Head(unprocessed[s]).kind \in {"hello", "request", "reply"}
    <3>1. Head(unprocessed[s]) = unprocessed[s][1] /\ 1 \in 1..Len(unprocessed[s])
      BY SMTT(30), <1>0, <2>2, TailFacts DEF Takes
    <3> QED BY <2>2, <3>1 DEF KindInv
  <2>4. \/ Head(unprocessed[s]).kind = "reply" /\ UNCHANGED requests
        \/ /\ Head(unprocessed[s]).kind # "reply"
           /\ requests' = [requests EXCEPT ![s] = Append(@, Head(unprocessed[s]))]
    BY <1>8, <2>1, <2>3 DEF TakePacket, IsReply
  <2>5. TakesOther(s) \/ MovesRequest(s)
    BY <2>2, <2>4 DEF TakesOther, MovesRequest
  <2> QED BY <1>1, <2>5 DEF DeliveryStep
<1> QED BY <1>2, <1>3, <1>4, <1>5, <1>6, <1>7, <1>8 DEF InnerStep

LEMMA SharedDelivery ==
  ASSUME CloseInv, HandshakeInv, PlaceInv, KindInv, NEW p \in Procs, SharedStep(p) \/ OtherWritten(p)
  PROVE  DeliveryStep
<1> USE DEF CloseInv, connVars, streamVars, queueVars, clientVars, appVars
<1>0. /\ Reader \in Procs /\ arg[p] \in Packet /\ arg[p].stream \in Ids
      /\ arg \in [Procs -> Packet] /\ pc \in [Procs -> PCs] /\ closed \in [Ids -> BOOLEAN]
  BY PacketFields DEF TypeOK, ThreadTypeOK, StreamTypeOK, Procs
<1>1. Moved(p, WritePlaces)
  BY SharedEffect
<1>2. p # Reader => HandKept
  BY <1>0, <1>1, HandFrame DEF Moved
<1>3. CASE Unblock(p)
  <2>1. PutsMarker(arg[p].stream)
    BY <1>0, <1>3 DEF Unblock, PutsMarker, PlaceInv, FreshInv
  <2>2. p = Reader => HandKept
    BY <1>0, <1>3, HandEmpty DEF Unblock, Return, GotoWith, HandPlaces
  <2> QED BY <1>0, <1>2, <2>1, <2>2 DEF DeliveryStep
<1>4. CASE AcquireWriter(p)
  <2>1. p = Reader => HandKept
    BY <1>0, <1>4 DEF AcquireWriter, Goto, HandKept, InHand, IsRequest, IsRefusal, Arrived
  <2> QED BY <1>2, <1>4, <2>1 DEF AcquireWriter, Quiet, DeliveryStep
<1>5. CASE WriteFails(p)
  <2>1. Quiet
    BY <1>5 DEF WriteFails, Quiet
  <2> QED BY <1>2, <1>5, <2>1 DEF DropsRefusal, DeliveryStep
<1>6. CASE CloseUnderLock(p)
  <2>1. p = Reader => HandKept
    BY <1>0, <1>6, HandEmpty DEF CloseUnderLock, LeaveClose, Return, Goto, GotoWith, HandPlaces
  <2> QED BY <1>2, <1>6, <2>1 DEF CloseUnderLock, Quiet, DeliveryStep
<1>7. ASSUME NEW s \in Ids, ShutStream(p, s) PROVE DeliveryStep
  <2>1. p = Reader => HandKept
    BY <1>0, <1>7, HandEmpty DEF ShutStream, LeaveClose, Return, Goto, GotoWith, HandPlaces
  <2>2. s \in streams /\ ~running
    BY <1>7 DEF ShutStream, PlaceInv
  <2>3. PutsMarker(s) \/ Quiet
    BY <1>7, <2>2 DEF ShutStream, PutsMarker, Quiet
  <2> QED BY <1>2, <2>1, <2>3 DEF DeliveryStep
<1>8. CASE OtherWritten(p)
  <2>1. CASE p # Reader
    <3>1. arg[p].kind # "error"
      BY <2>1 DEF PlaceInv, Procs
    <3>2. Sends(arg[p])
      BY <1>8, <3>1 DEF OtherWritten, Transmit, Sends
    <3> QED BY <1>0, <1>2, <2>1, <3>2 DEF DeliveryStep
  <2>2. CASE p = Reader
    <3>1. pc[Reader] = "sending" /\ Arrived.kind = "error"
      BY <1>8, <2>2 DEF OtherWritten, Transmit, HandshakeInv, FlagInv, Arrived
    <3>2. Refused
      BY <1>0, <1>8, <2>2, <3>1 DEF OtherWritten, Transmit, Refused, Arrived, Return, GotoWith
    <3> QED BY <3>2 DEF DeliveryStep
  <2> QED BY <2>1, <2>2
<1> QED BY <1>3, <1>4, <1>5, <1>6, <1>7, <1>8 DEF SharedStep

LEMMA ReaderDelivery ==
  ASSUME CloseInv, HandshakeInv, PlaceInv, KindInv, ReaderStep \/ ReadInterrupted
  PROVE  DeliveryStep
<1> USE DEF CloseInv, At, appVars, Return, Goto, GotoWith
<1>0. /\ Reader \in Procs /\ Arrived \in Packet /\ Arrived.kind \in AllKinds
      /\ arg \in [Procs -> Packet] /\ pc \in [Procs -> PCs]
  BY PacketFields DEF TypeOK, ThreadTypeOK, Procs, Arrived
<1>1. CASE ReaderLoop \/ ReadFails \/ ReadInterrupted
  <2>1. HandKept
    BY <1>0, <1>1, HandEmpty DEF ReaderLoop, ReadFails, ReadInterrupted, HandPlaces
  <2> QED BY <1>1, <2>1 DEF ReaderLoop, ReadFails, ReadInterrupted, Quiet, DeliveryStep
<1>2. CASE ReceivePacket
  BY <1>2 DEF ReceivePacket, Receives, DeliveryStep
<1>3. CASE PutPacket
  BY <1>3 DEF PutPacket, Puts, DeliveryStep
<1>4. CASE Accept
  <2>1. HandKept
    BY <1>0, <1>4 DEF Accept, HandKept, InHand, IsRequest, IsRefusal, Arrived
  <2> QED BY <1>4, <2>1 DEF Accept, Quiet, DeliveryStep
<1>5. CASE IgnoreClose \/ PeerCloses
  <2>1. /\ pc[Reader] = "dispatch" /\ pc'[Reader] \in {"loop", "unblock"}
        /\ Arrived.kind \in {"close", "badclose"}
    BY <1>0, <1>5 DEF IgnoreClose, PeerCloses
  <2>2. HandKept
    BY <2>1 DEF HandKept, InHand, IsRequest
  <2> QED BY <1>5, <2>2 DEF IgnoreClose, PeerCloses, Quiet, DeliveryStep
<1>6. CASE Refuse
  <2>1. pc[Reader] = "dispatch" /\ FromClient(Arrived) /\ Arrived.kind # "corrupt"
    BY <1>6 DEF Refuse, KindInv
  <2>2. CASE IsReply(Arrived)
    <3>1. pc'[Reader] = "loop" /\ Arrived.kind \notin {"hello", "request"}
      BY <1>0, <1>6, <2>2 DEF Refuse, IsReply
    <3> QED BY <1>6, <2>1, <3>1 DEF Refuse, HandKept, InHand, IsRequest, Quiet, DeliveryStep
  <2>3. CASE ~IsReply(Arrived)
    <3>1. pc'[Reader] = "write" /\ Arrived' = Pkt(Arrived.stream, Arrived.id, "error")
      BY <1>0, <1>6, <2>3 DEF Refuse, Arrived
    <3>2. \/ Arrived.kind \in {"hello", "request"}
          \/ Arrived.id = 0 /\ Arrived.kind \notin {"hello", "request"}
      BY <2>1, <2>3 DEF IsReply, FromClient, ClientKinds
    <3>3. HandKept
      BY <2>1, <3>1, <3>2, PktFields DEF HandKept, InHand, IsRequest, IsRefusal
    <3> QED BY <1>6, <3>3 DEF Refuse, Quiet, DeliveryStep
  <2> QED BY <2>2, <2>3
<1> QED BY <1>1, <1>2, <1>3, <1>4, <1>5, <1>6 DEF ReaderStep

LEMMA ClientDelivery ==
  ASSUME TypeOK, ClientStep
  PROVE  DeliveryStep
<1> USE DEF ServerUnchanged, connVars, streamVars, queueVars, appVars
<1>1. HandKept /\ UNCHANGED <<requests, unprocessed, taken, sent>>
  BY ClientEffect, HandFrame
<1>2. ASSUME NEW s \in Ids, NEW k \in {"hello", "request"}, ClientRequest(s, k)
      PROVE  DeliveryStep
  <2>1. FromClient(Pkt(s, clientNext[s], k))
    BY PktFields DEF FromClient, ClientKinds, TypeOK, ClientTypeOK
  <2>2. ClientSendsRequest(s, k)
    BY <1>1, <1>2, <2>1 DEF ClientRequest, ClientWrites, ClientSendsRequest, ClientSends
  <2> QED BY <1>1, <2>2 DEF DeliveryStep
<1>3. ASSUME NEW s \in Ids, NEW k \in {"close", "badclose", "corrupt"}, ClientOther(s, k)
      PROVE  DeliveryStep
  <2> DEFINE x == Pkt(s, CLOSE_STREAM_MESSAGE_ID, k)
  <2>1. FromClient(x) /\ x \in Packet /\ x.kind \notin {"hello", "request"}
    BY PktFields, PktType DEF FromClient, ClientKinds, CLOSE_STREAM_MESSAGE_ID, AllKinds
  <2>2. ClientSendsOther(x)
    BY <1>1, <1>3, <2>1 DEF ClientOther, ClientWrites, ClientSendsOther, ClientSends
  <2> QED BY <1>1, <2>1, <2>2 DEF DeliveryStep
<1>4. ASSUME NEW i \in 1..Len(sent), ClientReplies(sent[i]) PROVE DeliveryStep
  <2> DEFINE x == Pkt(sent[i].stream, sent[i].id, "reply")
  <2>1. FromClient(x) /\ x \in Packet /\ x.kind \notin {"hello", "request"}
    BY PktFields, PktType, PacketFields DEF FromClient, ClientKinds, AllKinds, TypeOK, ThreadTypeOK
  <2>2. ClientSendsOther(x)
    BY <1>1, <1>4, <2>1 DEF ClientReplies, ClientWrites, ClientSendsOther, ClientSends
  <2> QED BY <1>1, <2>1, <2>2 DEF DeliveryStep
<1>5. CASE Disconnect
  BY <1>1, <1>5 DEF Disconnect, Quiet, DeliveryStep
<1> QED BY <1>2, <1>3, <1>4, <1>5 DEF ClientStep

LEMMA DeliverySteps ==
  CloseInv /\ HandshakeInv /\ PlaceInv /\ KindInv /\ [Next]_vars => DeliveryStep
<1>1. UNCHANGED vars => DeliveryStep
  BY HandFrame DEF vars, connVars, streamVars, queueVars, clientVars, appVars, Quiet, DeliveryStep
<1> QED BY <1>1, ThreadDelivery, SharedDelivery, ReaderDelivery, ClientDelivery DEF Next, CloseInv

LEMMA InitKind == Init => KindInv
BY ThreadsAssumption DEF Init, ConnInit, StreamInit, ThreadInit, KindInv, Procs

\* How the reader thread comes to hold a packet.
LEMMA ReaderComes ==
  ASSUME TypeOK, [Next]_vars, pc'[Reader] \in {"read", "dispatch", "put"}
  PROVE  \/ pc'[Reader] = pc[Reader] /\ arg'[Reader] = arg[Reader]
         \/ ReaderLoop /\ running /\ pc'[Reader] = "read"
         \/ ReceivePacket /\ pc'[Reader] = "dispatch" /\ arg'[Reader] = Head(pipeIn)
         \/ Accept /\ pc'[Reader] = "put" /\ arg'[Reader] = arg[Reader]
<1> USE DEF Return, Goto, GotoWith
<1>0. Reader \in Procs /\ pc \in [Procs -> PCs] /\ arg \in [Procs -> Packet] /\ Reader \notin Threads
  BY ThreadsAssumption DEF TypeOK, ThreadTypeOK, Procs
<1>1. ASSUME NEW t \in Threads, CallStep(t) \/ InnerStep(t) \/ TimesOut(t) \/ RequestWritten(t)
      PROVE  pc'[Reader] = pc[Reader] /\ arg'[Reader] = arg[Reader]
  <2>1. t \in Procs /\ \E Ls : Moved(t, Ls)
    BY <1>1, CallEffect, InnerEffect, SharedEffect DEF Procs
  <2> QED BY <1>0, <2>1 DEF Moved
<1>2. ASSUME NEW p \in Procs, SharedStep(p) \/ OtherWritten(p)
      PROVE  p # Reader /\ pc'[Reader] = pc[Reader] /\ arg'[Reader] = arg[Reader]
  BY <1>0, <1>2, SharedEffect DEF Moved, WritePlaces
<1>3. CASE ClientStep \/ UNCHANGED vars
  BY <1>3, ClientEffect DEF ServerUnchanged, vars
<1>4. CASE ReaderStep \/ ReadInterrupted
  <2>1. CASE ReaderLoop \/ ReceivePacket \/ Accept
    BY <1>0, <2>1 DEF ReaderLoop, ReceivePacket, Accept
  <2>2. CASE ReadFails \/ Refuse \/ IgnoreClose \/ PeerCloses \/ PutPacket \/ ReadInterrupted
    BY <1>0, <2>2 DEF ReadFails, Refuse, IgnoreClose, PeerCloses, PutPacket, ReadInterrupted
  <2> QED BY <1>4, <2>1, <2>2 DEF ReaderStep
<1> QED BY <1>1, <1>2, <1>3, <1>4 DEF Next

\* What every packet of a queue of stream s is.
Queueable(p, s) == p = SHUTDOWN \/ (p.stream = s /\ p.kind \in {"hello", "request", "reply"})
Readable(p, s) == p.stream = s /\ p.kind \in {"hello", "request"}

LEMMA KindNext == CloseInv /\ HandshakeInv /\ PlaceInv /\ KindInv /\ [Next]_vars => KindInv'
<1> SUFFICES ASSUME CloseInv, HandshakeInv, PlaceInv, KindInv, [Next]_vars PROVE KindInv'
  OBVIOUS
<1> USE DEF CloseInv
<1>0. /\ Reader \in Procs /\ arg \in [Procs -> Packet] /\ Arrived \in Packet /\ Arrived.stream \in Ids
      /\ requests \in [Ids -> Seq(Packet)] /\ unprocessed \in [Ids -> Seq(Packet)]
      /\ pipeIn \in Seq(Packet) /\ clientNext \in [Ids -> Nat \ {0}] /\ SHUTDOWN \in Packet
      /\ streams \subseteq Ids
  BY PacketFields, MarkerType DEF TypeOK, ConnTypeOK, ThreadTypeOK, StreamTypeOK, ClientTypeOK, Procs, Arrived
<1>1. DeliveryStep /\ streams \subseteq streams'
  BY DeliverySteps, Monotone
<1>2. \A i \in 1..Len(pipeIn') : FromClient(pipeIn'[i])
  <2>1. ASSUME NEW x \in Packet, ClientSends(x) PROVE \A i \in 1..Len(pipeIn') : FromClient(pipeIn'[i])
    <3>1. pipeIn' = Append(pipeIn, x) /\ FromClient(x)
      BY <2>1 DEF ClientSends
    <3> QED BY <1>0, <3>1, AppendFacts DEF KindInv
  <2>2. ASSUME NEW s \in Ids, NEW k \in {"hello", "request"}, ClientSendsRequest(s, k)
        PROVE  \A i \in 1..Len(pipeIn') : FromClient(pipeIn'[i])
    <3>1. Pkt(s, clientNext[s], k) \in Packet
      BY <1>0, PktType DEF AllKinds
    <3> QED BY <2>1, <2>2, <3>1 DEF ClientSendsRequest
  <2>3. CASE Receives
    <3>1. pipeIn # <<>> /\ pipeIn' = Tail(pipeIn)
      BY <2>3 DEF Receives, ReceivePacket
    <3>2. /\ Len(pipeIn) \in Nat /\ Len(pipeIn') = Len(pipeIn) - 1
          /\ \A i \in 1..(Len(pipeIn) - 1) : pipeIn'[i] = pipeIn[i + 1] /\ i + 1 \in 1..Len(pipeIn)
      BY <1>0, <3>1, TailFacts
    <3> QED BY <3>2 DEF KindInv
  <2>4. CASE UNCHANGED pipeIn
    BY <2>4 DEF KindInv
  <2> QED BY <1>1, <2>1, <2>2, <2>3, <2>4 DEF DeliveryStep, Quiet, PutsMarker, TakesOther, MovesRequest,
       PopsRequest, Sends, ClientSendsOther, DropsRefusal, Refused, Puts
<1>3. /\ pc'[Reader] \in {"dispatch", "put"} => FromClient(Arrived') /\ Arrived'.kind # "corrupt"
      /\ pc'[Reader] = "put" => ~IsClosePayload(Arrived') /\ Arrived'.stream \in streams'
  <2>1. CASE pc'[Reader] = pc[Reader] /\ arg'[Reader] = arg[Reader]
    BY <1>1, <2>1 DEF KindInv, Arrived
  <2>2. CASE ReceivePacket /\ pc'[Reader] = "dispatch" /\ arg'[Reader] = Head(pipeIn)
    <3>1. pipeIn # <<>> /\ Head(pipeIn).kind # "corrupt"
      BY <2>2 DEF ReceivePacket
    <3>2. FromClient(Head(pipeIn))
      BY <1>0, <3>1, TailFacts DEF KindInv
    <3> QED BY <2>2, <3>1, <3>2 DEF Arrived
  <2>3. CASE Accept /\ pc'[Reader] = "put" /\ arg'[Reader] = arg[Reader]
    <3>1. /\ pc[Reader] = "dispatch" /\ Arrived.stream \in streams /\ ~IsClosePayload(Arrived)
      BY <2>3 DEF Accept, At
    <3>2. Arrived' = Arrived
      BY <2>3 DEF Arrived
    <3> QED BY <1>1, <3>1, <3>2 DEF KindInv
  <2>4. CASE pc'[Reader] \notin {"read", "dispatch", "put"} \/ pc'[Reader] = "read"
    BY <2>4
  <2> QED BY <2>1, <2>2, <2>3, <2>4, ReaderComes
<1>4. \A s \in Ids : \A i \in 1..Len(unprocessed[s]) : Queueable(unprocessed[s][i], s)
  BY DEF KindInv, Queueable
<1>5. \A s \in Ids : \A i \in 1..Len(requests[s]) : Readable(requests[s][i], s)
  BY DEF KindInv, Readable
<1>6. \A s \in Ids \ streams : unprocessed[s] = <<>> /\ requests[s] = <<>>
  BY DEF KindInv
<1> DEFINE Fine(s) ==
      /\ \A i \in 1..Len(unprocessed'[s]) : Queueable(unprocessed'[s][i], s)
      /\ \A i \in 1..Len(requests'[s]) : Readable(requests'[s][i], s)
      /\ s \notin streams => unprocessed'[s] = <<>> /\ requests'[s] = <<>>
<1>same. ASSUME NEW s \in Ids, unprocessed'[s] = unprocessed[s], requests'[s] = requests[s]
         PROVE  Fine(s)
  BY <1>4, <1>5, <1>6, <1>same
<1>put. ASSUME NEW s \in streams, NEW x \in Packet, Put(s, x), Queueable(x, s), UNCHANGED requests
        PROVE  \A r \in Ids : Fine(r)
  <2>1. \A r \in Ids \ {s} : Fine(r)
    BY <1>0, <1>put, <1>same DEF Put
  <2>2. unprocessed'[s] = Append(unprocessed[s], x)
    BY <1>0, <1>put DEF Put
  <2>3. Fine(s)
    BY <1>0, <1>4, <1>5, <1>put, <2>2, AppendFacts
  <2> QED BY <2>1, <2>3
<1>take. ASSUME NEW s \in Ids, Takes(s)
         PROVE  /\ \A i \in 1..Len(unprocessed'[s]) : Queueable(unprocessed'[s][i], s)
                /\ \A r \in Ids \ {s} : unprocessed'[r] = unprocessed[r]
                /\ s \in streams /\ Head(unprocessed[s]) \in Packet /\ Queueable(Head(unprocessed[s]), s)
  <2>1. unprocessed'[s] = Tail(unprocessed[s]) /\ unprocessed[s] # <<>>
    BY <1>0, <1>take DEF Takes
  <2>2. \A r \in Ids \ {s} : unprocessed'[r] = unprocessed[r]
    BY <1>0, <1>take DEF Takes
  <2>3. \A i \in 1..Len(unprocessed'[s]) : Queueable(unprocessed'[s][i], s)
    BY <1>0, <1>4, <2>1, TailFacts
  <2>4. Head(unprocessed[s]) \in Packet /\ Queueable(Head(unprocessed[s]), s)
    BY <1>0, <1>4, <2>1, TailFacts
  <2> QED BY <1>6, <2>1, <2>2, <2>3, <2>4
<1>7. \A s \in Ids : Fine(s)
  <2>1. ASSUME NEW s \in Ids, PutsMarker(s) PROVE \A r \in Ids : Fine(r)
    BY <1>0, <1>put, <2>1 DEF PutsMarker, Queueable
  <2>2. ASSUME NEW s \in Ids, TakesOther(s) PROVE \A r \in Ids : Fine(r)
    <3>1. Fine(s)
      BY <1>5, <1>take, <2>2 DEF TakesOther
    <3> QED BY <1>same, <1>take, <2>2, <3>1 DEF TakesOther
  <2>3. ASSUME NEW s \in Ids, MovesRequest(s) PROVE \A r \in Ids : Fine(r)
    <3>1. /\ Head(unprocessed[s]) \in Packet /\ Readable(Head(unprocessed[s]), s) /\ s \in streams
      BY <1>take, <2>3 DEF MovesRequest, Queueable, Readable
    <3>2. requests'[s] = Append(requests[s], Head(unprocessed[s]))
          /\ \A r \in Ids \ {s} : requests'[r] = requests[r]
      BY <1>0, <2>3 DEF MovesRequest
    <3>3. \A i \in 1..Len(requests'[s]) : Readable(requests'[s][i], s)
      BY SMTT(30), <1>0, <1>5, <3>1, <3>2, AppendFacts
    <3> QED BY <1>same, <1>take, <2>3, <3>1, <3>2, <3>3 DEF MovesRequest
  <2>4. ASSUME NEW s \in Ids, PopsRequest(s) PROVE \A r \in Ids : Fine(r)
    <3>1. /\ requests[s] # <<>> /\ requests'[s] = Tail(requests[s])
          /\ \A r \in Ids \ {s} : requests'[r] = requests[r]
          /\ UNCHANGED unprocessed
      BY <1>0, <2>4 DEF PopsRequest
    <3>2. \A i \in 1..Len(requests'[s]) : Readable(requests'[s][i], s)
      BY <1>0, <1>5, <3>1, TailFacts
    <3> QED BY <1>4, <1>6, <1>same, <3>1, <3>2
  <2>5. CASE Puts
    <3>1. /\ Put(Arrived.stream, Arrived) /\ UNCHANGED requests /\ pc[Reader] = "put"
      BY <2>5 DEF Puts, PutPacket, At
    <3>2. Arrived.stream \in streams /\ Queueable(Arrived, Arrived.stream)
      BY <3>1 DEF KindInv, FromClient, ClientKinds, IsClosePayload, Queueable
    <3> QED BY <1>0, <1>put, <3>1, <3>2
  <2>6. CASE UNCHANGED <<requests, unprocessed>>
    BY <1>same, <2>6
  <2> QED BY <1>1, <2>1, <2>2, <2>3, <2>4, <2>5, <2>6 DEF DeliveryStep, Quiet, Sends, ClientSendsRequest,
       ClientSendsOther, ClientSends, DropsRefusal, Refused, Receives
<1> QED BY <1>1, <1>2, <1>3, <1>7 DEF KindInv, Queueable, Readable, Arrived

-----------------------------------------------------------------------------
LEMMA InitMarker == Init => MarkerInv
<1> SUFFICES ASSUME Init PROVE MarkerInv
  OBVIOUS
<1>1. \A s \in Ids : unprocessed[s] = <<>>
  BY DEF Init, StreamInit
<1>2. Behind(<<>>) = {} /\ ~Marked(<<>>)
  BY DEF Behind, Marked
<1> QED BY <1>1, <1>2 DEF MarkerInv

LEMMA MarkerNext ==
  CloseInv /\ HandshakeInv /\ PlaceInv /\ KindInv /\ MarkerInv /\ [Next]_vars => MarkerInv'
<1> SUFFICES ASSUME CloseInv, HandshakeInv, PlaceInv, KindInv, MarkerInv, [Next]_vars, NEW s \in Ids
             PROVE  /\ Marked(unprocessed'[s]) => closed'[s] \/ ~running'
                    /\ \A j, k \in Behind(unprocessed'[s]) : j = k
                    /\ Behind(unprocessed'[s]) # {} =>
                         /\ ~(pc'[Reader] = "put" /\ Arrived'.stream = s)
                         /\ closed'[s] \/ pc'[Reader] \notin {"read", "dispatch", "put"}
  BY DEF MarkerInv
<1> DEFINE q == unprocessed[s]
           r == unprocessed'[s]
<1>0. /\ unprocessed \in [Ids -> Seq(Packet)] /\ q \in Seq(Packet) /\ SHUTDOWN \in Packet
      /\ Reader \in Procs /\ Arrived \in Packet /\ pc \in [Procs -> PCs]
  BY MarkerType DEF CloseInv, TypeOK, StreamTypeOK, ThreadTypeOK, Procs, Arrived
<1>1. DeliveryStep /\ (closed[s] => closed'[s]) /\ (~running => ~running')
  BY DeliverySteps, Monotone DEF CloseInv
<1>2. /\ Marked(q) => closed[s] \/ ~running
      /\ \A j, k \in Behind(q) : j = k
      /\ Behind(q) # {} =>
           /\ ~(pc[Reader] = "put" /\ Arrived.stream = s)
           /\ closed[s] \/ pc[Reader] \notin {"read", "dispatch", "put"}
  BY DEF MarkerInv
<1>3. Behind(q) # {} => Marked(q)
  <2> SUFFICES ASSUME NEW j \in Behind(q) PROVE Marked(q)
    OBVIOUS
  <2>1. PICK i \in 1..(j - 1) : q[i] = SHUTDOWN
    BY DEF Behind
  <2>2. i \in 1..Len(q)
    BY <1>0, <2>1 DEF Behind
  <2> QED BY <2>1, <2>2 DEF Marked
<1>reader. ASSUME Behind(q) # {}
           PROVE  /\ ~(pc'[Reader] = "put" /\ Arrived'.stream = s)
                  /\ closed'[s] \/ pc'[Reader] \notin {"read", "dispatch", "put"}
  <2>1. CASE pc'[Reader] \notin {"read", "dispatch", "put"}
    BY <2>1
  <2>2. CASE pc'[Reader] = pc[Reader] /\ arg'[Reader] = arg[Reader]
    BY <1>1, <1>2, <1>reader, <2>2 DEF Arrived
  <2>3. CASE ReaderLoop /\ running /\ pc'[Reader] = "read"
    BY <1>1, <1>2, <1>3, <1>reader, <2>3
  <2>4. CASE ReceivePacket /\ pc'[Reader] = "dispatch"
    BY <1>1, <1>2, <1>reader, <2>4 DEF ReceivePacket, At
  <2>5. CASE Accept /\ pc'[Reader] = "put" /\ arg'[Reader] = arg[Reader]
    <3>1. pc[Reader] = "dispatch" /\ ~closed[Arrived.stream] /\ Arrived' = Arrived
      BY <2>5 DEF Accept, At, Arrived
    <3> QED BY <1>1, <1>2, <1>reader, <3>1
  <2> QED BY <2>1, <2>2, <2>3, <2>4, <2>5, ReaderComes DEF CloseInv
<1>same. ASSUME Behind(r) # {} => Behind(q) # {}, \A j, k \in Behind(r) : j = k,
                Marked(r) => Marked(q) \/ closed[s] \/ ~running
         PROVE  /\ Marked(r) => closed'[s] \/ ~running'
                /\ \A j, k \in Behind(r) : j = k
                /\ Behind(r) # {} =>
                     /\ ~(pc'[Reader] = "put" /\ Arrived'.stream = s)
                     /\ closed'[s] \/ pc'[Reader] \notin {"read", "dispatch", "put"}
  BY <1>1, <1>2, <1>reader, <1>same
<1>4. \A x : \A j \in Behind(x) : j \in Nat
  BY DEF Behind
<1>2q. /\ \A j, k \in Behind(q) : j = k
       /\ q \in Seq(Packet)
  BY <1>0, <1>2
<1>5. CASE r = q
  BY <1>2q, <1>5, <1>same
<1>6. CASE r = Append(q, SHUTDOWN) /\ (closed[s] \/ ~running)
  <2>1. Behind(r) = Behind(q)
    BY <1>0, <1>2q, <1>6, MarkedAppend
  <2> QED BY <1>2q, <1>6, <1>same, <2>1
<1>7. CASE q # <<>> /\ r = Tail(q)
  <2>1. /\ Marked(r) => Marked(q)
        /\ \A j \in Behind(r) : j + 1 \in Behind(q)
    BY <1>2q, <1>7, MarkedTail
  <2>2. \A j, k \in Behind(r) : j = k
    BY <1>2q, <1>4, <2>1
  <2> QED BY <1>same, <2>1, <2>2
<1>8. CASE r = Append(q, Arrived) /\ Arrived.stream = s /\ PutPacket
  <2>1. pc[Reader] = "put" /\ pc'[Reader] = "loop"
    BY <1>0, <1>8 DEF PutPacket, At, Return, GotoWith
  <2>2. Arrived # SHUTDOWN
    BY <2>1, PktFields DEF KindInv, FromClient, ClientKinds, SHUTDOWN
  <2>3. Behind(q) = {}
    BY <1>2, <1>8, <2>1
  <2>4. Behind(r) \subseteq {Len(q) + 1} /\ (Marked(r) <=> Marked(q))
    BY <1>0, <1>8, <2>2, <2>3, MarkedAppend
  <2> QED BY <1>1, <1>2, <2>1, <2>4 DEF r
<1>9. \/ r = q
      \/ r = Append(q, SHUTDOWN) /\ (closed[s] \/ ~running)
      \/ q # <<>> /\ r = Tail(q)
      \/ r = Append(q, Arrived) /\ Arrived.stream = s /\ PutPacket
  <2> USE DEF q, r
  <2>1. ASSUME NEW u \in Ids, PutsMarker(u) PROVE r = q \/ (r = Append(q, SHUTDOWN) /\ (closed[s] \/ ~running))
    BY <1>0, <2>1 DEF PutsMarker, Put
  <2>2. ASSUME NEW u \in Ids, Takes(u) PROVE r = q \/ (q # <<>> /\ r = Tail(q))
    BY <1>0, <2>2 DEF Takes
  <2>3. CASE Puts
    BY <1>0, <2>3 DEF Puts, PutPacket, Put
  <2>4. CASE UNCHANGED unprocessed
    BY <2>4
  <2> QED BY <1>1, <2>1, <2>2, <2>3, <2>4 DEF DeliveryStep, Quiet, TakesOther, MovesRequest, PopsRequest, Sends,
       ClientSendsRequest, ClientSendsOther, ClientSends, DropsRefusal, Refused, Receives
<1> QED BY <1>5, <1>6, <1>7, <1>8, <1>9 DEF r

\* One packet at most slips in behind the marker of a stream that is closed while the
\* reader thread puts (connection.py:201, 205), for any threads, streams and packets.
THEOREM OneBehindMarker == Spec => []AtMostOneBehindMarker
<1>1. TypeOK /\ KindInv /\ MarkerInv => AtMostOneBehindMarker
  <2> SUFFICES ASSUME TypeOK, KindInv, MarkerInv, NEW s \in Ids
               PROVE  LET q == unprocessed[s]
                          behind == Behind(q)
                          coming == {j \in {Len(q) + 1} : pc[Reader] = "put" /\ Arrived.stream = s /\ Queued(s)}
                      IN  \A j, k \in behind \cup coming : j = k
    BY DEF AtMostOneBehindMarker, Behind
  <2>1. \A j, k \in Behind(unprocessed[s]) : j = k
    BY DEF MarkerInv
  <2>2. Behind(unprocessed[s]) # {} => ~(pc[Reader] = "put" /\ Arrived.stream = s)
    BY DEF MarkerInv
  <2> QED BY <2>1, <2>2
<1> QED BY <1>1, InitClose, CloseNext, InitHandshake, HandshakeNext, InitPlace, PlaceNext, InitKind, KindNext,
      InitMarker, MarkerNext, PTL DEF Spec, CloseInv

-----------------------------------------------------------------------------
(* What was queued before a close is read before the close is reported.     *)

\* The backlog of an open stream is empty, that of a closed one lies at the head of
\* its queue and, while the connection is up, before any marker; a thread that polls
\* has seen the stream closed, and one whose poll found nothing, the backlog gone.
DrainInv ==
  /\ \A s \in Ids :
       /\ backlog[s] <= Len(unprocessed[s]) /\ (~closed[s] => backlog[s] = 0)
       /\ running => \A i \in 1..backlog[s] : unprocessed[s][i] # SHUTDOWN
  /\ \A t \in Threads :
       /\ pc[t] \in {"polling", "polled"} => closed[arg[t].stream]
       /\ pc[t] = "polled" => backlog[arg[t].stream] = 0

\* What a step does to a stream's queue and its backlog.
Grows(s) ==
  /\ \/ unprocessed'[s] = unprocessed[s]
     \/ \E x \in Packet : unprocessed'[s] = Append(unprocessed[s], x)
  /\ backlog'[s] = backlog[s] /\ closed'[s] = closed[s]
Marks(s) ==
  /\ ~closed[s] /\ closed'[s]
  /\ unprocessed'[s] = unprocessed[s] /\ backlog'[s] = Len(unprocessed[s])
Drains(s) ==
  /\ unprocessed[s] # <<>> /\ unprocessed'[s] = Tail(unprocessed[s])
  /\ closed'[s] = closed[s]
  /\ backlog'[s] = IF backlog[s] = 0 THEN 0 ELSE backlog[s] - 1

LEMMA BacklogStep ==
  ASSUME CloseInv, KindInv, DrainInv, [Next]_vars, NEW s \in Ids
  PROVE  Grows(s) \/ Marks(s) \/ Drains(s)
<1> USE DEF CloseInv
<1>0. /\ closed \in [Ids -> BOOLEAN] /\ backlog \in [Ids -> Nat]
      /\ unprocessed \in [Ids -> Seq(Packet)] /\ arg \in [Procs -> Packet]
      /\ Threads \subseteq Procs /\ Reader \in Procs /\ SHUTDOWN \in Packet
  BY MarkerType DEF TypeOK, StreamTypeOK, ThreadTypeOK, Procs
<1>arg. \A p \in Procs : arg[p] \in Packet /\ arg[p].stream \in Ids
  BY <1>0, PacketFields
<1>same. ASSUME UNCHANGED <<closed, backlog, unprocessed>> PROVE Grows(s)
  BY <1>same DEF Grows
<1>put. ASSUME NEW r \in Ids, NEW x \in Packet, Put(r, x), UNCHANGED <<closed, backlog>>
        PROVE  Grows(s)
  BY <1>0, <1>put DEF Put, Grows
<1>mark. ASSUME NEW r \in Ids, MarkClosed(r), UNCHANGED unprocessed PROVE Grows(s) \/ Marks(s)
  <2>1. CASE r = s /\ ~closed[s]
    BY <1>0, <1>mark, <2>1 DEF MarkClosed, Marks
  <2>2. CASE r # s \/ closed[s]
    BY <1>0, <1>mark, <2>2 DEF MarkClosed, Grows
  <2> QED BY <2>1, <2>2
<1>take. ASSUME NEW t, NEW r \in Ids, NEW p, TakeNext(t, r, p) PROVE Grows(s) \/ Drains(s)
  <2>1. CASE r = s
    BY <1>0, <1>take, <2>1 DEF TakeNext, Drains
  <2>2. CASE r # s
    BY <1>0, <1>take, <2>2 DEF TakeNext, Grows
  <2> QED BY <2>1, <2>2
<1>1. ASSUME NEW t \in Threads, CallStep(t) PROVE Grows(s) \/ Marks(s)
  <2>1. (\E r \in Ids : MarkClosed(r)) \/ UNCHANGED <<closed, backlog>>
    BY <1>1 DEF CallStep, ReceiveHandshake, NewStream, Close, ReadRequest, SendRequest,
       RegisterClientStream, CloseStream, Get, WriteReply, StartRead, AtOnce, streamVars
  <2> QED BY <1>1, <1>same, <1>mark, <2>1, CallEffect
<1>2. ASSUME NEW t \in Threads, InnerStep(t) \/ TimesOut(t) PROVE Grows(s) \/ Drains(s)
  <2>1. CASE PollFindsNothing(t) \/ TimesOut(t) \/ RaiseClosed(t) \/ RaiseTimeout(t)
    BY <1>same, <2>1, EmptyEffect DEF streamVars, queueVars
  <2>2. CASE SetHandshakeDone(t) \/ ReturnReply(t) \/ ReturnRequest(t) \/ AnswerHandshake(t)
             \/ ChooseTimeout(t)
    BY <1>same, <2>2 DEF SetHandshakeDone, ReturnReply, ReturnRequest, PopRequest, AnswerHandshake,
       ChooseTimeout, streamVars, queueVars
  <2>3. CASE TakeMarker(t) \/ TakePacket(t)
    BY <1>0, <1>arg, <1>take, <2>3 DEF TakeMarker, TakePacket
  <2>4. CASE Register(t)
    <3> DEFINE r == arg[t].stream
    <3>1. CASE AtOnce(t)
      BY <1>same, <2>4, <3>1 DEF Register, AtOnce, streamVars, queueVars
    <3>2. CASE r \notin streams /\ MakeStream(r)
      <4>1. unprocessed[r] = <<>> /\ ~closed[r] /\ backlog[r] = 0
        BY <1>0, <1>arg, <3>2 DEF KindInv, FreshInv, DrainInv
      <4> QED BY <1>0, <3>2, <4>1 DEF MakeStream, Grows
    <3> QED BY <2>4, <3>1, <3>2 DEF Register
  <2> QED BY <1>2, <2>1, <2>2, <2>3, <2>4 DEF InnerStep
<1>3. ASSUME NEW p \in Procs,
             SharedStep(p) \/ OtherWritten(p) \/ (p \in Threads /\ RequestWritten(p))
      PROVE  Grows(s)
  <2>1. UNCHANGED <<closed, backlog>>
    BY <1>3 DEF SharedStep, OtherWritten, RequestWritten, Transmit, Unblock, AcquireWriter,
       WriteFails, CloseUnderLock, ShutStream, streamVars
  <2>2. (\E r \in Ids : Put(r, SHUTDOWN)) \/ UNCHANGED unprocessed
    BY <1>3, <1>arg DEF SharedStep, OtherWritten, RequestWritten, Transmit, Unblock,
       AcquireWriter, WriteFails, CloseUnderLock, ShutStream, streamVars, queueVars
  <2> QED BY <1>0, <1>same, <1>put, <2>1, <2>2
<1>4. CASE ReaderStep \/ ReadInterrupted
  <2>1. CASE PeerCloses
    BY <1>0, <1>arg, <1>mark, <2>1 DEF PeerCloses, Arrived
  <2>2. CASE PutPacket
    BY <1>0, <1>arg, <1>put, <2>2 DEF PutPacket, Arrived
  <2>3. CASE ~PeerCloses /\ ~PutPacket
    BY <1>4, <1>same, <2>3 DEF ReaderStep, ReaderLoop, ReceivePacket, ReadFails, Refuse,
       IgnoreClose, Accept, ReadInterrupted
  <2> QED BY <2>1, <2>2, <2>3
<1>5. CASE ClientStep \/ UNCHANGED vars
  BY <1>5, <1>same, ClientEffect DEF ServerUnchanged, streamVars, queueVars, vars
<1> QED BY <1>0, <1>1, <1>2, <1>3, <1>4, <1>5 DEF Next

\* How a thread comes to poll a stream, and to have polled it.
LEMMA PollComes ==
  ASSUME TypeOK, [Next]_vars, NEW t \in Threads, pc'[t] \in {"polling", "polled"}
  PROVE  /\ arg'[t] = arg[t]
         /\ \/ pc'[t] = pc[t]
            \/ pc'[t] = "polling" /\ closed[arg[t].stream]
            \/ pc'[t] = "polled" /\ pc[t] = "polling" /\ unprocessed[arg[t].stream] = <<>>
<1>0. t \in Procs /\ t # Reader /\ Threads \subseteq Procs /\ Reader \in Procs /\ pc \in [Procs -> PCs]
  BY ThreadsAssumption DEF Procs, TypeOK, ThreadTypeOK
<1>1. ASSUME NEW p \in Procs, NEW Ls, Moved(p, Ls), {"polling", "polled"} \cap Ls = {}
      PROVE  p # t /\ pc'[t] = pc[t] /\ arg'[t] = arg[t]
  BY <1>0, <1>1 DEF Moved
<1>2. ASSUME NEW u \in Threads, CallStep(u) PROVE pc'[t] = pc[t] /\ arg'[t] = arg[t]
  BY <1>0, <1>1, <1>2, CallEffect DEF CallPlaces
<1>3. ASSUME NEW p \in Procs,
             SharedStep(p) \/ OtherWritten(p) \/ (p \in Threads /\ RequestWritten(p))
      PROVE  pc'[t] = pc[t] /\ arg'[t] = arg[t]
  BY <1>1, <1>3, SharedEffect DEF WritePlaces
<1>4. CASE ReaderStep \/ ReadInterrupted
  BY <1>0, <1>1, <1>4, ReaderEffect DEF ReaderPlaces
<1>5. CASE ClientStep \/ UNCHANGED vars
  BY <1>5, ClientEffect DEF ServerUnchanged, vars
<1>6. ASSUME NEW u \in Threads, InnerStep(u) \/ TimesOut(u), u # t
      PROVE  pc'[t] = pc[t] /\ arg'[t] = arg[t]
  BY <1>0, <1>6, InnerEffect DEF Moved
<1>7. CASE InnerStep(t) \/ TimesOut(t)
  <2> USE DEF Return, Goto, GotoWith
  <2>1. CASE ChooseTimeout(t) \/ PollFindsNothing(t)
    BY <1>0, <2>1 DEF ChooseTimeout, PollFindsNothing, Empty
  <2>2. CASE TimesOut(t) \/ RaiseClosed(t) \/ RaiseTimeout(t)
    BY <1>0, <2>2 DEF TimesOut, Empty, RaiseClosed, RaiseTimeout, RaiseEmpty
  <2>3. CASE Register(t) \/ SetHandshakeDone(t) \/ ReturnReply(t) \/ ReturnRequest(t)
             \/ AnswerHandshake(t) \/ TakeMarker(t) \/ TakePacket(t)
    BY <1>0, <2>3 DEF Register, AtOnce, SetHandshakeDone, ReturnReply, ReturnRequest,
       AnswerHandshake, TakeMarker, TakePacket
  <2> QED BY <1>7, <2>1, <2>2, <2>3 DEF InnerStep
<1> QED BY <1>0, <1>2, <1>3, <1>4, <1>5, <1>6, <1>7 DEF Next

LEMMA InitDrain == Init => DrainInv
<1> SUFFICES ASSUME Init PROVE DrainInv
  OBVIOUS
<1>1. \A s \in Ids : backlog[s] = 0 /\ unprocessed[s] = <<>>
  BY DEF Init, StreamInit
<1>2. \A t \in Threads : pc[t] = "idle"
  BY ThreadsAssumption DEF Init, ThreadInit, Procs
<1> QED BY <1>1, <1>2 DEF DrainInv

LEMMA DrainNext == CloseInv /\ KindInv /\ MarkerInv /\ DrainInv /\ [Next]_vars => DrainInv'
<1> SUFFICES ASSUME CloseInv, KindInv, MarkerInv, DrainInv, [Next]_vars PROVE DrainInv'
  OBVIOUS
<1>0. /\ backlog \in [Ids -> Nat] /\ unprocessed \in [Ids -> Seq(Packet)]
      /\ arg \in [Procs -> Packet] /\ Threads \subseteq Procs
  BY DEF CloseInv, TypeOK, StreamTypeOK, ThreadTypeOK, Procs
<1>1. (running' => running) /\ \A s \in Ids : closed[s] => closed'[s]
  BY Monotone DEF CloseInv
<1>2. ASSUME NEW s \in Ids
      PROVE  /\ backlog'[s] <= Len(unprocessed'[s]) /\ (~closed'[s] => backlog'[s] = 0)
             /\ running' => \A i \in 1..backlog'[s] : unprocessed'[s][i] # SHUTDOWN
             /\ closed[s] /\ backlog[s] = 0 => backlog'[s] = 0
  <2> DEFINE q == unprocessed[s]
             b == backlog[s]
  <2>0. /\ q \in Seq(Packet) /\ Len(q) \in Nat /\ b \in Nat /\ b <= Len(q)
        /\ ~closed[s] => b = 0
        /\ running => \A i \in 1..b : q[i] # SHUTDOWN
    BY <1>0 DEF DrainInv
  <2>1. CASE Grows(s)
    <3>1. /\ Len(q) <= Len(unprocessed'[s])
          /\ \A i \in 1..Len(q) : unprocessed'[s][i] = q[i]
      BY <2>0, <2>1, AppendFacts DEF Grows
    <3>2. b <= Len(unprocessed'[s]) /\ 1..b \subseteq 1..Len(q)
      BY <2>0, <2>1, <3>1, AppendFacts DEF Grows
    <3> QED BY <1>1, <2>0, <2>1, <3>1, <3>2 DEF Grows
  <2>2. CASE Marks(s)
    <3>1. running => \A i \in 1..Len(q) : q[i] # SHUTDOWN
      BY <2>2 DEF MarkerInv, Marked, Marks
    <3> QED BY <1>1, <2>0, <2>2, <3>1 DEF Marks
  <2>3. CASE Drains(s)
    <3>1. /\ Len(unprocessed'[s]) = Len(q) - 1 /\ Len(q) >= 1
          /\ \A i \in 1..(Len(q) - 1) : unprocessed'[s][i] = q[i + 1]
      BY <2>0, <2>3, TailFacts DEF Drains
    <3>2. backlog'[s] = IF b = 0 THEN 0 ELSE b - 1
      BY <2>3 DEF Drains
    <3>3. ASSUME running', NEW i \in 1..backlog'[s] PROVE unprocessed'[s][i] # SHUTDOWN
      <4>1. i \in 1..(Len(q) - 1) /\ i + 1 \in 1..b
        BY <2>0, <3>2
      <4> QED BY <1>1, <2>0, <3>1, <3>3, <4>1
    <3> QED BY <2>0, <2>3, <3>1, <3>2, <3>3 DEF Drains
  <2> QED BY <2>1, <2>2, <2>3, BacklogStep
<1>3. ASSUME NEW t \in Threads, pc'[t] \in {"polling", "polled"}
      PROVE  closed'[arg'[t].stream] /\ (pc'[t] = "polled" => backlog'[arg'[t].stream] = 0)
  <2> DEFINE s == arg[t].stream
  <2>0. s \in Ids /\ backlog[s] \in Nat
    BY <1>0, PacketFields
  <2>1. /\ arg'[t] = arg[t]
        /\ \/ pc'[t] = pc[t]
           \/ pc'[t] = "polling" /\ closed[s]
           \/ pc'[t] = "polled" /\ pc[t] = "polling" /\ unprocessed[s] = <<>>
    BY <1>3, PollComes DEF CloseInv
  <2>2. closed[s]
    BY <1>3, <2>1 DEF DrainInv
  <2>3. unprocessed[s] = <<>> => backlog[s] = 0
    BY <2>0 DEF DrainInv
  <2>4. pc'[t] = "polled" => backlog[s] = 0
    BY <2>1, <2>3 DEF DrainInv
  <2> QED BY <1>1, <1>2, <2>0, <2>1, <2>2, <2>4
<1> QED BY <1>2, <1>3 DEF DrainInv

\* A read that ends without a packet leaves unread none that was put before the
\* close (stream.py:101-129, the comment at 112-115), whatever is put and closed
\* between its two looks at closed, unless its timeout had run out.
THEOREM DrainedBeforeRaise == Spec => DrainBeforeRaise
<1> DEFINE Drained(t) == backlog[arg[t].stream] = 0 \/ (~running /\ pc[t] # "polled")
           EndsEmpty(t) == /\ pc[t] \in {"scan", "polling", "waiting", "polled"} /\ pc'[t] = "idle"
                           /\ UNCHANGED <<requests, replies>>
<1>1. ASSUME CloseInv, DrainInv, [Next]_vars, NEW t \in Threads, EndsEmpty(t)
      PROVE  Drained(t)
  <2>0. /\ t \in Procs /\ t # Reader /\ pc \in [Procs -> PCs]
        /\ arg[t] \in Packet /\ arg[t].stream \in Ids
        /\ TypeOK /\ unprocessed \in [Ids -> Seq(Packet)] /\ backlog \in [Ids -> Nat]
        /\ requests \in [Ids -> Seq(Packet)] /\ replies \in [Ids -> SUBSET Nat]
    BY <1>1, ThreadsAssumption, PacketFields DEF Procs, CloseInv, TypeOK, ThreadTypeOK, StreamTypeOK
  <2>1. ~UNCHANGED <<pc, arg>>
    BY <1>1
  <2>2. \A p \in Procs : \A Ls : Moved(p, Ls) => p = t
    BY <1>1, <2>0 DEF Moved
  <2>3. \A u \in Threads : ~CallStep(u)
    BY <1>1, <2>0, <2>2, CallEffect DEF Procs
  <2>4. ~ReaderStep /\ ~ReadInterrupted
    BY <1>1, <2>0, <2>2, ReaderEffect DEF Procs
  <2>5. ASSUME NEW p \in Procs PROVE ~SharedStep(p) /\ ~OtherWritten(p) /\ ~(p \in Threads /\ RequestWritten(p))
    <3>1. SharedStep(p) \/ OtherWritten(p) \/ (p \in Threads /\ RequestWritten(p))
            => pc[p] \in {"unblock", "write", "sending", "close", "fanout"} /\ pc' = [pc EXCEPT ![p] = pc'[p]]
      BY <2>0 DEF SharedStep, OtherWritten, RequestWritten, Transmit, Unblock, AcquireWriter, WriteFails,
         CloseUnderLock, ShutStream, LeaveClose, Return, Goto, GotoWith
    <3> QED BY <1>1, <2>0, <3>1
  <2>6. ~ClientStep /\ ~UNCHANGED vars
    BY <2>1, ClientEffect DEF ServerUnchanged, vars
  <2>7. PICK u \in Threads : InnerStep(u) \/ TimesOut(u)
    BY <1>1, <2>3, <2>4, <2>5, <2>6 DEF Next, Procs
  <2>8. u = t
    BY <1>1, <2>0, <2>2, <2>7, InnerEffect DEF Procs
  <2>9. ~Register(t) /\ ~SetHandshakeDone(t) /\ ~ChooseTimeout(t) /\ ~TakePacket(t)
    BY <1>1, <2>0 DEF Register, SetHandshakeDone, ChooseTimeout, TakePacket, Goto
  <2>10. ~ReturnReply(t)
    BY <1>1, <2>0 DEF ReturnReply, Found
  <2>11. ASSUME NEW s \in Ids, NEW p, PopRequest(t, s, p) PROVE FALSE
    <3>1. requests[s] # <<>> /\ requests'[s] = Tail(requests[s]) /\ requests[s] \in Seq(Packet)
      BY <2>0, <2>11 DEF PopRequest, Found
    <3>2. Len(Tail(requests[s])) # Len(requests[s])
      BY <3>1
    <3> QED BY <1>1, <3>1, <3>2
  <2>12. ~ReturnRequest(t) /\ ~AnswerHandshake(t)
    BY <2>0, <2>11, IdsAssumption DEF ReturnRequest, AnswerHandshake
  <2>13. ~PollFindsNothing(t) /\ ~TimesOut(t)
    BY <1>1, <2>0 DEF PollFindsNothing, TimesOut, Empty, Goto
  <2>14. TakeMarker(t) \/ RaiseClosed(t) \/ RaiseTimeout(t)
    BY <2>7, <2>8, <2>9, <2>10, <2>12, <2>13 DEF InnerStep
  <2>15. CASE TakeMarker(t)
    <3>0. /\ unprocessed[arg[t].stream] # <<>> /\ Head(unprocessed[arg[t].stream]) = SHUTDOWN
          /\ pc[t] # "polled" /\ unprocessed[arg[t].stream] \in Seq(Packet)
      BY <2>0, <2>15 DEF TakeMarker, TakeNext
    <3>1. unprocessed[arg[t].stream][1] = SHUTDOWN
      BY <3>0, TailFacts
    <3>2. running => 1 \notin 1..backlog[arg[t].stream]
      BY <1>1, <2>0, <3>1 DEF DrainInv
    <3>3. running => backlog[arg[t].stream] = 0
      BY <2>0, <3>2
    <3> QED BY <3>0, <3>3
  <2>16. CASE RaiseClosed(t) \/ RaiseTimeout(t)
    BY <1>1, <2>16 DEF RaiseClosed, RaiseTimeout, RaiseEmpty, DrainInv
  <2> QED BY <2>14, <2>15, <2>16
<1>2. CloseInv /\ DrainInv /\ [Next]_vars => [\A t \in Threads : EndsEmpty(t) => Drained(t)]_vars
  BY <1>1
<1>3. Spec => [](CloseInv /\ DrainInv)
  BY InitClose, CloseNext, InitHandshake, HandshakeNext, InitPlace, PlaceNext, InitKind, KindNext,
     InitMarker, MarkerNext, InitDrain, DrainNext, PTL DEF Spec, CloseInv
<1> QED BY <1>2, <1>3, PTL DEF Spec, DrainBeforeRaise

-----------------------------------------------------------------------------
(* Where each request of the client is.                                     *)

\* The packets of q that are of stream s and of the kinds K, refusals of close
\* packets (id 0) apart, have rising ids from lo to below hi.
Requests == {"hello", "request"}
Refusals == {"error"}
Of(p, s, K) == p.stream = s /\ p.kind \in K /\ (p.kind = "error" => p.id # 0)
Within(q, s, K, lo, hi) ==
  /\ \A i \in 1..Len(q) : Of(q[i], s, K) => lo <= q[i].id /\ q[i].id < hi
  /\ \A i, j \in 1..Len(q) : Of(q[i], s, K) /\ Of(q[j], s, K) /\ i < j => q[i].id < q[j].id

IdsOf(q, s, K) == {q[i].id : i \in {j \in 1..Len(q) : Of(q[j], s, K)}}

\* The ids a stream has delivered or queued, and those it has refused.
Held(s) ==
  {taken[s][i] : i \in 1..Len(taken[s])} \cup IdsOf(requests[s], s, Requests)
    \cup IdsOf(unprocessed[s], s, Requests)
Gone(s) == IdsOf(sent, s, Refusals)

\* The client's requests of a stream lie in the order of their ids: below a those
\* a caller has, from a the deque's, from b the queue's, from c the one in the
\* reader thread's hand, from d the pipe's.
TakenBelow(s, a) ==
  /\ \A i \in 1..Len(taken[s]) : 1 <= taken[s][i] /\ taken[s][i] < a
  /\ \A i, j \in 1..Len(taken[s]) : i < j => taken[s][i] < taken[s][j]
HandWithin(s, c, d) == \A m \in Nat \ {0} : InHand(s, m) => c <= m /\ m < d
Line(s, a, b, c, d) ==
  /\ 1 <= a /\ a <= b /\ b <= c /\ c <= d /\ d <= clientNext[s]
  /\ TakenBelow(s, a)
  /\ Within(requests[s], s, Requests, a, b)
  /\ Within(unprocessed[s], s, Requests, b, c)
  /\ HandWithin(s, c, d)
  /\ Within(pipeIn, s, Requests, d, clientNext[s])
  /\ Within(sent, s, Refusals, 1, c)
Lined(s) == \E a, b, c, d \in Nat : Line(s, a, b, c, d)
LineInv == \A s \in Ids : Lined(s) /\ Held(s) \cap Gone(s) = {}

\* No request of the client is lost while the connection is up.
Has(q, s, m) == \E i \in 1..Len(q) : IsRequest(q[i], s, m)
Present(s, m) ==
  \/ Has(pipeIn, s, m) \/ Has(requests[s], s, m) \/ Has(unprocessed[s], s, m) \/ InHand(s, m)
  \/ \E i \in 1..Len(taken[s]) : taken[s][i] = m
  \/ \E i \in 1..Len(sent) : IsRefusal(sent[i], s, m)
PresentInv == running /\ peerOpen => \A s \in Ids : \A m \in 1..(clientNext[s] - 1) : Present(s, m)
\* Rising ids stay rising when a packet leaves at the head or joins at the end.
LEMMA WithinAppend ==
  ASSUME NEW q \in Seq(Packet), NEW x \in Packet, NEW s, NEW K, NEW lo \in Nat, NEW hi \in Nat,
         NEW top \in Nat, Within(q, s, K, lo, hi), hi <= top, lo <= hi,
         Of(x, s, K) => hi <= x.id /\ x.id < top
  PROVE  Within(Append(q, x), s, K, lo, top)
<1> DEFINE r == Append(q, x)
<1>1. /\ Len(r) = Len(q) + 1 /\ Len(q) \in Nat /\ r \in Seq(Packet)
      /\ \A i \in 1..Len(q) : r[i] = q[i]
      /\ r[Len(q) + 1] = x
      /\ 1..Len(r) = 1..Len(q) \cup {Len(q) + 1}
  BY AppendFacts
<1>2. /\ x.id \in Nat /\ \A i \in 1..Len(q) : q[i].id \in Nat
  BY PacketFields
<1> HIDE DEF r
<1>3. \A i \in 1..Len(q) : Of(q[i], s, K) => lo <= q[i].id /\ q[i].id < hi
  BY DEF Within
<1>4. ASSUME NEW i \in 1..Len(r), Of(r[i], s, K) PROVE lo <= r[i].id /\ r[i].id < top
  <2>1. CASE i \in 1..Len(q)
    BY <1>1, <1>2, <1>3, <1>4, <2>1
  <2>2. CASE i = Len(q) + 1
    BY <1>1, <1>2, <1>4, <2>2
  <2> QED BY <1>1, <2>1, <2>2
<1>5. ASSUME NEW i \in 1..Len(r), NEW j \in 1..Len(r), Of(r[i], s, K), Of(r[j], s, K), i < j
      PROVE  r[i].id < r[j].id
  <2>1. i \in 1..Len(q) /\ r[i] = q[i]
    BY <1>1, <1>5
  <2>2. CASE j \in 1..Len(q)
    BY <1>1, <1>5, <2>1, <2>2 DEF Within
  <2>3. CASE j = Len(q) + 1
    BY <1>1, <1>2, <1>3, <1>5, <2>1, <2>3
  <2> QED BY <1>1, <2>2, <2>3
<1> QED BY <1>4, <1>5 DEF Within, r

LEMMA WithinTail ==
  ASSUME NEW q \in Seq(Packet), q # <<>>, NEW s, NEW K, NEW lo \in Nat, NEW hi \in Nat,
         NEW low \in Nat, Within(q, s, K, lo, hi),
         \/ low = lo
         \/ Of(Head(q), s, K) /\ low = Head(q).id + 1
  PROVE  Within(Tail(q), s, K, low, hi)
<1> DEFINE r == Tail(q)
<1>1. /\ Head(q) = q[1] /\ Len(q) \in Nat \ {0} /\ Len(r) = Len(q) - 1
      /\ \A i \in 1..Len(r) : r[i] = q[i + 1] /\ i + 1 \in 1..Len(q)
      /\ \A i \in 1..Len(q) : q[i] \in Packet /\ q[i].id \in Nat
  BY TailFacts, PacketFields
<1> HIDE DEF r
<1>2. ASSUME NEW i \in 1..Len(r), Of(r[i], s, K) PROVE low <= r[i].id /\ r[i].id < hi
  <2>1. i + 1 \in 1..Len(q) /\ r[i] = q[i + 1] /\ Of(q[i + 1], s, K) /\ 1 \in 1..Len(q) /\ 1 < i + 1
    BY <1>1, <1>2
  <2>2. lo <= q[i + 1].id /\ q[i + 1].id < hi
    BY <2>1 DEF Within
  <2>3. Of(q[1], s, K) => q[1].id < q[i + 1].id
    BY <2>1 DEF Within
  <2>4. q[1].id \in Nat /\ q[i + 1].id \in Nat
    BY <1>1, <2>1
  <2> QED BY SMTT(30), <1>1, <2>1, <2>2, <2>3, <2>4
<1>3. ASSUME NEW i \in 1..Len(r), NEW j \in 1..Len(r), Of(r[i], s, K), Of(r[j], s, K), i < j
      PROVE  r[i].id < r[j].id
  <2>1. /\ i + 1 \in 1..Len(q) /\ r[i] = q[i + 1]
        /\ j + 1 \in 1..Len(q) /\ r[j] = q[j + 1] /\ i + 1 < j + 1
    BY <1>1, <1>3
  <2> QED BY <1>3, <2>1 DEF Within
<1> QED BY <1>2, <1>3 DEF Within, r

\* A higher bound above.
LEMMA WithinRaised ==
  ASSUME NEW q \in Seq(Packet), NEW s, NEW K, NEW lo \in Nat, NEW hi \in Nat, NEW top \in Nat,
         Within(q, s, K, lo, hi), hi <= top
  PROVE  Within(q, s, K, lo, top)
<1>1. \A i \in 1..Len(q) : q[i].id \in Nat
  BY PacketFields
<1> QED BY <1>1 DEF Within

LEMMA WithinJoined ==
  ASSUME NEW q \in Seq(Packet), NEW r \in Seq(Packet), NEW s, NEW K,
         NEW lo \in Nat, NEW mid \in Nat, NEW hi \in Nat, lo <= mid, mid <= hi,
         Within(q, s, K, lo, mid), Within(r, s, K, mid, hi)
  PROVE  Within(q \o r, s, K, lo, hi)
<1> DEFINE w == q \o r
<1>1. /\ Len(q) \in Nat /\ Len(r) \in Nat /\ Len(w) = Len(q) + Len(r)
      /\ \A i \in 1..Len(q) : w[i] = q[i]
      /\ \A i \in 1..Len(w) : i \notin 1..Len(q) => w[i] = r[i - Len(q)] /\ i - Len(q) \in 1..Len(r)
      /\ \A i \in 1..Len(q) : q[i].id \in Nat
      /\ \A i \in 1..Len(r) : r[i].id \in Nat
  BY SMTT(30), PacketFields
<1> HIDE DEF w
<1>2. ASSUME NEW i \in 1..Len(w), Of(w[i], s, K) PROVE lo <= w[i].id /\ w[i].id < hi
  <2>1. CASE i \in 1..Len(q)
    <3>1. lo <= q[i].id /\ q[i].id < mid
      BY <1>1, <1>2, <2>1 DEF Within
    <3> QED BY <1>1, <2>1, <3>1
  <2>2. CASE i \notin 1..Len(q)
    <3>1. i - Len(q) \in 1..Len(r) /\ w[i] = r[i - Len(q)]
      BY <1>1, <2>2
    <3>2. mid <= r[i - Len(q)].id /\ r[i - Len(q)].id < hi
      BY <1>2, <3>1 DEF Within
    <3> QED BY <1>1, <3>1, <3>2
  <2> QED BY <2>1, <2>2
<1>3. ASSUME NEW i \in 1..Len(w), NEW j \in 1..Len(w), Of(w[i], s, K), Of(w[j], s, K), i < j
      PROVE  w[i].id < w[j].id
  <2>1. CASE j \in 1..Len(q)
    <3>1. i \in 1..Len(q) /\ w[i] = q[i] /\ w[j] = q[j]
      BY <1>1, <1>3, <2>1
    <3> QED BY <1>3, <2>1, <3>1 DEF Within
  <2>2. CASE i \in 1..Len(q) /\ j \notin 1..Len(q)
    <3>1. j - Len(q) \in 1..Len(r) /\ w[j] = r[j - Len(q)] /\ w[i] = q[i]
      BY <1>1, <2>2
    <3>2. q[i].id < mid
      BY <1>3, <2>2, <3>1 DEF Within
    <3>3. mid <= r[j - Len(q)].id
      BY <1>3, <2>2, <3>1 DEF Within
    <3>4. q[i].id \in Nat /\ r[j - Len(q)].id \in Nat
      BY <1>1, <2>2, <3>1
    <3>5. q[i].id < r[j - Len(q)].id
      BY SMTT(30), <3>2, <3>3, <3>4
    <3> QED BY <3>1, <3>5
  <2>3. CASE i \notin 1..Len(q)
    <3>1. j \notin 1..Len(q)
      BY <1>1, <1>3, <2>3
    <3>2. /\ i - Len(q) \in 1..Len(r) /\ w[i] = r[i - Len(q)]
          /\ j - Len(q) \in 1..Len(r) /\ w[j] = r[j - Len(q)]
          /\ i - Len(q) < j - Len(q)
      BY SMTT(30), <1>1, <1>3, <2>3, <3>1
    <3> QED BY <1>3, <3>2 DEF Within
  <2> QED BY <2>1, <2>2, <2>3
<1> QED BY <1>2, <1>3 DEF Within, w

LEMMA NatAppend ==
  ASSUME NEW q \in Seq(Nat), NEW m \in Nat
  PROVE  /\ Len(Append(q, m)) = Len(q) + 1 /\ Len(q) \in Nat
         /\ \A i \in 1..Len(q) : Append(q, m)[i] = q[i] /\ q[i] \in Nat
         /\ Append(q, m)[Len(q) + 1] = m
OBVIOUS

LEMMA IdsFacts ==
  ASSUME NEW q \in Seq(Packet), NEW s, NEW K
  PROVE  /\ \A x \in Packet : IdsOf(Append(q, x), s, K)
                               = IdsOf(q, s, K) \cup {m \in {x.id} : Of(x, s, K)}
         /\ \A x \in Packet : ~Of(x, s, K) => IdsOf(Append(q, x), s, K) = IdsOf(q, s, K)
         /\ q # <<>> => /\ IdsOf(Tail(q), s, K) \subseteq IdsOf(q, s, K)
                        /\ Of(Head(q), s, K) => Head(q).id \in IdsOf(q, s, K)
         /\ \A lo, hi \in Nat : Within(q, s, K, lo, hi) =>
              \A m \in IdsOf(q, s, K) : m \in Nat /\ lo <= m /\ m < hi
<1>1. ASSUME NEW x \in Packet
      PROVE  IdsOf(Append(q, x), s, K) = IdsOf(q, s, K) \cup {m \in {x.id} : Of(x, s, K)}
  <2> DEFINE r == Append(q, x)
  <2>1. /\ \A i \in 1..Len(q) : r[i] = q[i]
        /\ r[Len(q) + 1] = x /\ Len(r) = Len(q) + 1
        /\ 1..(Len(q) + 1) = 1..Len(q) \cup {Len(q) + 1}
    BY AppendFacts
  <2> HIDE DEF r
  <2>2. \A m \in IdsOf(r, s, K) : m \in IdsOf(q, s, K) \/ (m = x.id /\ Of(x, s, K))
    BY <2>1 DEF IdsOf
  <2>3. \A m \in IdsOf(q, s, K) : m \in IdsOf(r, s, K)
    BY <2>1 DEF IdsOf
  <2>4. Of(x, s, K) => x.id \in IdsOf(r, s, K)
    BY <2>1 DEF IdsOf
  <2> QED BY <2>2, <2>3, <2>4 DEF r
<1>2. ASSUME q # <<>>
      PROVE  /\ IdsOf(Tail(q), s, K) \subseteq IdsOf(q, s, K)
             /\ Of(Head(q), s, K) => Head(q).id \in IdsOf(q, s, K)
  <2> DEFINE r == Tail(q)
  <2>1. /\ Head(q) = q[1] /\ Len(q) \in Nat \ {0} /\ Len(r) = Len(q) - 1
        /\ \A i \in 1..(Len(q) - 1) : r[i] = q[i + 1] /\ i + 1 \in 1..Len(q)
    BY <1>2, TailFacts
  <2> HIDE DEF r
  <2>2. IdsOf(r, s, K) \subseteq IdsOf(q, s, K)
    BY SMTT(30), <2>1 DEF IdsOf
  <2>3. 1 \in 1..Len(q)
    BY <2>1
  <2> QED BY <2>1, <2>2, <2>3 DEF IdsOf, r
<1>3. ASSUME NEW lo \in Nat, NEW hi \in Nat, Within(q, s, K, lo, hi), NEW m \in IdsOf(q, s, K)
      PROVE  m \in Nat /\ lo <= m /\ m < hi
  <2>1. PICK i \in 1..Len(q) : m = q[i].id /\ Of(q[i], s, K)
    BY DEF IdsOf
  <2>2. q[i].id \in Nat
    BY PacketFields
  <2> QED BY <1>3, <2>1, <2>2 DEF Within
<1> QED BY <1>1, <1>2, <1>3

LEMMA InitLine == Init => LineInv
<1> SUFFICES ASSUME Init, NEW s \in Ids PROVE Lined(s) /\ Held(s) \cap Gone(s) = {}
  BY DEF LineInv
<1>1. /\ taken[s] = <<>> /\ requests[s] = <<>> /\ unprocessed[s] = <<>> /\ pipeIn = <<>> /\ sent = <<>>
      /\ clientNext[s] = 1 /\ pc[Reader] = "loop"
  BY DEF Init, ConnInit, StreamInit, ThreadInit, Procs
<1>2. \A K : \A lo, hi \in Nat : Within(<<>>, s, K, lo, hi)
  BY DEF Within
<1>3. Line(s, 1, 1, 1, 1)
  BY <1>1, <1>2 DEF Line, TakenBelow, HandWithin, InHand
<1> QED BY <1>1, <1>3 DEF Lined, Gone, IdsOf

\* One stream across one step.
LEMMA LineNext == CloseInv /\ HandshakeInv /\ PlaceInv /\ KindInv /\ LineInv /\ [Next]_vars => LineInv'
<1> SUFFICES ASSUME CloseInv, HandshakeInv, PlaceInv, KindInv, LineInv, [Next]_vars, NEW s \in Ids
             PROVE  Lined(s)' /\ Held(s)' \cap Gone(s)' = {}
  BY DEF LineInv
<1>0. /\ requests \in [Ids -> Seq(Packet)] /\ unprocessed \in [Ids -> Seq(Packet)]
      /\ requests[s] \in Seq(Packet) /\ unprocessed[s] \in Seq(Packet)
      /\ pipeIn \in Seq(Packet) /\ sent \in Seq(Packet) /\ taken \in [Ids -> Seq(Nat)]
      /\ taken[s] \in Seq(Nat)
      /\ clientNext \in [Ids -> Nat \ {0}] /\ clientNext[s] \in Nat
      /\ Reader \in Procs /\ Arrived \in Packet /\ Arrived.id \in Nat
      /\ pc \in [Procs -> PCs] /\ arg \in [Procs -> Packet]
  BY PacketFields DEF CloseInv, TypeOK, ConnTypeOK, ThreadTypeOK, StreamTypeOK, ClientTypeOK, AppTypeOK,
     Procs, Arrived
<1>1. DeliveryStep
  BY DeliverySteps
<1>2. PICK a, b, c, d \in Nat : Line(s, a, b, c, d)
  BY DEF LineInv, Lined
<1>3. /\ 1 <= a /\ a <= b /\ b <= c /\ c <= d /\ d <= clientNext[s]
      /\ TakenBelow(s, a)
      /\ Within(requests[s], s, Requests, a, b)
      /\ Within(unprocessed[s], s, Requests, b, c)
      /\ HandWithin(s, c, d)
      /\ Within(pipeIn, s, Requests, d, clientNext[s])
      /\ Within(sent, s, Refusals, 1, c)
      /\ Held(s) \cap Gone(s) = {}
  BY <1>2 DEF Line, LineInv
<1>held. ASSUME UNCHANGED <<taken[s], requests[s], unprocessed[s]>> PROVE Held(s)' = Held(s)
  BY <1>held DEF Held
<1>gone. ASSUME UNCHANGED sent PROVE Gone(s)' = Gone(s)
  BY <1>gone DEF Gone
<1>hand. ASSUME HandKept PROVE HandWithin(s, c, d)'
  BY <1>3, <1>hand DEF HandKept, HandWithin
<1>empty. ASSUME pc'[Reader] = "loop" PROVE \A m, n : HandWithin(s, m, n)'
  BY <1>empty DEF HandWithin, InHand
<1>taken. ASSUME UNCHANGED taken[s] PROVE TakenBelow(s, a)'
  BY <1>3, <1>taken DEF TakenBelow
<1>below. /\ \A m \in Held(s) : m \in Nat /\ m < c
          /\ \A m \in Gone(s) : m \in Nat /\ m < c
  <2>1. \A m \in IdsOf(requests[s], s, Requests) : m \in Nat /\ m < b
    BY <1>0, <1>3, IdsFacts
  <2>2. \A m \in IdsOf(unprocessed[s], s, Requests) : m \in Nat /\ m < c
    BY <1>0, <1>3, IdsFacts
  <2>3. \A m \in Gone(s) : m \in Nat /\ m < c
    BY <1>0, <1>3, IdsFacts DEF Gone
  <2>4. \A i \in 1..Len(taken[s]) : taken[s][i] \in Nat /\ taken[s][i] < a
    BY SMTT(30), <1>0, <1>3 DEF TakenBelow
  <2>5. \A m \in Nat : m < a \/ m < b => m < c
    BY <1>3
  <2> QED BY <2>1, <2>2, <2>3, <2>4, <2>5 DEF Held
<1>lined. ASSUME NEW a2 \in Nat, NEW b2 \in Nat, NEW c2 \in Nat, NEW d2 \in Nat, Line(s, a2, b2, c2, d2)'
          PROVE  Lined(s)'
  BY <1>lined DEF Lined
<1>still. ASSUME UNCHANGED <<taken[s], requests[s], unprocessed[s], pipeIn, sent, clientNext[s]>>,
                 HandWithin(s, c, d)'
          PROVE  Lined(s)' /\ Held(s)' \cap Gone(s)' = {}
  <2>1. Line(s, a, b, c, d)'
    BY <1>3, <1>still, <1>taken DEF Line
  <2> QED BY <1>3, <1>gone, <1>held, <1>lined, <1>still, <2>1
<1>4. CASE HandKept /\ Quiet
  BY <1>4, <1>hand, <1>still DEF Quiet
<1>5. CASE DropsRefusal
  BY <1>0, <1>5, <1>empty, <1>still DEF DropsRefusal, Quiet, WriteFails, Return, GotoWith
<1>6. ASSUME NEW u \in Ids, PutsMarker(u), HandKept PROVE Lined(s)' /\ Held(s)' \cap Gone(s)' = {}
  <2>1. CASE u # s
    BY <1>0, <1>6, <1>hand, <1>still, <2>1 DEF PutsMarker, Put
  <2>2. CASE u = s
    <3>1. unprocessed'[s] = Append(unprocessed[s], SHUTDOWN) /\ SHUTDOWN \in Packet
          /\ ~Of(SHUTDOWN, s, Requests)
      BY <1>0, <1>6, <2>2, MarkerType, PktFields DEF PutsMarker, Put, Of, Requests, SHUTDOWN
    <3>2. Within(unprocessed'[s], s, Requests, b, c)
      BY SMTT(30), <1>0, <1>3, <3>1, WithinAppend
    <3>3. Line(s, a, b, c, d)'
      BY <1>3, <1>6, <1>hand, <1>taken, <3>2 DEF Line, PutsMarker
    <3>4. IdsOf(unprocessed'[s], s, Requests) = IdsOf(unprocessed[s], s, Requests)
      BY <1>0, <3>1, IdsFacts
    <3>5. Held(s)' = Held(s)
      BY <1>6, <3>4 DEF Held, PutsMarker
    <3> QED BY <1>3, <1>6, <1>gone, <1>lined, <3>3, <3>5 DEF PutsMarker
  <2> QED BY <2>1, <2>2
<1>7. ASSUME NEW u \in Ids, TakesOther(u), HandKept PROVE Lined(s)' /\ Held(s)' \cap Gone(s)' = {}
  <2>1. CASE u # s
    BY <1>0, <1>7, <1>hand, <1>still, <2>1 DEF TakesOther, Takes
  <2>2. CASE u = s
    <3>1. unprocessed'[s] = Tail(unprocessed[s]) /\ unprocessed[s] # <<>>
      BY <1>0, <1>7, <2>2 DEF TakesOther, Takes
    <3>2. Within(unprocessed'[s], s, Requests, b, c)
      BY <1>0, <1>3, <3>1, WithinTail
    <3>3. Line(s, a, b, c, d)'
      BY <1>3, <1>7, <1>hand, <1>taken, <3>2 DEF Line, TakesOther
    <3>4. IdsOf(unprocessed'[s], s, Requests) \subseteq IdsOf(unprocessed[s], s, Requests)
      BY <1>0, <3>1, IdsFacts
    <3>5. Held(s)' \subseteq Held(s)
      BY <1>7, <3>4 DEF Held, TakesOther
    <3> QED BY <1>3, <1>7, <1>gone, <1>lined, <3>3, <3>5 DEF TakesOther
  <2> QED BY <2>1, <2>2
<1>8. ASSUME NEW u \in Ids, MovesRequest(u), HandKept PROVE Lined(s)' /\ Held(s)' \cap Gone(s)' = {}
  <2>1. CASE u # s
    BY <1>0, <1>8, <1>hand, <1>still, <2>1 DEF MovesRequest, Takes
  <2>2. CASE u = s
    <3> DEFINE x == Head(unprocessed[s])
    <3>1. /\ unprocessed'[s] = Tail(unprocessed[s]) /\ unprocessed[s] # <<>>
          /\ requests'[s] = Append(requests[s], x)
          /\ x # SHUTDOWN /\ x.kind # "reply"
      BY <1>0, <1>8, <2>2 DEF MovesRequest, Takes
    <3>2. x \in Packet /\ x = unprocessed[s][1] /\ 1 \in 1..Len(unprocessed[s]) /\ x.id \in Nat
      BY <1>0, <3>1, TailFacts, PacketFields
    <3>3. Of(x, s, Requests)
      BY SMTT(30), <3>1, <3>2 DEF KindInv, Of, Requests
    <3>4. b <= x.id /\ x.id < c
      BY <1>3, <3>2, <3>3 DEF Within
    <3>5. PICK n \in Nat : n = x.id + 1
      BY <3>2
    <3> HIDE DEF x
    <3>6. Within(unprocessed'[s], s, Requests, n, c)
      BY SMTT(30), <1>0, <1>3, <3>1, <3>3, <3>5, WithinTail DEF x
    <3>8. a <= n /\ n <= c /\ b <= n /\ x.id < n
      BY SMTT(30), <1>3, <3>2, <3>4, <3>5
    <3>7. Within(requests'[s], s, Requests, a, n)
      <4>1. /\ requests[s] \in Seq(Packet) /\ Within(requests[s], s, Requests, a, b) /\ a <= b /\ b <= n
            /\ Of(x, s, Requests) => b <= x.id /\ x.id < n
        BY <1>0, <1>3, <3>4, <3>8
      <4>2. Within(Append(requests[s], x), s, Requests, a, n)
        BY <3>2, <4>1, WithinAppend
      <4> QED BY <3>1, <4>2
    <3>9. Line(s, a, n, c, d)'
      BY <1>3, <1>8, <1>hand, <1>taken, <3>6, <3>7, <3>8 DEF Line, MovesRequest
    <3>10. /\ IdsOf(unprocessed'[s], s, Requests) \subseteq IdsOf(unprocessed[s], s, Requests)
           /\ x.id \in IdsOf(unprocessed[s], s, Requests)
      BY <1>0, <3>1, <3>3, IdsFacts DEF x
    <3>11. IdsOf(requests'[s], s, Requests) \subseteq IdsOf(requests[s], s, Requests) \cup {x.id}
      BY <1>0, <3>1, <3>2, IdsFacts
    <3>12. Held(s)' \subseteq Held(s)
      BY <1>8, <3>10, <3>11 DEF Held, MovesRequest
    <3> QED BY <1>3, <1>8, <1>gone, <1>lined, <3>9, <3>12 DEF MovesRequest
  <2> QED BY <2>1, <2>2
<1>9. ASSUME NEW u \in Ids, PopsRequest(u), HandKept PROVE Lined(s)' /\ Held(s)' \cap Gone(s)' = {}
  <2>1. CASE u # s
    BY <1>0, <1>9, <1>hand, <1>still, <2>1 DEF PopsRequest
  <2>2. CASE u = s
    <3> DEFINE x == Head(requests[s])
    <3>1. /\ requests'[s] = Tail(requests[s]) /\ requests[s] # <<>>
          /\ taken'[s] = Append(taken[s], x.id)
      BY <1>0, <1>9, <2>2 DEF PopsRequest
    <3>2. x \in Packet /\ x = requests[s][1] /\ 1 \in 1..Len(requests[s]) /\ x.id \in Nat
      BY <1>0, <3>1, TailFacts, PacketFields
    <3>3. Of(x, s, Requests)
      BY <3>1, <3>2 DEF KindInv, Of, Requests
    <3>4. a <= x.id /\ x.id < b
      BY <1>3, <3>2, <3>3 DEF Within
    <3>5. PICK n \in Nat : n = x.id + 1
      BY <3>2
    <3>6. Within(requests'[s], s, Requests, n, b)
      BY SMTT(30), <1>0, <1>3, <3>1, <3>3, <3>5, WithinTail
    <3>10. /\ IdsOf(requests'[s], s, Requests) \subseteq IdsOf(requests[s], s, Requests)
           /\ x.id \in IdsOf(requests[s], s, Requests)
      BY <1>0, <3>1, <3>3, IdsFacts
    <3> HIDE DEF x
    <3>7. TakenBelow(s, n)'
      <4>1. /\ Len(taken'[s]) = Len(taken[s]) + 1 /\ Len(taken[s]) \in Nat
            /\ \A i \in 1..Len(taken[s]) : taken'[s][i] = taken[s][i] /\ taken[s][i] \in Nat
            /\ taken'[s][Len(taken[s]) + 1] = x.id
        BY SMTT(30), <1>0, <3>1, <3>2, NatAppend
      <4>2. \A i \in 1..Len(taken[s]) : 1 <= taken[s][i] /\ taken[s][i] < a
        BY <1>3 DEF TakenBelow
      <4>3. ASSUME NEW i \in 1..Len(taken'[s]) PROVE 1 <= taken'[s][i] /\ taken'[s][i] < n
        <5>1. CASE i \in 1..Len(taken[s])
          <6>1. \A m \in Nat : m < a => m < n
            BY SMTT(30), <1>3, <3>2, <3>4, <3>5
          <6> QED BY <4>1, <4>2, <5>1, <6>1
        <5>2. CASE i = Len(taken[s]) + 1
          BY SMTT(30), <1>3, <3>2, <3>4, <3>5, <4>1, <5>2
        <5> QED BY <4>1, <5>1, <5>2
      <4>4. ASSUME NEW i \in 1..Len(taken'[s]), NEW j \in 1..Len(taken'[s]), i < j
            PROVE  taken'[s][i] < taken'[s][j]
        <5>1. i \in 1..Len(taken[s])
          BY <4>1, <4>4
        <5>2. CASE j \in 1..Len(taken[s])
          BY <1>3, <4>1, <4>4, <5>1, <5>2 DEF TakenBelow
        <5>3. CASE j = Len(taken[s]) + 1
          BY SMTT(30), <3>2, <3>4, <4>1, <4>2, <5>1, <5>3
        <5> QED BY <4>1, <5>2, <5>3
      <4> QED BY <4>3, <4>4 DEF TakenBelow
    <3>8. 1 <= n /\ n <= b
      BY <3>2, <3>4, <3>5
    <3>9. Line(s, n, b, c, d)'
      BY <1>3, <1>9, <1>hand, <3>6, <3>7, <3>8 DEF Line, PopsRequest
    <3>11. {taken'[s][i] : i \in 1..Len(taken'[s])} \subseteq {taken[s][i] : i \in 1..Len(taken[s])} \cup {x.id}
      BY SMTT(30), <1>0, <3>1, <3>2
    <3>12. Held(s)' \subseteq Held(s)
      BY <1>9, <3>10, <3>11 DEF Held, PopsRequest
    <3> QED BY <1>3, <1>9, <1>gone, <1>lined, <3>9, <3>12 DEF PopsRequest
  <2> QED BY <2>1, <2>2
<1>10. ASSUME NEW x \in Packet, Sends(x), HandKept PROVE Lined(s)' /\ Held(s)' \cap Gone(s)' = {}
  <2>1. sent' = Append(sent, x) /\ ~Of(x, s, Refusals)
    BY <1>10 DEF Sends, Of, Refusals
  <2>2. Within(sent', s, Refusals, 1, c)
    BY <1>0, <1>3, <2>1, WithinAppend
  <2>3. Gone(s)' = Gone(s)
    BY <1>0, <2>1, IdsFacts DEF Gone
  <2>4. Line(s, a, b, c, d)'
    BY <1>3, <1>10, <1>hand, <1>taken, <2>2 DEF Line, Sends
  <2> QED BY <1>3, <1>10, <1>held, <1>lined, <2>3, <2>4 DEF Sends
<1>11. CASE Refused
  <2>1. /\ sent' = Append(sent, Arrived) /\ pc[Reader] = "sending" /\ Arrived.kind = "error"
        /\ UNCHANGED <<taken[s], requests[s], unprocessed[s], pipeIn, clientNext[s]>>
        /\ \A m, n : HandWithin(s, m, n)'
    BY <1>11, <1>empty DEF Refused
  <2>2. CASE ~Of(Arrived, s, Refusals)
    <3>1. Within(sent', s, Refusals, 1, c)
      BY <1>0, <1>3, <2>1, <2>2, WithinAppend
    <3>2. Gone(s)' = Gone(s)
      BY <1>0, <2>1, <2>2, IdsFacts DEF Gone
    <3>3. Line(s, a, b, c, d)'
      BY <1>3, <1>taken, <2>1, <3>1 DEF Line
    <3> QED BY <1>3, <1>held, <1>lined, <2>1, <3>2, <3>3
  <2>3. CASE Of(Arrived, s, Refusals)
    <3>1. c <= Arrived.id /\ Arrived.id < d
      <4>1. InHand(s, Arrived.id) /\ Arrived.id \in Nat \ {0}
        BY <1>0, <2>1, <2>3 DEF InHand, IsRefusal, Of
      <4> QED BY <1>3, <4>1 DEF HandWithin
    <3>2. PICK n \in Nat : n = Arrived.id + 1
      BY <1>0
    <3>3. c <= n /\ n <= d /\ 1 <= c /\ Arrived.id < n
      BY SMTT(30), <1>0, <1>3, <3>1, <3>2
    <3>4. Within(sent', s, Refusals, 1, n)
      BY <1>0, <1>3, <2>1, <3>1, <3>3, WithinAppend
    <3>5. Within(unprocessed'[s], s, Requests, b, n)
      BY <1>0, <1>3, <2>1, <3>3, WithinRaised
    <3>6. b <= n
      BY <1>3, <3>3
    <3>7. Line(s, a, b, n, d)'
      BY <1>3, <1>taken, <2>1, <3>3, <3>4, <3>5, <3>6 DEF Line
    <3>8. Gone(s)' \subseteq Gone(s) \cup {Arrived.id}
      BY <1>0, <2>1, IdsFacts DEF Gone
    <3>9. Arrived.id \notin Held(s)
      BY <1>0, <1>below, <3>1
    <3> QED BY <1>3, <1>held, <1>lined, <2>1, <3>7, <3>8, <3>9
  <2> QED BY <2>2, <2>3
<1>12. CASE Receives
  <2>1. /\ pipeIn # <<>> /\ pipeIn' = Tail(pipeIn) /\ pc'[Reader] = "dispatch" /\ Arrived' = Head(pipeIn)
        /\ UNCHANGED <<taken[s], requests[s], unprocessed[s], sent, clientNext[s]>>
    BY <1>0, <1>12 DEF Receives, ReceivePacket, At, GotoWith, Arrived
  <2>2. /\ Head(pipeIn) = pipeIn[1] /\ 1 \in 1..Len(pipeIn) /\ Head(pipeIn) \in Packet /\ Head(pipeIn).id \in Nat
    BY <1>0, <2>1, TailFacts, PacketFields
  <2>3. \A m : InHand(s, m)' => Of(Head(pipeIn), s, Requests) /\ m = Head(pipeIn).id
    BY <2>1 DEF InHand, IsRequest, Of, Requests
  <2>4. CASE ~Of(Head(pipeIn), s, Requests)
    <3>1. Within(pipeIn', s, Requests, d, clientNext[s])
      BY <1>0, <1>3, <2>1, WithinTail
    <3>2. HandWithin(s, c, d)'
      BY <2>3, <2>4 DEF HandWithin
    <3>3. Line(s, a, b, c, d)'
      BY <1>3, <1>taken, <2>1, <3>1, <3>2 DEF Line
    <3> QED BY <1>3, <1>gone, <1>held, <1>lined, <2>1, <3>3
  <2>5. CASE Of(Head(pipeIn), s, Requests)
    <3>1. d <= Head(pipeIn).id /\ Head(pipeIn).id < clientNext[s]
      BY <1>3, <2>2, <2>5 DEF Within
    <3>2. PICK n \in Nat : n = Head(pipeIn).id + 1
      BY <2>2
    <3>3. Within(pipeIn', s, Requests, n, clientNext[s])
      BY <1>0, <1>3, <2>1, <2>5, <3>2, WithinTail
    <3>4. c <= n /\ n <= clientNext[s] /\ c <= Head(pipeIn).id
      <4>1. PICK h \in Nat : h = Head(pipeIn).id
        BY <2>2
      <4>2. PICK e \in Nat : e = clientNext[s]
        BY <1>0
      <4>3. c <= d
        BY <1>3
      <4>4. c <= n /\ n <= e /\ c <= h
        BY <3>1, <3>2, <4>1, <4>2, <4>3
      <4> QED BY <4>1, <4>2, <4>4
    <3>5. HandWithin(s, c, n)'
      BY <2>2, <2>3, <3>2, <3>4 DEF HandWithin
    <3>6. Line(s, a, b, c, n)'
      BY <1>3, <1>taken, <2>1, <3>3, <3>4, <3>5 DEF Line
    <3> QED BY <1>3, <1>gone, <1>held, <1>lined, <2>1, <3>6
  <2> QED BY <2>4, <2>5
<1>13. CASE Puts
  <2>1. /\ pc[Reader] = "put" /\ unprocessed' = [unprocessed EXCEPT ![Arrived.stream] = Append(@, Arrived)]
        /\ UNCHANGED <<taken[s], requests[s], pipeIn, sent, clientNext[s]>>
        /\ \A m, n : HandWithin(s, m, n)'
    BY <1>0, <1>13, <1>empty DEF Puts, PutPacket, Put, At, Return, GotoWith
  <2>2. CASE Arrived.stream # s
    BY <1>0, <1>still, <2>1, <2>2
  <2>3. CASE Arrived.stream = s
    <3>1. unprocessed'[s] = Append(unprocessed[s], Arrived)
      BY <1>0, <2>1, <2>3
    <3>2. CASE ~Of(Arrived, s, Requests)
      <4>1. Within(unprocessed'[s], s, Requests, b, c)
        BY <1>0, <1>3, <3>1, <3>2, WithinAppend
      <4>2. Line(s, a, b, c, d)'
        BY <1>3, <1>taken, <2>1, <4>1 DEF Line
      <4>3. IdsOf(unprocessed'[s], s, Requests) = IdsOf(unprocessed[s], s, Requests)
        BY <1>0, <3>1, <3>2, IdsFacts
      <4>4. Held(s)' = Held(s)
        BY <2>1, <4>3 DEF Held
      <4> QED BY <1>3, <1>gone, <1>lined, <2>1, <4>2, <4>4
    <3>3. CASE Of(Arrived, s, Requests)
      <4>1. c <= Arrived.id /\ Arrived.id < d
        <5>1. InHand(s, Arrived.id) /\ Arrived.id \in Nat \ {0}
          BY <1>0, <2>1, <3>3 DEF InHand, IsRequest, Of, Requests, KindInv, FromClient
        <5> QED BY <1>3, <5>1 DEF HandWithin
      <4>2. PICK n \in Nat : n = Arrived.id + 1
        BY <1>0
      <4>3. b <= n /\ n <= d /\ c <= n /\ Arrived.id < n
        BY SMTT(30), <1>0, <1>3, <4>1, <4>2
      <4>4. Within(unprocessed'[s], s, Requests, b, n)
        <5>1. /\ Within(unprocessed[s], s, Requests, b, c) /\ b <= c /\ c <= n
              /\ Of(Arrived, s, Requests) => c <= Arrived.id /\ Arrived.id < n
          BY <1>3, <4>1, <4>3
        <5>2. Within(Append(unprocessed[s], Arrived), s, Requests, b, n)
          BY <1>0, <5>1, WithinAppend
        <5> QED BY <3>1, <5>2
      <4>5. Within(sent, s, Refusals, 1, n)
        BY <1>0, <1>3, <4>3, WithinRaised
      <4>6. Line(s, a, b, n, d)'
        BY <1>3, <1>taken, <2>1, <4>3, <4>4, <4>5 DEF Line
      <4>7. IdsOf(unprocessed'[s], s, Requests) \subseteq IdsOf(unprocessed[s], s, Requests) \cup {Arrived.id}
        BY <1>0, <3>1, IdsFacts
      <4>8. Held(s)' \subseteq Held(s) \cup {Arrived.id}
        BY <2>1, <4>7 DEF Held
      <4>9. Arrived.id \notin Gone(s)
        BY <1>0, <1>below, <4>1
      <4> QED BY <1>3, <1>gone, <1>lined, <2>1, <4>6, <4>8, <4>9
    <3> QED BY <3>2, <3>3
  <2> QED BY <2>2, <2>3
<1>14. ASSUME NEW x \in Packet, ClientSendsOther(x), HandKept PROVE Lined(s)' /\ Held(s)' \cap Gone(s)' = {}
  <2>1. /\ pipeIn' = Append(pipeIn, x) /\ ~Of(x, s, Requests)
        /\ UNCHANGED <<taken[s], requests[s], unprocessed[s], sent, clientNext[s]>>
    BY <1>14 DEF ClientSendsOther, ClientSends, Of, Requests
  <2>2. Within(pipeIn', s, Requests, d, clientNext[s])
    BY <1>0, <1>3, <2>1, WithinAppend
  <2>3. Line(s, a, b, c, d)'
    BY <1>3, <1>14, <1>hand, <1>taken, <2>1, <2>2 DEF Line
  <2> QED BY <1>3, <1>gone, <1>held, <1>lined, <2>1, <2>3
<1>15. ASSUME NEW u \in Ids, NEW k \in {"hello", "request"}, ClientSendsRequest(u, k), HandKept
       PROVE  Lined(s)' /\ Held(s)' \cap Gone(s)' = {}
  <2> DEFINE x == Pkt(u, clientNext[u], k)
  <2>1. /\ pipeIn' = Append(pipeIn, x) /\ x \in Packet /\ x.stream = u /\ x.id = clientNext[u]
        /\ UNCHANGED <<taken[s], requests[s], unprocessed[s], sent>>
        /\ clientNext'[s] = IF u = s THEN clientNext[s] + 1 ELSE clientNext[s]
    <3>1. clientNext[u] \in Nat /\ k \in AllKinds
      BY <1>0 DEF AllKinds
    <3>2. x \in Packet /\ x.stream = u /\ x.id = clientNext[u] /\ x.kind = k
      BY <3>1, PktType, PktFields
    <3>3. pipeIn' = Append(pipeIn, x) /\ UNCHANGED <<requests, unprocessed, taken, sent>>
      BY <1>15 DEF ClientSendsRequest, ClientSends
    <3>4. clientNext'[s] = IF u = s THEN clientNext[s] + 1 ELSE clientNext[s]
      BY <1>0, <1>15 DEF ClientSendsRequest
    <3> QED BY <3>2, <3>3, <3>4
  <2> HIDE DEF x
  <2>2. PICK n \in Nat : n = clientNext'[s]
    BY <1>0, <2>1
  <2>3. clientNext[s] <= n /\ (Of(x, s, Requests) => clientNext[s] <= x.id /\ x.id < n)
    BY SMTT(30), <1>0, <2>1, <2>2 DEF Of
  <2>4. Within(pipeIn', s, Requests, d, clientNext'[s])
    BY <1>0, <1>3, <2>1, <2>2, <2>3, WithinAppend
  <2>5. d <= clientNext'[s]
    BY SMTT(30), <1>0, <1>3, <2>2, <2>3
  <2>6. Line(s, a, b, c, d)'
    BY <1>3, <1>15, <1>hand, <1>taken, <2>1, <2>4, <2>5 DEF Line
  <2> QED BY <1>3, <1>gone, <1>held, <1>lined, <2>1, <2>6
<1> QED BY <1>1, <1>4, <1>5, <1>6, <1>7, <1>8, <1>9, <1>10, <1>11, <1>12, <1>13, <1>14, <1>15 DEF DeliveryStep

-----------------------------------------------------------------------------
\* The client does not come back.
LEMMA PeerGone == [Next]_vars /\ peerOpen' => peerOpen
<1> SUFFICES ASSUME [Next]_vars, peerOpen' PROVE peerOpen
  OBVIOUS
<1> USE DEF clientVars
<1>1. ASSUME NEW t \in Threads, CallStep(t) PROVE peerOpen
  BY <1>1 DEF CallStep, ReceiveHandshake, NewStream, Close, ReadRequest, SendRequest,
     RegisterClientStream, CloseStream, Get, WriteReply, Begin
<1>2. ASSUME NEW t \in Threads, InnerStep(t) \/ TimesOut(t) PROVE peerOpen
  BY <1>2, EmptyEffect DEF InnerStep, Register, SetHandshakeDone, ReturnReply, ReturnRequest,
     PopRequest, AnswerHandshake, ChooseTimeout, TakeMarker, TakePacket, TakeNext
<1>3. ASSUME NEW p, SharedStep(p) \/ OtherWritten(p) \/ RequestWritten(p) PROVE peerOpen
  BY <1>3 DEF SharedStep, OtherWritten, RequestWritten, Transmit, Unblock, AcquireWriter, WriteFails,
     CloseUnderLock, ShutStream
<1>4. CASE ReaderStep \/ ReadInterrupted
  BY <1>4 DEF ReaderStep, ReaderLoop, ReceivePacket, ReadFails, Refuse, IgnoreClose, PeerCloses, Accept,
     PutPacket, ReadInterrupted, At
<1>5. CASE ClientStep \/ UNCHANGED vars
  BY <1>5 DEF ClientStep, ClientRequest, ClientReplies, ClientOther, ClientWrites, Disconnect, vars
<1> QED BY <1>1, <1>2, <1>3, <1>4, <1>5 DEF Next

LEMMA HasFacts ==
  ASSUME NEW q \in Seq(Packet), NEW s, NEW m
  PROVE  /\ \A x \in Packet : /\ Has(q, s, m) => Has(Append(q, x), s, m)
                              /\ IsRequest(x, s, m) => Has(Append(q, x), s, m)
         /\ q # <<>> /\ Has(q, s, m) => Has(Tail(q), s, m) \/ IsRequest(Head(q), s, m)
<1>1. ASSUME NEW x \in Packet
      PROVE  /\ Has(q, s, m) => Has(Append(q, x), s, m)
             /\ IsRequest(x, s, m) => Has(Append(q, x), s, m)
  <2>1. /\ \A i \in 1..Len(q) : Append(q, x)[i] = q[i]
        /\ Append(q, x)[Len(q) + 1] = x /\ Len(Append(q, x)) = Len(q) + 1
        /\ 1..(Len(q) + 1) = 1..Len(q) \cup {Len(q) + 1}
    BY AppendFacts
  <2> QED BY <2>1 DEF Has
<1>2. ASSUME q # <<>>, Has(q, s, m) PROVE Has(Tail(q), s, m) \/ IsRequest(Head(q), s, m)
  <2>1. PICK i \in 1..Len(q) : IsRequest(q[i], s, m)
    BY <1>2 DEF Has
  <2>2. CASE i = 1
    BY <1>2, <2>1, <2>2, TailFacts
  <2>3. CASE i # 1
    <3>1. i - 1 \in 1..(Len(q) - 1) /\ Len(Tail(q)) = Len(q) - 1
      BY <1>2, <2>3, TailFacts
    <3>2. Tail(q)[i - 1] = q[(i - 1) + 1] /\ (i - 1) + 1 = i
      BY <1>2, <3>1, TailFacts
    <3> QED BY <2>1, <3>1, <3>2 DEF Has
  <2> QED BY <2>2, <2>3
<1> QED BY <1>1, <1>2

LEMMA InitPresent == Init => PresentInv
<1> SUFFICES ASSUME Init, NEW s \in Ids, NEW m \in 1..(clientNext[s] - 1) PROVE Present(s, m)
  BY DEF PresentInv
<1>1. clientNext[s] = 1
  BY DEF Init, ConnInit
<1> QED BY <1>1

LEMMA PresentNext ==
  CloseInv /\ HandshakeInv /\ PlaceInv /\ KindInv /\ PresentInv /\ [Next]_vars => PresentInv'
<1> SUFFICES ASSUME CloseInv, HandshakeInv, PlaceInv, KindInv, PresentInv, [Next]_vars, running', peerOpen',
                    NEW s \in Ids, NEW m \in 1..(clientNext'[s] - 1)
             PROVE  Present(s, m)'
  BY DEF PresentInv
<1>0. /\ requests \in [Ids -> Seq(Packet)] /\ unprocessed \in [Ids -> Seq(Packet)]
      /\ requests[s] \in Seq(Packet) /\ unprocessed[s] \in Seq(Packet)
      /\ pipeIn \in Seq(Packet) /\ sent \in Seq(Packet) /\ taken \in [Ids -> Seq(Nat)]
      /\ taken[s] \in Seq(Nat)
      /\ clientNext \in [Ids -> Nat \ {0}] /\ clientNext[s] \in Nat
      /\ Reader \in Procs /\ Arrived \in Packet /\ Arrived.id \in Nat
      /\ pc \in [Procs -> PCs] /\ arg \in [Procs -> Packet]
  BY PacketFields DEF CloseInv, TypeOK, ConnTypeOK, ThreadTypeOK, StreamTypeOK, ClientTypeOK, AppTypeOK,
     Procs, Arrived
<1>1. DeliveryStep /\ running /\ peerOpen
  BY DeliverySteps, Monotone, PeerGone DEF CloseInv
<1>2. m \in 1..(clientNext[s] - 1) => Present(s, m)
  BY <1>1 DEF PresentInv
<1>3. m \in Nat \ {0}
  <2>1. clientNext'[s] \in Nat
    BY SMTT(30), <1>0, <1>1 DEF DeliveryStep, DropsRefusal, Quiet, PutsMarker, TakesOther, MovesRequest, PopsRequest, Sends,
       ClientSendsRequest, ClientSendsOther, Refused, Receives, Puts
  <2> QED BY <2>1
<1>hand. HandKept => (InHand(s, m)' <=> InHand(s, m))
  BY <1>3 DEF HandKept
\* What a step that leaves the count alone has to bring over, place by place.
<1>over. ASSUME UNCHANGED clientNext[s],
                Has(pipeIn, s, m) => Present(s, m)', Has(requests[s], s, m) => Present(s, m)',
                Has(unprocessed[s], s, m) => Present(s, m)', InHand(s, m) => Present(s, m)',
                (\E i \in 1..Len(taken[s]) : taken[s][i] = m) => Present(s, m)',
                (\E i \in 1..Len(sent) : IsRefusal(sent[i], s, m)) => Present(s, m)'
         PROVE  Present(s, m)'
  BY <1>2, <1>over DEF Present
<1>4. CASE HandKept /\ Quiet
  BY <1>4, <1>hand, <1>over DEF Quiet, Present
<1>5. ~DropsRefusal
  BY <1>1 DEF DropsRefusal, WriteFails
<1>6. ASSUME NEW u \in Ids, PutsMarker(u), HandKept PROVE Present(s, m)'
  <2>1. unprocessed'[s] \in {unprocessed[s], Append(unprocessed[s], SHUTDOWN)} /\ SHUTDOWN \in Packet
    BY <1>0, <1>6, MarkerType DEF PutsMarker, Put
  <2>2. Has(unprocessed[s], s, m) => Has(unprocessed'[s], s, m)
    BY <1>0, <2>1, HasFacts
  <2> QED BY <1>6, <1>hand, <1>over, <2>2 DEF PutsMarker, Present
<1>7. ASSUME NEW u \in Ids, TakesOther(u), HandKept PROVE Present(s, m)'
  <2>1. CASE u # s
    BY <1>0, <1>7, <1>hand, <1>over, <2>1 DEF TakesOther, Takes, Present
  <2>2. CASE u = s
    <3>1. /\ unprocessed'[s] = Tail(unprocessed[s]) /\ unprocessed[s] # <<>>
          /\ ~IsRequest(Head(unprocessed[s]), s, m)
      BY <1>0, <1>7, <2>2, PktFields DEF TakesOther, Takes, IsRequest, SHUTDOWN
    <3>2. Has(unprocessed[s], s, m) => Has(unprocessed'[s], s, m)
      BY <1>0, <3>1, HasFacts
    <3> QED BY <1>7, <1>hand, <1>over, <3>2 DEF TakesOther, Present
  <2> QED BY <2>1, <2>2
<1>8. ASSUME NEW u \in Ids, MovesRequest(u), HandKept PROVE Present(s, m)'
  <2>1. CASE u # s
    BY <1>0, <1>8, <1>hand, <1>over, <2>1 DEF MovesRequest, Takes, Present
  <2>2. CASE u = s
    <3>1. /\ unprocessed'[s] = Tail(unprocessed[s]) /\ unprocessed[s] # <<>>
          /\ requests'[s] = Append(requests[s], Head(unprocessed[s]))
      BY <1>0, <1>8, <2>2 DEF MovesRequest, Takes
    <3>2. Head(unprocessed[s]) \in Packet
      BY <1>0, <3>1, TailFacts
    <3>3. Has(requests[s], s, m) => Has(requests'[s], s, m)
      BY <1>0, <3>1, <3>2, HasFacts
    <3>4. Has(unprocessed[s], s, m) => Has(unprocessed'[s], s, m) \/ Has(requests'[s], s, m)
      BY <1>0, <3>1, <3>2, HasFacts
    <3> QED BY <1>8, <1>hand, <1>over, <3>3, <3>4 DEF MovesRequest, Present
  <2> QED BY <2>1, <2>2
<1>9. ASSUME NEW u \in Ids, PopsRequest(u), HandKept PROVE Present(s, m)'
  <2>1. CASE u # s
    BY <1>0, <1>9, <1>hand, <1>over, <2>1 DEF PopsRequest, Present
  <2>2. CASE u = s
    <3>1. /\ requests'[s] = Tail(requests[s]) /\ requests[s] # <<>>
          /\ taken'[s] = Append(taken[s], Head(requests[s]).id)
      BY <1>0, <1>9, <2>2 DEF PopsRequest
    <3>2. PICK n \in Nat : n = Head(requests[s]).id
      BY <1>0, <3>1, TailFacts, PacketFields
    <3>3. /\ Len(taken'[s]) = Len(taken[s]) + 1 /\ Len(taken[s]) \in Nat
          /\ \A i \in 1..Len(taken[s]) : taken'[s][i] = taken[s][i]
          /\ taken'[s][Len(taken[s]) + 1] = n
      BY <1>0, <3>1, <3>2, NatAppend
    <3>4. (\E i \in 1..Len(taken[s]) : taken[s][i] = m) => \E i \in 1..Len(taken'[s]) : taken'[s][i] = m
      <4>1. 1..Len(taken[s]) \subseteq 1..Len(taken'[s])
        BY <3>3
      <4> QED BY <3>3, <4>1
    <3>5. n = m => \E i \in 1..Len(taken'[s]) : taken'[s][i] = m
      BY <3>3
    <3>6. Has(requests[s], s, m) => Has(requests'[s], s, m) \/ n = m
      BY SMTT(30), <1>0, <3>1, <3>2, HasFacts DEF IsRequest
    <3> QED BY <1>9, <1>hand, <1>over, <3>4, <3>5, <3>6 DEF PopsRequest, Present
  <2> QED BY <2>1, <2>2
<1>sent. ASSUME NEW x \in Packet, sent' = Append(sent, x)
         PROVE  /\ (\E i \in 1..Len(sent) : IsRefusal(sent[i], s, m)) => \E i \in 1..Len(sent') : IsRefusal(sent'[i], s, m)
                /\ IsRefusal(x, s, m) => \E i \in 1..Len(sent') : IsRefusal(sent'[i], s, m)
  <2>1. /\ \A i \in 1..Len(sent) : sent'[i] = sent[i]
        /\ sent'[Len(sent) + 1] = x /\ Len(sent') = Len(sent) + 1
        /\ 1..(Len(sent) + 1) = 1..Len(sent) \cup {Len(sent) + 1}
    BY <1>0, <1>sent, AppendFacts
  <2> QED BY <2>1
<1>10. ASSUME NEW x \in Packet, Sends(x), HandKept PROVE Present(s, m)'
  BY <1>10, <1>hand, <1>over, <1>sent DEF Sends, Present
<1>11. CASE Refused
  <2>1. InHand(s, m) => IsRefusal(Arrived, s, m)
    BY <1>11 DEF Refused, InHand
  <2> QED BY <1>0, <1>11, <1>over, <1>sent, <2>1 DEF Refused, Present
<1>12. CASE Receives
  <2>1. /\ pipeIn # <<>> /\ pipeIn' = Tail(pipeIn) /\ pc[Reader] = "read" /\ pc'[Reader] = "dispatch"
        /\ Arrived' = Head(pipeIn)
    BY <1>0, <1>12 DEF Receives, ReceivePacket, At, GotoWith, Arrived
  <2>2. Has(pipeIn, s, m) => Has(pipeIn', s, m) \/ InHand(s, m)'
    BY <1>0, <2>1, HasFacts DEF InHand
  <2>3. ~InHand(s, m)
    BY <2>1 DEF InHand
  <2> QED BY <1>12, <1>over, <2>2, <2>3 DEF Receives, Present
<1>13. CASE Puts
  <2>1. pc[Reader] = "put" /\ unprocessed' = [unprocessed EXCEPT ![Arrived.stream] = Append(@, Arrived)]
    BY <1>0, <1>13 DEF Puts, PutPacket, Put, At
  <2>2. InHand(s, m) => IsRequest(Arrived, s, m)
    BY <2>1 DEF InHand
  <2>3. CASE Arrived.stream # s
    <3>1. ~InHand(s, m) /\ unprocessed'[s] = unprocessed[s]
      BY <1>0, <2>1, <2>2, <2>3 DEF IsRequest
    <3> QED BY <1>13, <1>over, <3>1 DEF Puts, PutPacket, Present
  <2>4. CASE Arrived.stream = s
    <3>1. unprocessed'[s] = Append(unprocessed[s], Arrived)
      BY <1>0, <2>1, <2>4
    <3>2. /\ Has(unprocessed[s], s, m) => Has(unprocessed'[s], s, m)
          /\ InHand(s, m) => Has(unprocessed'[s], s, m)
      BY <1>0, <2>2, <3>1, HasFacts
    <3> QED BY <1>13, <1>over, <3>2 DEF Puts, PutPacket, Present
  <2> QED BY <2>3, <2>4
<1>14. ASSUME NEW x \in Packet, ClientSendsOther(x), HandKept PROVE Present(s, m)'
  <2>1. pipeIn' = Append(pipeIn, x)
    BY <1>14 DEF ClientSendsOther, ClientSends
  <2>2. Has(pipeIn, s, m) => Has(pipeIn', s, m)
    BY <1>0, <2>1, HasFacts
  <2> QED BY <1>14, <1>hand, <1>over, <2>2 DEF ClientSendsOther, ClientSends, Present
<1>15. ASSUME NEW u \in Ids, NEW k \in {"hello", "request"}, ClientSendsRequest(u, k), HandKept
       PROVE  Present(s, m)'
  <2> DEFINE x == Pkt(u, clientNext[u], k)
  <2>1. /\ pipeIn' = Append(pipeIn, x) /\ x \in Packet
        /\ x.stream = u /\ x.id = clientNext[u] /\ x.kind = k
        /\ UNCHANGED <<requests, unprocessed, taken, sent>>
        /\ clientNext'[s] = IF u = s THEN clientNext[s] + 1 ELSE clientNext[s]
    <3>1. clientNext[u] \in Nat /\ k \in AllKinds
      BY <1>0 DEF AllKinds
    <3>2. x \in Packet /\ x.stream = u /\ x.id = clientNext[u] /\ x.kind = k
      BY <3>1, PktType, PktFields
    <3>3. pipeIn' = Append(pipeIn, x) /\ UNCHANGED <<requests, unprocessed, taken, sent>>
      BY <1>15 DEF ClientSendsRequest, ClientSends
    <3>4. clientNext'[s] = IF u = s THEN clientNext[s] + 1 ELSE clientNext[s]
      BY <1>0, <1>15 DEF ClientSendsRequest
    <3> QED BY <3>2, <3>3, <3>4
  <2> HIDE DEF x
  <2>2. Has(pipeIn, s, m) => Has(pipeIn', s, m)
    BY <1>0, <2>1, HasFacts
  <2>3. CASE m \in 1..(clientNext[s] - 1)
    <3>1. Present(s, m)
      BY <1>2, <2>3
    <3> QED BY <1>15, <1>hand, <2>1, <2>2, <3>1 DEF Present
  <2>4. CASE m \notin 1..(clientNext[s] - 1)
    <3>1. u = s /\ m = clientNext[s]
      BY <1>0, <1>3, <2>1, <2>4
    <3>2. IsRequest(x, s, m)
      BY <2>1, <3>1 DEF IsRequest
    <3>3. Has(pipeIn', s, m)
      BY <1>0, <2>1, <3>2, HasFacts
    <3> QED BY <3>3 DEF Present
  <2> QED BY <2>3, <2>4
<1> QED BY <1>1, <1>4, <1>5, <1>6, <1>7, <1>8, <1>9, <1>10, <1>11, <1>12, <1>13, <1>14, <1>15 DEF DeliveryStep

-----------------------------------------------------------------------------
LEMMA JoinedElements ==
  ASSUME NEW q \in Seq(Packet), NEW r \in Seq(Packet), NEW i \in 1..Len(q \o r)
  PROVE  \/ \E j \in 1..Len(q) : (q \o r)[i] = q[j]
         \/ \E j \in 1..Len(r) : (q \o r)[i] = r[j]
<1>1. CASE i \in 1..Len(q)
  BY <1>1
<1>2. CASE i \notin 1..Len(q)
  <2>1. i - Len(q) \in 1..Len(r) /\ (q \o r)[i] = r[i - Len(q)]
    BY SMTT(30), <1>2
  <2> QED BY <2>1
<1> QED BY <1>1, <1>2

LEMMA InOrder == TypeOK /\ KindInv /\ LineInv => RequestsInOrder
<1> SUFFICES ASSUME TypeOK, KindInv, LineInv, NEW s \in Ids
             PROVE  LET IsOwn(p) == p # SHUTDOWN /\ ~IsReply(p)
                        hand == IF pc[Reader] = "put" /\ Arrived.stream = s THEN <<Arrived>> ELSE <<>>
                        line == requests[s] \o unprocessed[s] \o hand
                        own == {i \in 1..Len(line) : IsOwn(line[i])}
                    IN  /\ \A i, j \in 1..Len(taken[s]) : i < j => taken[s][i] < taken[s][j]
                        /\ \A i \in 1..Len(taken[s]) : \A j \in own : taken[s][i] < line[j].id
                        /\ \A i, j \in own : i < j => line[i].id < line[j].id
  BY DEF RequestsInOrder
<1> DEFINE hand == IF pc[Reader] = "put" /\ Arrived.stream = s THEN <<Arrived>> ELSE <<>>
           line == requests[s] \o unprocessed[s] \o hand
<1>0. /\ requests[s] \in Seq(Packet) /\ unprocessed[s] \in Seq(Packet)
      /\ taken[s] \in Seq(Nat) /\ Arrived \in Packet /\ Arrived.id \in Nat /\ hand \in Seq(Packet)
  BY PacketFields DEF TypeOK, ThreadTypeOK, StreamTypeOK, AppTypeOK, Procs, Arrived
<1>1. PICK a, b, c, d \in Nat : Line(s, a, b, c, d)
  BY DEF LineInv, Lined
<1>2. /\ a <= b /\ b <= c /\ c <= d /\ TakenBelow(s, a)
      /\ Within(requests[s], s, Requests, a, b)
      /\ Within(unprocessed[s], s, Requests, b, c)
      /\ HandWithin(s, c, d)
  BY <1>1 DEF Line
<1>3. Within(hand, s, Requests, c, d)
  <2>1. CASE pc[Reader] = "put" /\ Arrived.stream = s
    <3>1. Of(Arrived, s, Requests) => c <= Arrived.id /\ Arrived.id < d
      BY <1>0, <1>2, <2>1 DEF HandWithin, InHand, IsRequest, Of, Requests, KindInv, FromClient
    <3>2. Len(hand) = 1 /\ hand[1] = Arrived
      BY <2>1
    <3> QED BY <3>1, <3>2 DEF Within
  <2>2. CASE ~(pc[Reader] = "put" /\ Arrived.stream = s)
    BY <2>2 DEF Within
  <2> QED BY <2>1, <2>2
<1>4. \A i \in 1..Len(hand) : hand[i].stream = s /\ hand[i].kind \in {"hello", "request", "reply"}
  <2>1. CASE pc[Reader] = "put" /\ Arrived.stream = s
    <3>1. Arrived.kind \in {"hello", "request", "reply"}
      BY <2>1 DEF KindInv, FromClient, ClientKinds, IsClosePayload
    <3>2. Len(hand) = 1 /\ hand[1] = Arrived
      BY <2>1
    <3> QED BY <2>1, <3>1, <3>2
  <2>2. CASE ~(pc[Reader] = "put" /\ Arrived.stream = s)
    BY <2>2
  <2> QED BY <2>1, <2>2
<1> HIDE DEF hand
<1>5. Within(requests[s] \o unprocessed[s], s, Requests, a, c) /\ requests[s] \o unprocessed[s] \in Seq(Packet)
  BY <1>0, <1>2, WithinJoined
<1>6. Within(line, s, Requests, a, d)
  <2>1. a <= c
    BY <1>2
  <2> QED BY <1>0, <1>2, <1>3, <1>5, <2>1, WithinJoined
<1>7. ASSUME NEW i \in 1..Len(line)
      PROVE  line[i] = SHUTDOWN \/ (line[i].stream = s /\ line[i].kind \in {"hello", "request", "reply"})
  <2> DEFINE front == requests[s] \o unprocessed[s]
  <2>1. \/ \E j \in 1..Len(front) : line[i] = front[j]
        \/ \E j \in 1..Len(hand) : line[i] = hand[j]
    BY <1>0, <1>5, JoinedElements
  <2>2. ASSUME NEW j \in 1..Len(front)
        PROVE  front[j] = SHUTDOWN
               \/ (front[j].stream = s /\ front[j].kind \in {"hello", "request", "reply"})
    <3>1. \/ \E k \in 1..Len(requests[s]) : front[j] = requests[s][k]
          \/ \E k \in 1..Len(unprocessed[s]) : front[j] = unprocessed[s][k]
      BY <1>0, JoinedElements
    <3> HIDE DEF front
    <3> QED BY <3>1 DEF KindInv
  <2> HIDE DEF front, line
  <2> QED BY <1>4, <2>1, <2>2
<1>seq. \A i \in 1..Len(line) : line[i] \in Packet /\ line[i].id \in Nat
  <2>1. line \in Seq(Packet)
    BY <1>0
  <2> HIDE DEF line
  <2> QED BY <2>1, PacketFields
<1> HIDE DEF line
<1>8. \A i \in 1..Len(line) : line[i] # SHUTDOWN /\ ~IsReply(line[i]) => Of(line[i], s, Requests) /\ line[i].id \in Nat
  <2> SUFFICES ASSUME NEW i \in 1..Len(line), line[i] # SHUTDOWN, ~IsReply(line[i])
               PROVE  Of(line[i], s, Requests)
    BY <1>seq
  <2>1. line[i].stream = s /\ line[i].kind \in {"hello", "request", "reply"}
    BY <1>7
  <2> QED BY <2>1 DEF IsReply, Of, Requests
<1>9. \A i, j \in 1..Len(taken[s]) : i < j => taken[s][i] < taken[s][j]
  BY <1>2 DEF TakenBelow
<1>10. ASSUME NEW i \in 1..Len(taken[s]), NEW j \in 1..Len(line), line[j] # SHUTDOWN, ~IsReply(line[j])
       PROVE  taken[s][i] < line[j].id
  <2>1. taken[s][i] \in Nat
    BY SMTT(30), <1>0
  <2>3. taken[s][i] < a
    BY <1>2 DEF TakenBelow
  <2>2. a <= line[j].id /\ line[j].id \in Nat
    BY <1>6, <1>8, <1>10 DEF Within
  <2> QED BY <2>1, <2>2, <2>3
<1>11. ASSUME NEW i \in 1..Len(line), NEW j \in 1..Len(line), line[i] # SHUTDOWN, ~IsReply(line[i]),
              line[j] # SHUTDOWN, ~IsReply(line[j]), i < j
       PROVE  line[i].id < line[j].id
  BY <1>6, <1>8, <1>11 DEF Within
<1> QED BY <1>9, <1>10, <1>11 DEF line, hand

LEMMA FatesApart ==
  ASSUME TypeOK, LineInv, NEW s \in Ids, NEW m \in Nat \ {0}, NEW x \in Places(s, m), NEW y \in Places(s, m)
  PROVE  x = y
<1>0. /\ requests[s] \in Seq(Packet) /\ unprocessed[s] \in Seq(Packet)
      /\ pipeIn \in Seq(Packet) /\ sent \in Seq(Packet) /\ taken[s] \in Seq(Nat) /\ clientNext[s] \in Nat
  BY DEF TypeOK, ThreadTypeOK, StreamTypeOK, ClientTypeOK, AppTypeOK
<1>1. PICK a, b, c, d \in Nat : Line(s, a, b, c, d)
  BY DEF LineInv, Lined
<1>2. /\ a <= b /\ b <= c /\ c <= d /\ TakenBelow(s, a)
      /\ Within(requests[s], s, Requests, a, b)
      /\ Within(unprocessed[s], s, Requests, b, c)
      /\ HandWithin(s, c, d)
      /\ Within(pipeIn, s, Requests, d, clientNext[s])
      /\ Within(sent, s, Refusals, 1, c)
      /\ Held(s) \cap Gone(s) = {}
  BY <1>1 DEF Line, LineInv
\* The six kinds of place, with the ids each may have ...
<1> DEFINE Pipe(i) == i \in 1..Len(pipeIn) /\ IsRequest(pipeIn[i], s, m)
           Deque(i) == i \in 1..Len(requests[s]) /\ IsRequest(requests[s][i], s, m)
           Queue(i) == i \in 1..Len(unprocessed[s]) /\ IsRequest(unprocessed[s][i], s, m)
           Caller(i) == i \in 1..Len(taken[s]) /\ taken[s][i] = m
           Refusal(i) == i \in 1..Len(sent) /\ IsRefusal(sent[i], s, m)
<1>own. \A p : /\ IsRequest(p, s, m) => Of(p, s, Requests) /\ p.id = m
               /\ IsRefusal(p, s, m) => Of(p, s, Refusals) /\ p.id = m
  BY DEF IsRequest, IsRefusal, Of, Requests, Refusals
<1>3. /\ \A i : Pipe(i) => d <= m
      /\ \A i : Deque(i) => a <= m /\ m < b
      /\ \A i : Queue(i) => b <= m /\ m < c
      /\ \A i : Caller(i) => m < a
      /\ \A i : Refusal(i) => m < c
      /\ InHand(s, m) => c <= m /\ m < d
  BY <1>2, <1>own DEF Within, TakenBelow, HandWithin
\* ... no two of a kind ...
<1>4. /\ \A i, j : Pipe(i) /\ Pipe(j) => ~(i < j)
      /\ \A i, j : Deque(i) /\ Deque(j) => ~(i < j)
      /\ \A i, j : Queue(i) /\ Queue(j) => ~(i < j)
      /\ \A i, j : Caller(i) /\ Caller(j) => ~(i < j)
      /\ \A i, j : Refusal(i) /\ Refusal(j) => ~(i < j)
  <2>1. ~(m < m)
    OBVIOUS
  <2>2. ASSUME NEW q, NEW K, NEW lo, NEW hi, Within(q, s, K, lo, hi),
               NEW i \in 1..Len(q), NEW j \in 1..Len(q), Of(q[i], s, K), Of(q[j], s, K),
               q[i].id = m, q[j].id = m
        PROVE  ~(i < j)
    BY <2>1, <2>2 DEF Within
  <2>3. \A i, j : Caller(i) /\ Caller(j) => ~(i < j)
    BY <1>2, <2>1 DEF TakenBelow
  <2>4. \A i, j : Pipe(i) /\ Pipe(j) => ~(i < j)
    BY <1>2, <1>own, <2>2
  <2>5. \A i, j : Deque(i) /\ Deque(j) => ~(i < j)
    BY <1>2, <1>own, <2>2
  <2>6. \A i, j : Queue(i) /\ Queue(j) => ~(i < j)
    BY <1>2, <1>own, <2>2
  <2>7. \A i, j : Refusal(i) /\ Refusal(j) => ~(i < j)
    BY <1>2, <1>own, <2>2
  <2> QED BY <2>3, <2>4, <2>5, <2>6, <2>7
\* ... and a refusal with none that is delivered or queued.
<1>5. \A i : Refusal(i) => \A j : ~Deque(j) /\ ~Queue(j) /\ ~Caller(j)
  <2>1. \A i : Refusal(i) => m \in Gone(s)
    BY <1>own DEF Gone, IdsOf
  <2>2. \A j : Deque(j) => m \in Held(s)
    BY <1>own DEF Held, IdsOf
  <2>3. \A j : Queue(j) => m \in Held(s)
    BY <1>own DEF Held, IdsOf
  <2>4. \A j : Caller(j) => m \in Held(s)
    BY DEF Held
  <2> QED BY <1>2, <2>1, <2>2, <2>3, <2>4
<1>6. /\ \A i, j : Pipe(i) => ~Deque(j) /\ ~Queue(j) /\ ~Caller(j) /\ ~Refusal(j) /\ ~InHand(s, m)
      /\ \A i, j : Deque(i) => ~Queue(j) /\ ~Caller(j) /\ ~InHand(s, m)
      /\ \A i, j : Queue(i) => ~Caller(j) /\ ~InHand(s, m)
      /\ \A i : Caller(i) => ~InHand(s, m)
      /\ \A i : Refusal(i) => ~InHand(s, m)
  <2>1. /\ ~(d <= m /\ m < b) /\ ~(d <= m /\ m < c) /\ ~(d <= m /\ m < a) /\ ~(d <= m /\ m < d)
        /\ ~(b <= m /\ m < b) /\ ~(a <= m /\ m < a) /\ ~(c <= m /\ m < b) /\ ~(b <= m /\ m < a)
        /\ ~(c <= m /\ m < c) /\ ~(c <= m /\ m < a)
    BY <1>2
  <2> HIDE DEF Pipe, Deque, Queue, Caller, Refusal
  <2> QED BY <1>3, <2>1
<1>7. \A z \in Places(s, m) :
        \/ z[1] = "pipe" /\ Pipe(z[2])
        \/ z[1] = "deque" /\ Deque(z[2])
        \/ z[1] = "queue" /\ Queue(z[2])
        \/ z[1] = "caller" /\ Caller(z[2])
        \/ z[1] = "refused" /\ Refusal(z[2])
        \/ z[1] = "hand" /\ z[2] = 1 /\ InHand(s, m)
  BY DEF Places
<1>8. x = <<x[1], x[2]>> /\ y = <<y[1], y[2]>> /\ x[2] \in Nat /\ y[2] \in Nat
  BY SMTT(30), <1>0 DEF Places
<1> HIDE DEF Pipe, Deque, Queue, Caller, Refusal
<1>9. x[1] = y[1]
  BY <1>5, <1>6, <1>7
<1>10. ~(x[2] < y[2]) /\ ~(y[2] < x[2])
  BY <1>4, <1>7, <1>9
<1>11. x[2] = y[2]
  BY <1>8, <1>10
<1> QED BY <1>8, <1>9, <1>11

LEMMA NoneLost ==
  ASSUME PresentInv, running, peerOpen, NEW s \in Ids, NEW m \in 1..(clientNext[s] - 1)
  PROVE  Places(s, m) # {}
<1>1. Present(s, m)
  BY DEF PresentInv
<1>2. Has(pipeIn, s, m) => \E i : <<"pipe", i>> \in Places(s, m)
  BY DEF Has, Places
<1>3. Has(requests[s], s, m) => \E i : <<"deque", i>> \in Places(s, m)
  BY DEF Has, Places
<1>4. Has(unprocessed[s], s, m) => \E i : <<"queue", i>> \in Places(s, m)
  BY DEF Has, Places
<1>5. InHand(s, m) => <<"hand", 1>> \in Places(s, m)
  BY DEF Places
<1>6. (\E i \in 1..Len(taken[s]) : taken[s][i] = m) => \E i : <<"caller", i>> \in Places(s, m)
  BY DEF Places
<1>7. (\E i \in 1..Len(sent) : IsRefusal(sent[i], s, m)) => \E i : <<"refused", i>> \in Places(s, m)
  BY DEF Places
<1> QED BY <1>1, <1>2, <1>3, <1>4, <1>5, <1>6, <1>7 DEF Present

\* The client's requests of a stream are read in the order they were written
\* (Stream._receive_packet and read_request, behind the reader thread's put), for any
\* threads, streams and number of packets.
THEOREM RequestsStayInOrder == Spec => []RequestsInOrder
BY InitClose, CloseNext, InitHandshake, HandshakeNext, InitPlace, PlaceNext, InitKind, KindNext,
   InitLine, LineNext, InOrder, PTL DEF Spec, CloseInv

\* Each request of the client is delivered or refused, never both, nor twice, and none
\* is lost between the reader thread's look-up and its put (connection.py:192-205).
THEOREM EachRequestOneFate == Spec => []OneFate
<1>1. TypeOK /\ LineInv /\ PresentInv => OneFate
  BY FatesApart, NoneLost DEF OneFate
<1> QED BY <1>1, InitClose, CloseNext, InitHandshake, HandshakeNext, InitPlace, PlaceNext, InitKind, KindNext,
      InitLine, LineNext, InitPresent, PresentNext, PTL DEF Spec, CloseInv
=============================================================================
