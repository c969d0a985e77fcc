------------------------------- MODULE Framing -------------------------------
(***************************************************************************)
(* Packets on one direction of the pipe: write_packet, read_packet and       *)
(* read_exact (packet.py) over the file descriptors StdioTransport wraps    *)
(* (__main__.py), with threads that take turns by the writer lock            *)
(* (connection.py).                                                         *)
(*                                                                         *)
(* A header field is one unit of the wire, and so is a payload byte; words   *)
(* are so narrow that ids reach REPLY_BIT and the end of the field.          *)
(* The checksum of the model tells any two packets apart, as CRC32 is        *)
(* trusted to do.                                                           *)
(***************************************************************************)
EXTENDS Integers, Sequences, FiniteSets, SequencesExt

CONSTANTS
  REPLY_BIT,   \* the highest bit of a header field, 2^31 in the code
  Writers,     \* threads that write
  Nobody,      \* the writer lock is free
  Payloads,    \* sequences of units
  MaxPackets,  \* bound: packets written
  Capacity,    \* units the pipe holds
  Faults       \* what may go wrong, one of them in a behaviour

\* cut: write() takes less than it is given, as an unbuffered file may when its
\* descriptor does not block or a signal comes; empty: a read finds nothing and does
\* not wait; corrupt: a unit of one packet is not what it should be; crash: the writing
\* process ends at any point.
AllFaults == {"cut", "empty", "corrupt", "crash"}

WordLimit == 2 * REPLY_BIT

ASSUME FramingAssumption ==
  /\ REPLY_BIT \in Nat \ {0, 1} /\ MaxPackets \in Nat /\ Capacity \in Nat \ {0}
  /\ Payloads \subseteq Seq(0..(WordLimit - 1))
  /\ \A p \in Payloads : Len(p) < WordLimit
  /\ Nobody \notin Writers /\ Faults \subseteq AllFaults

PACKET_MAGIC == WordLimit - 1
PACKET_TERMINATOR == 1

\* The stream's id is left out of what differs: every field but the message id is
\* copied.  A request takes the stream's next id, a reply that of the client's request.
Packet(id, reply, payload) == [id |-> id, reply |-> reply, payload |-> payload]
Stream == 2

\* The id field on the wire, and what the reader makes of it.
IdField(p) == IF p.reply /\ p.id < REPLY_BIT THEN p.id + REPLY_BIT ELSE p.id
Fits(p) == IdField(p) < WordLimit
AsRead(p) == Packet(IF IdField(p) >= REPLY_BIT THEN IdField(p) - REPLY_BIT ELSE IdField(p),
                    IdField(p) >= REPLY_BIT, p.payload)

\* No two sequences of words have the same checksum, nor has one that of a word.
Crc(words) == FoldLeft(LAMBDA sum, word : sum * WordLimit + word, 1, words)

Header(sum, p) == <<PACKET_MAGIC, sum, Stream, IdField(p), Len(p.payload)>>

Encoded_PayloadSum(p) ==  \* mutant: the checksum is of the payload only
  Header(Crc(p.payload), p) \o p.payload \o <<PACKET_TERMINATOR>>

\* write_packet up to sendall
Encoded(p) == Header(Crc(Header(0, p) \o p.payload), p) \o p.payload \o <<PACKET_TERMINATOR>>

VARIABLES
  fault,       \* the one of the behaviour, or none
  \* the sending process
  lock, out,   \* the writer lock; by thread, what its write has still to put out
  nextId,      \* next_message_id of the stream
  sent,        \* the packets handed over to the pipe, ...
  spoilt,      \* ... the indices of those that are not all there or altered
  open,        \* its end of the pipe
  wire,        \* what is in the pipe
  \* the reading process
  reader,      \* reading, closed (ConnectionClosedError), error (ProtocolError)
  buf,         \* the packet it is reading, as far as it has come
  received

vars == <<fault, lock, out, nextId, sent, spoilt, open, wire, reader, buf, received>>
senderVars == <<fault, lock, out, nextId, sent, spoilt, open>>
readerVars == <<reader, buf, received>>

Init ==
  /\ fault \in Faults \cup {"none"}
  /\ lock = Nobody /\ out = [w \in Writers |-> <<>>] /\ nextId = 1
  /\ sent = <<>> /\ spoilt = {} /\ open = TRUE /\ wire = <<>>
  /\ reader = "reading" /\ buf = <<>> /\ received = <<>>

-----------------------------------------------------------------------------
(* The sending process.                                                    *)

\* A thread takes the lock and has its packet encoded.  One that does not fit its
\* fields raises struct.error there: nothing is written, and the id stays.
Begin(w) ==
  /\ open /\ lock = Nobody /\ Len(sent) < MaxPackets
  /\ lock' = w
  /\ \E payload \in Payloads, reply \in BOOLEAN :
       LET p == Packet(IF reply THEN 1 ELSE nextId, reply, payload) IN
       /\ Fits(p)
       /\ nextId' = IF reply THEN nextId ELSE nextId + 1
       /\ sent' = Append(sent, p)
       /\ \/ out' = [out EXCEPT ![w] = Encoded(p)] /\ UNCHANGED spoilt
          \/ /\ fault = "corrupt" /\ spoilt = {}
             /\ \E i \in 1..Len(Encoded(p)), u \in 0..(WordLimit - 1) :
                  /\ u # Encoded(p)[i]
                  /\ out' = [out EXCEPT ![w] = [Encoded(p) EXCEPT ![i] = u]]
             /\ spoilt' = spoilt \cup {Len(sent) + 1}
  /\ UNCHANGED <<fault, open, wire, readerVars>>

Room == Capacity - Len(wire)
Smaller(m, n) == IF m < n THEN m ELSE n

\* The pipe takes what it has room for, and the rest when there is room again.
Write(w) ==
  /\ open /\ out[w] # <<>>
  /\ \E n \in 1..Smaller(Room, Len(out[w])) :
       /\ wire' = wire \o SubSeq(out[w], 1, n)
       /\ out' = [out EXCEPT ![w] = SubSeq(@, n + 1, Len(@))]
  /\ UNCHANGED <<fault, lock, nextId, sent, spoilt, open, readerVars>>

\* StdioTransport.sendall does not look at what write() returns.
WriteShort(w) ==
  /\ fault = "cut" /\ open /\ out[w] # <<>>
  /\ \E n \in 0..Smaller(Room, Len(out[w]) - 1) : wire' = wire \o SubSeq(out[w], 1, n)
  /\ out' = [out EXCEPT ![w] = <<>>] /\ spoilt' = spoilt \cup {Len(sent)}
  /\ UNCHANGED <<fault, lock, nextId, sent, open, readerVars>>

Release(w) ==
  /\ lock = w /\ out[w] = <<>> /\ lock' = Nobody
  /\ UNCHANGED <<fault, out, nextId, sent, spoilt, open, wire, readerVars>>

\* Nobody is left to read: the write raises.
WriteFails(w) ==
  /\ open /\ reader # "reading" /\ out[w] # <<>>
  /\ out' = [out EXCEPT ![w] = <<>>] /\ spoilt' = spoilt \cup {Len(sent)}
  /\ UNCHANGED <<fault, lock, nextId, sent, open, wire, readerVars>>

\* Connection.close, which takes the writer lock, ...
Close ==
  /\ open /\ lock = Nobody /\ open' = FALSE
  /\ UNCHANGED <<fault, lock, out, nextId, sent, spoilt, wire, readerVars>>

\* ... or the end of the process, which does not.
Crash ==
  /\ fault = "crash" /\ open /\ open' = FALSE
  /\ spoilt' = IF \E w \in Writers : out[w] # <<>> THEN spoilt \cup {Len(sent)} ELSE spoilt
  /\ UNCHANGED <<fault, lock, out, nextId, sent, wire, readerVars>>

Sender ==
  \/ \E w \in Writers : Begin(w) \/ Write(w) \/ WriteShort(w) \/ Release(w) \/ WriteFails(w)
  \/ Close \/ Crash

-----------------------------------------------------------------------------
(* The reading process.                                                    *)

\* Where the read_exact under way ends: the header, the payload, the terminator.
\* One of no bytes, for an empty payload, reads nothing.
Stages_Long(b) ==  \* mutant: reads one byte too many of a payload
  <<5>> \o IF Len(b) < 5 THEN <<>> ELSE <<5 + b[5] + 1, 7 + b[5]>>

Stages(b) == <<5>> \o IF Len(b) < 5 THEN <<>> ELSE <<5 + b[5], 6 + b[5]>>

Target(b) == Stages(b)[CHOOSE i \in DOMAIN Stages(b) :
                /\ Len(b) < Stages(b)[i]
                /\ \A j \in 1..(i - 1) : Stages(b)[j] <= Len(b)]
AtStart(b) == Len(b) \in {0} \cup {Stages(b)[i] : i \in 1..(Len(Stages(b)) - 1)}

\* The checks of read_packet on a packet that is all there.
Accepts_AnySum(b) ==  \* mutant: does not look at the checksum
  b[Len(b)] = PACKET_TERMINATOR

Accepts(b) ==
  /\ b[Len(b)] = PACKET_TERMINATOR
  /\ Crc([SubSeq(b, 1, Len(b) - 1) EXCEPT ![2] = 0]) = b[2]

Decoded(b) ==
  Packet(IF b[4] >= REPLY_BIT THEN b[4] - REPLY_BIT ELSE b[4], b[4] >= REPLY_BIT,
         SubSeq(b, 6, Len(b) - 1))

\* recv, and what read_packet does when it has what it waited for.
Read_Keeps ==  \* mutant: the bytes of a packet stay in the buffer
  /\ reader = "reading" /\ wire # <<>>
  /\ \E n \in 1..Smaller(Len(wire), Target(buf) - Len(buf)) :
       LET b == buf \o SubSeq(wire, 1, n) IN
       /\ wire' = SubSeq(wire, n + 1, Len(wire)) /\ buf' = b
       /\ IF Len(b) >= 6 /\ Len(b) = 6 + b[5]
          THEN received' = Append(received, Decoded(b)) /\ UNCHANGED reader
          ELSE UNCHANGED <<reader, received>>
  /\ UNCHANGED senderVars

Read ==
  /\ reader = "reading" /\ wire # <<>>
  /\ \E n \in 1..Smaller(Len(wire), Target(buf) - Len(buf)) :
       LET b == buf \o SubSeq(wire, 1, n)
           complete == Len(b) > 5 /\ Len(b) = Stages(b)[3]
           bad == \/ Len(b) = 5 /\ b[1] # PACKET_MAGIC
                  \/ complete /\ ~Accepts(b)
       IN /\ wire' = SubSeq(wire, n + 1, Len(wire))
          /\ reader' = IF bad THEN "error" ELSE "reading"
          /\ buf' = IF complete \/ bad THEN <<>> ELSE b
          /\ received' = IF complete /\ ~bad THEN Append(received, Decoded(b)) ELSE received
  /\ UNCHANGED senderVars

\* No byte: the end of the file, or a descriptor that does not block, which recv
\* turns into the same.  In the middle of a read it is a ProtocolError.
ReadNothing_Retry ==  \* mutant: an end of file in the middle of a read is tried again
  /\ reader = "reading" /\ wire = <<>> /\ (~open \/ fault = "empty")
  /\ AtStart(buf) /\ reader' = "closed"
  /\ buf' = <<>> /\ UNCHANGED <<senderVars, wire, received>>

ReadNothing ==
  /\ reader = "reading" /\ wire = <<>> /\ (~open \/ fault = "empty")
  /\ reader' = IF AtStart(buf) THEN "closed" ELSE "error"
  /\ buf' = <<>> /\ UNCHANGED <<senderVars, wire, received>>

Reader == Read \/ ReadNothing

Next == Sender \/ Reader

\* Threads run; a write that has room goes on.  Nobody has to begin or to close.
Spec ==
  /\ Init /\ [][Next]_vars
  /\ WF_vars(Reader)
  /\ \A w \in Writers : WF_vars(Write(w) \/ WriteFails(w)) /\ WF_vars(Release(w))

-----------------------------------------------------------------------------
(* Properties.                                                             *)

AllPackets == [id : 0..WordLimit, reply : BOOLEAN, payload : Payloads]

TypeOK ==
  /\ lock \in Writers \cup {Nobody} /\ nextId \in 1..WordLimit
  /\ sent \in Seq(AllPackets) /\ spoilt \subseteq DOMAIN sent
  /\ open \in BOOLEAN /\ Len(wire) <= Capacity
  /\ reader \in {"reading", "closed", "error"}
  /\ received \in Seq(AllPackets)
  /\ (Len(buf) > 5 => Len(buf) <= 5 + buf[5])

\* Whatever is cut short, altered or torn, and however the pipe divides it, what is
\* read is the packets that were written, whole, in order: a damaged one never comes
\* out as another packet (packet.py:121-135), and with nothing wrong none is missing.
Chan == INSTANCE Channel WITH Packets <- AllPackets, faulty <- fault # "none"
ImplementsChannel == Chan!ChanSpec

\* The reader stops only for a reason: without one it has read everything that was
\* sent, and reports the end of the connection and no protocol error (packet.py:93-97).
StopsForAReason ==
  reader # "reading" /\ spoilt = {} /\ fault # "empty" =>
     reader = "closed" /\ Len(received) = Len(sent) /\ ~open

\* While nothing goes wrong everything that is sent is read.
EverythingArrives == fault = "none" => []<>(Len(received) = Len(sent))

\* When the other side is gone, in the middle of a packet too, the reader ends.
ReaderEnds == ~open ~> reader # "reading"
=============================================================================
