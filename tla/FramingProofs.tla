---------------------------- MODULE FramingProofs ----------------------------
(***************************************************************************)
(* Proofs about the packet codec of module Framing: what write_packet puts  *)
(* out is what read_packet accepts, for every packet that fits its fields.  *)
(***************************************************************************)
EXTENDS Framing, FiniteSetTheorems, WellFoundedInduction, TLAPS

Sendable == [id : Nat, reply : BOOLEAN, payload : Payloads]

\* A sequence is the function of its units.
LEMMA Spelt ==
  ASSUME NEW S, NEW s \in Seq(S)
  PROVE  s = [i \in 1..Len(s) |-> s[i]]
OBVIOUS

\* The units of a packet that is sent, one by one.
LEMMA EncodedUnits ==
  ASSUME NEW p \in Sendable
  PROVE  LET b == Encoded(p)
             n == Len(p.payload)
         IN  /\ n \in Nat /\ Len(b) = n + 6 /\ (\E T : b \in Seq(T))
             /\ b[1] = PACKET_MAGIC /\ b[2] = Crc(Header(0, p) \o p.payload)
             /\ b[3] = Stream /\ b[4] = IdField(p) /\ b[5] = n
             /\ \A i \in 1..n : b[5 + i] = p.payload[i]
             /\ b[n + 6] = PACKET_TERMINATOR
<1> DEFINE n == Len(p.payload)
           c == Crc(Header(0, p) \o p.payload)
           S == (0..(WordLimit - 1))
                  \cup {PACKET_MAGIC, c, Stream, IdField(p), n, PACKET_TERMINATOR}
           g == Header(c, p)
           h == g \o p.payload
<1>1. p.payload \in Seq(S) /\ n \in Nat
  <2> DEFINE W == 0..(WordLimit - 1)
  <2>1. p.payload \in Seq(W)
    BY FramingAssumption DEF Sendable
  <2>2. W \subseteq S
    OBVIOUS
  <2> HIDE DEF W, S
  <2> QED BY <2>1, <2>2
<1>2. /\ g \in Seq(S) /\ Len(g) = 5
      /\ g[1] = PACKET_MAGIC /\ g[2] = c /\ g[3] = Stream /\ g[4] = IdField(p) /\ g[5] = n
  BY DEF Header
<1>3. Encoded(p) = h \o <<PACKET_TERMINATOR>> /\ <<PACKET_TERMINATOR>> \in Seq(S)
  BY DEF Encoded
<1> HIDE DEF c, S, g, n
<1>4. /\ h \in Seq(S) /\ Len(h) = n + 5
      /\ \A i \in 1..5 : h[i] = g[i]
      /\ \A i \in 1..n : h[5 + i] = p.payload[i]
  <2>1. Len(g) + Len(p.payload) = n + 5
    BY <1>1, <1>2 DEF n
  <2>2. /\ h \in Seq(S) /\ Len(h) = Len(g) + Len(p.payload)
        /\ \A i \in 1..Len(g) : h[i] = g[i]
        /\ \A i \in 1..Len(p.payload) : h[Len(g) + i] = p.payload[i]
    <3> DEFINE load == p.payload
    <3>1. g \in Seq(S) /\ load \in Seq(S) /\ h = g \o load
      BY <1>1, <1>2
    <3> HIDE DEF load, h
    <3>2. /\ h \in Seq(S) /\ Len(h) = Len(g) + Len(load)
          /\ \A i \in 1..Len(g) : h[i] = g[i]
          /\ \A i \in 1..Len(load) : h[Len(g) + i] = load[i]
      BY <3>1
    <3> QED BY <3>2 DEF load
  <2>3. Len(g) = 5 /\ Len(p.payload) = n
    BY <1>2 DEF n
  <2> HIDE DEF h
  <2>4. h \in Seq(S) /\ Len(h) = n + 5
    BY <1>1, <2>2, <2>3
  <2>5. \A i \in 1..5 : h[i] = g[i]
    BY <2>2, <2>3
  <2>6. \A i \in 1..n : h[5 + i] = p.payload[i]
    BY <2>2, <2>3
  <2> QED BY <2>4, <2>5, <2>6
<1> HIDE DEF h
<1>5. /\ Encoded(p) \in Seq(S) /\ Len(Encoded(p)) = n + 6
      /\ \A i \in 1..(n + 5) : Encoded(p)[i] = h[i]
      /\ Encoded(p)[n + 6] = PACKET_TERMINATOR
  BY <1>1, <1>3, <1>4
<1>6. /\ \A i \in 1..5 : Encoded(p)[i] = g[i]
      /\ \A i \in 1..n : Encoded(p)[5 + i] = p.payload[i]
  BY <1>1, <1>4, <1>5
<1>7. \E T : Encoded(p) \in Seq(T)
  BY <1>5
<1> QED BY SMTT(30), <1>1, <1>2, <1>5, <1>6, <1>7 DEF c, n

\* What read_packet computes the checksum of: the packet with a checksum of zero.
LEMMA Summed ==
  ASSUME NEW p \in Sendable
  PROVE  LET b == Encoded(p)
         IN  [SubSeq(b, 1, Len(b) - 1) EXCEPT ![2] = 0] = Header(0, p) \o p.payload
<1> DEFINE n == Len(p.payload)
           b == Encoded(p)
           e == [SubSeq(b, 1, Len(b) - 1) EXCEPT ![2] = 0]
           load == p.payload
           W == 0..(WordLimit - 1)
           S == W \cup {PACKET_MAGIC, 0, Stream, IdField(p), n}
           f == Header(0, p) \o load
<1>1. load \in Seq(S) /\ n \in Nat
  <2>1. load \in Seq(W)
    BY FramingAssumption DEF Sendable
  <2>2. W \subseteq S
    OBVIOUS
  <2> HIDE DEF W, S, load
  <2>3. load \in Seq(S)
    BY <2>1, <2>2
  <2>4. Len(load) \in Nat
    BY <2>1
  <2> QED BY <2>3, <2>4 DEF load
<1>2. Header(0, p) \in Seq(S) /\ Header(0, p) = <<PACKET_MAGIC, 0, Stream, IdField(p), n>>
  BY DEF Header
<1>3. Len(load) = n
  OBVIOUS
<1> HIDE DEF S, n, load
<1>4. /\ f \in Seq(S) /\ Len(f) = n + 5
      /\ f[1] = PACKET_MAGIC /\ f[2] = 0 /\ f[3] = Stream /\ f[4] = IdField(p) /\ f[5] = n
      /\ \A i \in 1..n : f[5 + i] = load[i]
  <2> DEFINE g == Header(0, p)
  <2>1. /\ Len(g) = 5 /\ g \in Seq(S)
        /\ g[1] = PACKET_MAGIC /\ g[2] = 0 /\ g[3] = Stream /\ g[4] = IdField(p) /\ g[5] = n
    BY <1>2
  <2>2. f = g \o load
    OBVIOUS
  <2> HIDE DEF g, f
  <2>3. /\ f \in Seq(S) /\ Len(f) = 5 + n
        /\ \A i \in 1..5 : f[i] = g[i]
        /\ \A i \in 1..n : f[5 + i] = load[i]
    <3>1. /\ f \in Seq(S) /\ Len(f) = Len(g) + Len(load)
          /\ \A i \in 1..Len(g) : f[i] = g[i]
          /\ \A i \in 1..Len(load) : f[Len(g) + i] = load[i]
      <4>1. g \in Seq(S) /\ load \in Seq(S)
        BY <1>1, <2>1
      <4>2. /\ g \o load \in Seq(S) /\ Len(g \o load) = Len(g) + Len(load)
            /\ \A i \in 1..Len(g) : (g \o load)[i] = g[i]
            /\ \A i \in 1..Len(load) : (g \o load)[Len(g) + i] = load[i]
        BY <4>1
      <4> QED BY <2>2, <4>2, Zenon
    <3> QED BY <1>1, <1>3, <2>1, <3>1
  <2>4. Len(f) = n + 5
    BY <1>1, <2>3
  <2> QED BY <2>1, <2>3, <2>4
<1>5. /\ Len(b) = n + 6 /\ (\E T : b \in Seq(T))
      /\ b[1] = PACKET_MAGIC /\ b[3] = Stream /\ b[4] = IdField(p) /\ b[5] = n
      /\ \A i \in 1..n : b[5 + i] = load[i]
  <2>1. Len(b) = n + 6 /\ (\E T : b \in Seq(T))
    BY EncodedUnits DEF n, load
  <2>2. b[1] = PACKET_MAGIC /\ b[3] = Stream /\ b[4] = IdField(p) /\ b[5] = n
    BY EncodedUnits DEF n, load
  <2>3. \A i \in 1..n : b[5 + i] = load[i]
    BY EncodedUnits DEF n, load
  <2> QED BY <2>1, <2>2, <2>3
<1> HIDE DEF b, f
<1>6. /\ e = [i \in 1..(n + 5) |-> e[i]]
      /\ e[2] = 0 /\ \A i \in 1..(n + 5) : i # 2 => e[i] = b[i]
  <2> DEFINE q == SubSeq(b, 1, n + 5)
  <2>1. PICK T : b \in Seq(T)
    BY <1>5
  <2>2. q \in Seq(T) /\ Len(q) = n + 5 /\ \A i \in 1..(n + 5) : q[i] = b[i]
    BY <1>1, <1>5, <2>1
  <2>3. e = [q EXCEPT ![2] = 0]
    <3>1. Len(b) - 1 = n + 5
      BY <1>1, <1>5
    <3> QED BY <3>1
  <2> HIDE DEF q, e
  <2>4. DOMAIN q = 1..(n + 5) /\ 2 \in 1..(n + 5)
    BY <1>1, <2>2
  <2> QED BY <2>2, <2>3, <2>4
<1>7. f = [i \in 1..(n + 5) |-> f[i]]
  BY <1>4, Spelt
<1> HIDE DEF e
<1>8. \A i \in 1..(n + 5) : e[i] = f[i]
  <2> SUFFICES ASSUME NEW i \in 1..(n + 5) PROVE e[i] = f[i]
    OBVIOUS
  <2>1. CASE i \in 1..5
    BY SMTT(30), <1>1, <1>4, <1>5, <1>6, <2>1
  <2>2. CASE i \notin 1..5
    <3>1. PICK k \in 1..n : i = 5 + k
      <4>1. i - 5 \in 1..n /\ i = 5 + (i - 5)
        BY <1>1, <2>2
      <4> QED BY <4>1
    <3>2. e[i] = b[i]
      BY <1>6, <2>2
    <3> QED BY <1>4, <1>5, <3>1, <3>2
  <2> QED BY <2>1, <2>2
<1>9. e = f
  BY <1>6, <1>7, <1>8
<1> QED BY <1>9 DEF e, f, b, load

\* The reader's checks pass on what was put out, its three reads end where the packet
\* does, and what it decodes is the packet, but for the bit an id may have in the way.
LEMMA ReadBack ==
  ASSUME NEW p \in Sendable
  PROVE  LET b == Encoded(p) IN
         /\ b[1] = PACKET_MAGIC /\ Len(b) = Stages(b)[3] /\ Accepts(b)
         /\ Decoded(b) = AsRead(p)
<1> DEFINE n == Len(p.payload)
           b == Encoded(p)
           W == 0..(WordLimit - 1)
<1>1. /\ n \in Nat /\ Len(b) = n + 6 /\ (\E T : b \in Seq(T))
      /\ b[1] = PACKET_MAGIC /\ b[2] = Crc(Header(0, p) \o p.payload)
      /\ b[4] = IdField(p) /\ b[5] = n
      /\ b[n + 6] = PACKET_TERMINATOR
  BY EncodedUnits
<1>2. \A i \in 1..n : b[5 + i] = p.payload[i]
  BY EncodedUnits
<1>3. [SubSeq(b, 1, Len(b) - 1) EXCEPT ![2] = 0] = Header(0, p) \o p.payload
  BY Summed
<1>4. p.payload \in Seq(W)
  BY FramingAssumption DEF Sendable
<1> HIDE DEF b, W
<1>5. Len(b) = Stages(b)[3]
  <2>1. ~(Len(b) < 5)
    BY <1>1
  <2>2. Stages(b) = <<5>> \o <<5 + b[5], 6 + b[5]>>
    BY <2>1 DEF Stages
  <2>3. Stages(b)[3] = 6 + b[5]
    BY <1>1, <2>2
  <2> QED BY <1>1, <2>3
<1>6. Accepts(b)
  <2>1. b[Len(b)] = PACKET_TERMINATOR
    BY <1>1
  <2>2. Crc([SubSeq(b, 1, Len(b) - 1) EXCEPT ![2] = 0]) = b[2]
    BY <1>1, <1>3
  <2> QED BY <2>1, <2>2 DEF Accepts
<1>7. SubSeq(b, 6, Len(b) - 1) = p.payload
  <2> DEFINE q == SubSeq(b, 6, n + 5)
             load == p.payload
  <2>1. PICK T : b \in Seq(T)
    BY <1>1
  <2>2. q \in Seq(T) /\ Len(q) = n /\ \A i \in 1..n : q[i] = b[5 + i]
    BY <1>1, <2>1
  <2>3. Len(load) = n /\ load \in Seq(W)
    BY <1>4
  <2>4. \A i \in 1..n : q[i] = load[i]
    BY <1>2, <2>2
  <2>5. Len(b) - 1 = n + 5
    BY <1>1
  <2> HIDE DEF q, load, n
  <2>6. q = load
    <3>1. q = [i \in 1..n |-> q[i]] /\ load = [i \in 1..n |-> load[i]]
      BY <1>1, <2>2, <2>3
    <3> QED BY <2>4, <3>1
  <2> QED BY <2>5, <2>6 DEF q, load
<1>8. Decoded(b) = AsRead(p)
  BY <1>1, <1>7 DEF Decoded, AsRead
<1> QED BY <1>1, <1>5, <1>6, <1>8 DEF b

\* What write_packet puts out for a packet whose id is below REPLY_BIT fits its fields,
\* passes every check of read_packet, and is read as that very packet
\* (packet.py:106-163), whatever the width of a field and the payload.
THEOREM RoundTrip ==
  ASSUME NEW p \in Sendable, p.id < REPLY_BIT
  PROVE  /\ Fits(p)
         /\ Encoded(p)[1] = PACKET_MAGIC /\ Len(Encoded(p)) = Stages(Encoded(p))[3]
         /\ Accepts(Encoded(p)) /\ Decoded(Encoded(p)) = p
<1>1. REPLY_BIT \in Nat /\ WordLimit = 2 * REPLY_BIT
  BY FramingAssumption DEF WordLimit
<1>2. p.id \in Nat /\ p.reply \in BOOLEAN
  BY DEF Sendable
<1>3. IdField(p) = IF p.reply THEN p.id + REPLY_BIT ELSE p.id
  BY DEF IdField
<1>4. Fits(p)
  BY <1>1, <1>2, <1>3 DEF Fits
<1>5. AsRead(p) = p
  <2>1. p = [id |-> p.id, reply |-> p.reply, payload |-> p.payload]
    BY DEF Sendable
  <2>2. CASE p.reply
    <3>1. IdField(p) >= REPLY_BIT /\ IdField(p) - REPLY_BIT = p.id
      BY <1>1, <1>2, <1>3, <2>2
    <3> QED BY <1>2, <2>1, <2>2, <3>1 DEF AsRead, Packet
  <2>3. CASE ~p.reply
    <3>1. IdField(p) = p.id /\ ~(IdField(p) >= REPLY_BIT)
      BY <1>1, <1>2, <1>3, <2>3
    <3> QED BY <1>2, <2>1, <2>3, <3>1 DEF AsRead, Packet
  <2> QED BY <2>2, <2>3
<1> QED BY <1>4, <1>5, ReadBack

-----------------------------------------------------------------------------
(* The checksum of the model, a number in base WordLimit behind a 1, tells sequences of    *)
(* words apart. No induction theorem is needed: of the lengths at which a claim fails, if   *)
(* there are any, one is the least.                                                        *)

Words == 0..(WordLimit - 1)

\* What the checksum has to tell apart: packets of words, which no longer sequence has the
\* checksum of, one with the checksums of other packets in it included.
CrcTells ==
  /\ \A t \in Seq(Nat) : Crc(t) \in Nat /\ (t # <<>> => Crc(t) \notin Words)
  /\ \A s \in Seq(Words), t \in Seq(Nat) :
       (Len(t) > Len(s) \/ t \in Seq(Words)) /\ Crc(s) = Crc(t) => s = t

\* The width of a field, and what fits in one.
LEMMA WordFacts ==
  /\ REPLY_BIT \in Nat /\ REPLY_BIT >= 2 /\ WordLimit = 2 * REPLY_BIT /\ WordLimit \in Nat
  /\ PACKET_MAGIC \in Words /\ PACKET_TERMINATOR \in Words /\ Stream \in Words /\ 0 \in Words
  /\ Words \subseteq Nat
<1>1. REPLY_BIT \in Nat /\ REPLY_BIT >= 2 /\ WordLimit = 2 * REPLY_BIT
  BY FramingAssumption DEF WordLimit
<1> QED BY <1>1 DEF Words, PACKET_MAGIC, PACKET_TERMINATOR, Stream

LEMMA Wider ==
  ASSUME NEW S, NEW T, S \subseteq T
  PROVE  \A s \in Seq(S) : s \in Seq(T)
OBVIOUS

\* Of any natural numbers one is the least.
LEMMA Least ==
  ASSUME NEW T, T \subseteq Nat, T # {}
  PROVE  \E m \in T : \A k \in T : m <= k
<1> DEFINE R == OpToRel(<, Nat)
<1>1. IsWellFoundedOn(R, Nat)
  BY NatLessThanWellFounded
<1>2. \A x, y \in Nat : y < x => <<y, x>> \in R
  BY DEF OpToRel
<1> HIDE DEF R
<1>3. PICK m \in T : \A k \in T : ~(<<k, m>> \in R)
  BY <1>1, WFMin
<1>4. \A k \in T : ~(k < m)
  BY <1>2, <1>3, Zenon
<1>5. \A k \in T : k \in Nat /\ m \in Nat
  OBVIOUS
<1>6. \A k \in T : m <= k
  BY <1>4, <1>5
<1> QED BY <1>6

\* The checksum of a sequence adds up the greatest index of a set last.
Greatest(s) == CHOOSE x \in s : \A y \in s : x >= y

Sums(words, n, f) ==
  f = [s \in SUBSET (1..n) |->
         IF s = {} THEN 1 ELSE f[s \ {Greatest(s)}] * WordLimit + words[Greatest(s)]]

\* What FoldLeft comes to: the sum over a set of indices, its greatest one last.
LEMMA CrcIs ==
  ASSUME NEW words, DOMAIN words = 1..Len(words)
  PROVE  Crc(words) = (CHOOSE f : Sums(words, Len(words), f))[1..Len(words)]
<1>1. Crc(words) = LET sum[s \in SUBSET DOMAIN words] ==
                         IF s = {} THEN 1
                         ELSE sum[s \ {Greatest(s)}] * WordLimit + words[Greatest(s)]
                   IN  sum[DOMAIN words]
  BY DEF Crc, FoldLeft, MapThenFoldSet, Greatest, Max
<1> QED BY <1>1 DEF Sums

\* A set of indices that is not empty has a greatest one.
LEMMA GreatestIs ==
  ASSUME NEW n \in Nat, NEW s, s \subseteq 1..n, s # {}
  PROVE  Greatest(s) \in s /\ \A y \in s : Greatest(s) >= y
<1> DEFINE T == {k \in Nat : n - k \in s}
<1>1. T \subseteq Nat /\ T # {}
  <2>1. PICK y \in s : TRUE
    OBVIOUS
  <2>2. y \in 1..n /\ n - y \in Nat /\ n - (n - y) = y
    BY <2>1
  <2>3. n - y \in T
    BY <2>2
  <2> QED BY <2>3
<1>2. PICK m \in T : \A k \in T : m <= k
  BY <1>1, Least
<1>3. n - m \in s /\ m \in Nat
  BY <1>2
<1>4. \A y \in s : n - m >= y
  <2> SUFFICES ASSUME NEW y \in s PROVE n - m >= y
    OBVIOUS
  <2>1. y \in 1..n /\ n - y \in Nat /\ n - (n - y) = y
    OBVIOUS
  <2>2. n - y \in T
    BY <2>1
  <2>3. m <= n - y
    BY <1>2, <2>2
  <2> HIDE DEF T
  <2> QED BY <1>3, <2>1, <2>3
<1> HIDE DEF T
<1>5. \E x \in s : \A y \in s : x >= y
  BY <1>3, <1>4
<1> QED BY <1>5 DEF Greatest

LEMMA GreatestTo ==
  ASSUME NEW n \in Nat, NEW s, s \subseteq 1..(n + 1), n + 1 \in s
  PROVE  Greatest(s) = n + 1
<1>1. Greatest(s) \in s /\ \A y \in s : Greatest(s) >= y
  <2> DEFINE m == n + 1
  <2>1. m \in Nat /\ s \subseteq 1..m /\ s # {}
    OBVIOUS
  <2> HIDE DEF m
  <2> QED BY <2>1, GreatestIs
<1>2. Greatest(s) \in 1..(n + 1) /\ Greatest(s) >= n + 1
  BY <1>1
<1> QED BY <1>2

\* There is such a sum for every sequence: it is added up from a shorter one.
LEMMA SumsExist == ASSUME NEW words, NEW n \in Nat PROVE \E f : Sums(words, n, f)
<1> DEFINE T == {k \in Nat : ~\E f : Sums(words, k, f)}
<1> SUFFICES ASSUME T # {} PROVE FALSE
  OBVIOUS
<1>1. PICK m \in T : \A k \in T : m <= k
  BY Least
<1>2. m \in Nat /\ ~\E f : Sums(words, m, f)
  OBVIOUS
<1>3. m # 0
  <2> SUFFICES ASSUME m = 0 PROVE FALSE
    OBVIOUS
  <2> DEFINE f == [s \in SUBSET (1..0) |-> 1]
  <2>1. \A s \in SUBSET (1..0) : s = {}
    OBVIOUS
  <2>2. Sums(words, 0, f)
    BY <2>1 DEF Sums
  <2> QED BY <1>2, <2>2
<1>4. PICK k \in Nat : m = k + 1
  <2>1. m - 1 \in Nat /\ m = (m - 1) + 1
    BY <1>2, <1>3
  <2> QED BY <2>1
<1>5. PICK f : Sums(words, k, f)
  <2>1. k \notin T
    BY <1>1, <1>4
  <2> QED BY <2>1
<1> DEFINE D == SUBSET (1..(k + 1))
           last == k + 1
           g == [s \in D |-> IF last \in s THEN f[s \ {last}] * WordLimit + words[last] ELSE f[s]]
           e(s) == IF s = {} THEN 1 ELSE g[s \ {Greatest(s)}] * WordLimit + words[Greatest(s)]
<1>6. \A s \in SUBSET (1..k) : s \in D /\ last \notin s /\ g[s] = f[s]
  <2>1. \A i \in 1..k : i \in 1..(k + 1) /\ i # k + 1
    OBVIOUS
  <2> QED BY <2>1
<1>7. \A s \in D : last \notin s => s \in SUBSET (1..k)
  <2>1. \A i \in 1..(k + 1) : i # k + 1 => i \in 1..k
    OBVIOUS
  <2> QED BY <2>1
<1>8. \A s \in D : g[s] = e(s)
  <2> SUFFICES ASSUME NEW s \in D PROVE g[s] = e(s)
    OBVIOUS
  <2>1. CASE last \in s
    <3>1. Greatest(s) = last /\ s # {}
      BY <2>1, GreatestTo
    <3>2. s \ {last} \in SUBSET (1..k)
      <4>1. s \ {last} \in D
        OBVIOUS
      <4> QED BY <1>7, <4>1
    <3>3. g[s \ {last}] = f[s \ {last}]
      BY <1>6, <3>2
    <3>4. g[s] = f[s \ {last}] * WordLimit + words[last]
      BY <2>1
    <3> HIDE DEF g, last
    <3> QED BY <3>1, <3>3, <3>4
  <2>2. CASE last \notin s
    <3>1. s \in SUBSET (1..k) /\ g[s] = f[s]
      BY <1>6, <1>7, <2>2
    <3>2. f[s] = IF s = {} THEN 1 ELSE f[s \ {Greatest(s)}] * WordLimit + words[Greatest(s)]
      BY <1>5, <3>1 DEF Sums
    <3>3. g[s \ {Greatest(s)}] = f[s \ {Greatest(s)}]
      <4>1. s \ {Greatest(s)} \in SUBSET (1..k)
        BY <3>1
      <4> QED BY <1>6, <4>1
    <3> HIDE DEF g
    <3> QED BY <3>1, <3>2, <3>3
  <2> QED BY <2>1, <2>2
<1>9. Sums(words, k + 1, g)
  <2>1. g = [s \in D |-> g[s]]
    OBVIOUS
  <2> HIDE DEF g
  <2>2. g = [s \in D |-> e(s)]
    BY <1>8, <2>1
  <2> QED BY <2>2 DEF Sums
<1> QED BY <1>2, <1>4, <1>9

\* What is added up, one index after the other.
LEMMA SumsStep ==
  ASSUME NEW words, NEW n \in Nat, NEW f, Sums(words, n, f)
  PROVE  /\ f[1..0] = 1
         /\ \A m \in 1..n : f[1..m] = f[1..(m - 1)] * WordLimit + words[m]
<1>1. \A s \in SUBSET (1..n) :
        f[s] = IF s = {} THEN 1 ELSE f[s \ {Greatest(s)}] * WordLimit + words[Greatest(s)]
  BY DEF Sums
<1>2. f[1..0] = 1
  <2>1. 1..0 = {} /\ {} \in SUBSET (1..n)
    OBVIOUS
  <2> QED BY <1>1, <2>1
<1>3. ASSUME NEW m \in 1..n PROVE f[1..m] = f[1..(m - 1)] * WordLimit + words[m]
  <2> DEFINE k == m - 1
             s == 1..m
  <2>1. k \in Nat /\ m = k + 1 /\ s \subseteq 1..(k + 1) /\ k + 1 \in s /\ s \in SUBSET (1..n)
    OBVIOUS
  <2>2. s \ {m} = 1..k
    OBVIOUS
  <2> HIDE DEF s, k
  <2>3. Greatest(s) = m /\ s # {}
    BY <2>1, GreatestTo
  <2>4. f[s] = f[1..k] * WordLimit + words[m]
    BY <1>1, <2>1, <2>2, <2>3
  <2> QED BY <2>4 DEF s, k
<1> QED BY <1>2, <1>3

\* Two sums agree as far as what they add up does.
LEMMA SumsAgree ==
  ASSUME NEW words, NEW n \in Nat, NEW f, Sums(words, n, f),
         NEW others, NEW l \in Nat, NEW g, Sums(others, l, g),
         NEW m \in Nat, m <= n, m <= l, \A i \in 1..m : words[i] = others[i]
  PROVE  f[1..m] = g[1..m]
<1> DEFINE T == {k \in 0..m : f[1..k] # g[1..k]}
<1> SUFFICES ASSUME T # {} PROVE FALSE
  <2>1. m \in 0..m
    OBVIOUS
  <2> QED BY <2>1
<1>1. PICK k \in T : \A i \in T : k <= i
  <2>1. T \subseteq Nat
    OBVIOUS
  <2> HIDE DEF T
  <2> QED BY <2>1, Least
<1>2. k \in 0..m /\ f[1..k] # g[1..k]
  OBVIOUS
<1>3. k # 0
  BY <1>2, SumsStep
<1>4. k \in 1..n /\ k \in 1..l /\ k \in 1..m /\ k - 1 \in 0..m /\ k - 1 < k
  BY <1>2, <1>3
<1>5. f[1..(k - 1)] = g[1..(k - 1)]
  <2>1. k - 1 \notin T
    BY <1>1, <1>4
  <2> QED BY <1>4, <2>1
<1>6. /\ f[1..k] = f[1..(k - 1)] * WordLimit + words[k]
      /\ g[1..k] = g[1..(k - 1)] * WordLimit + others[k]
  BY <1>4, SumsStep
<1>7. words[k] = others[k]
  BY <1>4
<1> HIDE DEF T
<1> QED BY <1>2, <1>5, <1>6, <1>7

\* The checksum, unit by unit.
LEMMA CrcStep ==
  /\ Crc(<<>>) = 1
  /\ \A S : \A s \in Seq(S), x \in S : Crc(Append(s, x)) = Crc(s) * WordLimit + x
<1> DEFINE F(s) == CHOOSE f : Sums(s, Len(s), f)
<1>1. ASSUME NEW S, NEW s \in Seq(S)
      PROVE  Len(s) \in Nat /\ Sums(s, Len(s), F(s)) /\ Crc(s) = F(s)[1..Len(s)]
  <2>1. DOMAIN s = 1..Len(s) /\ Len(s) \in Nat
    OBVIOUS
  <2>2. \E f : Sums(s, Len(s), f)
    BY <2>1, SumsExist
  <2>3. Sums(s, Len(s), F(s))
    BY <2>2
  <2>4. Crc(s) = F(s)[1..Len(s)]
    BY <2>1, CrcIs
  <2> QED BY <2>1, <2>3, <2>4
<1> HIDE DEF F
<1>2. Crc(<<>>) = 1
  <2>1. <<>> \in Seq(Nat) /\ Len(<<>>) = 0
    OBVIOUS
  <2> QED BY ZenonT(60), <1>1, <2>1, SumsStep
<1>3. ASSUME NEW S, NEW s \in Seq(S), NEW x \in S
      PROVE  Crc(Append(s, x)) = Crc(s) * WordLimit + x
  <2> DEFINE t == Append(s, x)
             n == Len(s)
             f == F(s)
             g == F(t)
  <2>1. t \in Seq(S) /\ n \in Nat /\ Len(t) = n + 1 /\ t[n + 1] = x
        /\ \A i \in 1..n : s[i] = t[i]
    OBVIOUS
  <2> HIDE DEF t
  <2>2. Sums(s, n, f) /\ Crc(s) = f[1..n]
    BY <1>1
  <2>3. Sums(t, n + 1, g) /\ Crc(t) = g[1..(n + 1)]
    BY <1>1, <2>1
  <2> HIDE DEF n, f, g
  <2>4. f[1..n] = g[1..n]
    <3>1. n + 1 \in Nat /\ n <= n + 1 /\ n <= n
      BY <2>1
    <3> QED BY <2>1, <2>2, <2>3, <3>1, SumsAgree
  <2>5. g[1..(n + 1)] = g[1..n] * WordLimit + t[n + 1]
    <3>1. n + 1 \in Nat /\ n + 1 \in 1..(n + 1) /\ (n + 1) - 1 = n
      BY <2>1
    <3>2. g[1..(n + 1)] = g[1..((n + 1) - 1)] * WordLimit + t[n + 1]
      BY <2>3, <3>1, SumsStep
    <3> QED BY <3>1, <3>2
  <2> QED BY <2>1, <2>2, <2>3, <2>4, <2>5 DEF t
<1> QED BY <1>2, <1>3

\* A sequence that is not empty is one that a unit is appended to.
LEMMA FrontAndLast ==
  ASSUME NEW S, NEW t \in Seq(S), NEW n \in Nat
  PROVE  Len(t) = n + 1 => \E s \in Seq(S), x \in S : t = Append(s, x) /\ Len(s) = n
<1> SUFFICES ASSUME Len(t) = n + 1
             PROVE  \E s \in Seq(S), x \in S : t = Append(s, x) /\ Len(s) = n
  OBVIOUS
<1> DEFINE s == SubSeq(t, 1, n)
           x == t[n + 1]
<1>1. n + 1 \in 1..Len(t) /\ n <= Len(t)
  OBVIOUS
<1>2. x \in S
  BY <1>1
<1>3. s \in Seq(S) /\ Len(s) = n /\ \A i \in 1..n : s[i] = t[i]
  BY <1>1
<1> HIDE DEF s
<1>4. /\ Append(s, x) \in Seq(S) /\ Len(Append(s, x)) = n + 1
      /\ \A i \in 1..(n + 1) : Append(s, x)[i] = IF i <= n THEN s[i] ELSE x
  BY <1>2, <1>3
<1> DEFINE a == Append(s, x)
<1> HIDE DEF a
<1>5. a \in Seq(S) /\ Len(a) = n + 1 /\ \A i \in 1..(n + 1) : a[i] = t[i]
  <2>1. \A i \in 1..(n + 1) : i \in 1..n \/ i = n + 1
    OBVIOUS
  <2> QED BY <1>3, <1>4, <2>1 DEF a
<1>6. a = t
  BY <1>5
<1> QED BY <1>2, <1>3, <1>6 DEF a

LEMMA FrontAndLastNat ==
  \A t \in Seq(Nat), n \in Nat :
    Len(t) = n + 1 => \E s \in Seq(Nat), x \in Nat : t = Append(s, x) /\ Len(s) = n
BY FrontAndLast

LEMMA FrontAndLastWords ==
  \A t \in Seq(Words), n \in Nat :
    Len(t) = n + 1 => \E s \in Seq(Words), x \in Words : t = Append(s, x) /\ Len(s) = n
BY FrontAndLast

\* One more word more than makes up for what a word can hold.
LEMMA Timed ==
  ASSUME NEW x \in Nat, NEW y \in Nat, NEW w \in Nat
  PROVE  x * w \in Nat /\ (x < y => x * w + w <= y * w)
<1>1. x * w \in Nat
  OBVIOUS
<1>2. ASSUME x < y PROVE x * w + w <= y * w
  <2>1. PICK d \in Nat : y = x + 1 + d
    <3>1. y - x - 1 \in Nat /\ y = x + 1 + (y - x - 1)
      BY <1>2
    <3> QED BY <3>1
  <2>2. (x + 1 + d) * w = x * w + w + d * w
    OBVIOUS
  <2>3. d * w \in Nat
    OBVIOUS
  <2> QED BY <1>1, <2>1, <2>2, <2>3
<1> QED BY <1>1, <1>2

\* A checksum is a number, and never zero.
LEMMA CrcIsNat == \A t \in Seq(Nat) : Crc(t) \in Nat /\ Crc(t) >= 1
<1> DEFINE T == {n \in Nat : \E t \in Seq(Nat) : Len(t) = n /\ ~(Crc(t) \in Nat /\ Crc(t) >= 1)}
<1> SUFFICES ASSUME T # {} PROVE FALSE
  OBVIOUS
<1>1. PICK n \in T : \A k \in T : n <= k
  BY Least
<1>2. PICK t \in Seq(Nat) : Len(t) = n /\ ~(Crc(t) \in Nat /\ Crc(t) >= 1)
  OBVIOUS
<1>3. n \in Nat /\ n # 0
  <2>1. n = 0 => t = <<>>
    BY <1>2
  <2> QED BY <1>2, <2>1, CrcStep
<1>4. PICK k \in Nat : n = k + 1
  <2>1. n - 1 \in Nat /\ n = (n - 1) + 1
    BY <1>3
  <2> QED BY <2>1
<1>5. PICK s \in Seq(Nat), x \in Nat : t = Append(s, x) /\ Len(s) = k
  <2>1. Len(t) = k + 1
    BY <1>2, <1>4
  <2> QED BY <2>1, FrontAndLastNat
<1>6. Crc(s) \in Nat /\ Crc(s) >= 1
  <2>1. k \notin T
    BY <1>1, <1>4
  <2> QED BY <1>5, <2>1
<1>7. Crc(t) = Crc(s) * WordLimit + x
  BY <1>5, CrcStep
<1> DEFINE c == Crc(s)
           m == c * WordLimit
<1>8. c \in Nat /\ c >= 1 /\ WordLimit \in Nat /\ WordLimit >= 1
  BY <1>6, WordFacts
<1>9. m \in Nat /\ m >= 1
  <2> HIDE DEF c
  <2>1. m \in Nat /\ (0 < c => 0 * WordLimit + WordLimit <= m)
    BY <1>8, Timed
  <2>2. 0 * WordLimit = 0
    BY <1>8
  <2> HIDE DEF m
  <2> QED BY <1>8, <2>1, <2>2
<1> HIDE DEF c, m
<1>10. Crc(t) = m + x
  BY <1>7 DEF m, c
<1> QED BY <1>2, <1>9, <1>10

\* A longer sequence has a greater checksum.
LEMMA LongerIsGreater ==
  \A s \in Seq(Words), t \in Seq(Nat) : Len(t) > Len(s) => Crc(t) > Crc(s)
<1> DEFINE T == {n \in Nat : \E s \in Seq(Words), t \in Seq(Nat) :
                   Len(s) = n /\ Len(t) > n /\ ~(Crc(t) > Crc(s))}
<1> SUFFICES ASSUME T # {} PROVE FALSE
  <2> SUFFICES ASSUME NEW s \in Seq(Words), NEW t \in Seq(Nat), Len(t) > Len(s), ~(Crc(t) > Crc(s))
               PROVE  T # {}
    OBVIOUS
  <2>1. Len(s) \in T
    OBVIOUS
  <2> QED BY <2>1
<1>1. PICK n \in T : \A k \in T : n <= k
  BY Least
<1>2. PICK s \in Seq(Words), t \in Seq(Nat) : Len(s) = n /\ Len(t) > n /\ ~(Crc(t) > Crc(s))
  BY Zenon
<1>3. n \in Nat /\ Len(t) \in Nat
  OBVIOUS
<1>4. PICK l \in Nat : Len(t) = l + 1
  <2>1. Len(t) - 1 \in Nat /\ Len(t) = (Len(t) - 1) + 1
    BY <1>2, <1>3
  <2> QED BY <2>1
<1>5. PICK t0 \in Seq(Nat), y \in Nat : t = Append(t0, y) /\ Len(t0) = l
  BY <1>4, FrontAndLastNat
<1> DEFINE c == Crc(t0)
           m == c * WordLimit
<1>6. c \in Nat /\ c >= 1 /\ WordLimit \in Nat /\ WordLimit >= 2
  BY CrcIsNat, WordFacts
<1>7. Crc(t) = m + y
  BY <1>5, CrcStep
<1>8. CASE n = 0
  <2>1. Crc(s) = 1
    <3>1. s = <<>>
      BY <1>2, <1>8
    <3> QED BY <3>1, CrcStep
  <2> HIDE DEF c
  <2>2. m \in Nat /\ (0 < c => 0 * WordLimit + WordLimit <= m)
    BY <1>6, Timed
  <2>3. 0 * WordLimit = 0
    BY <1>6
  <2> HIDE DEF m
  <2>4. m + y > 1
    BY <1>6, <2>2, <2>3
  <2> QED BY <1>2, <1>7, <2>1, <2>4
<1>9. CASE n # 0
  <2>1. PICK k \in Nat : n = k + 1
    <3>1. n - 1 \in Nat /\ n = (n - 1) + 1
      BY <1>3, <1>9
    <3> QED BY <3>1
  <2>2. PICK s0 \in Seq(Words), x \in Words : s = Append(s0, x) /\ Len(s0) = k
    <3>1. Len(s) = k + 1
      BY <1>2, <2>1
    <3> QED BY <3>1, FrontAndLastWords
  <2>3. c > Crc(s0)
    <3>1. k \notin T
      BY <1>1, <2>1
    <3>2. Len(t0) > k
      BY <1>2, <1>4, <1>5, <2>1
    <3> QED BY <2>2, <3>1, <3>2
  <2> DEFINE d == Crc(s0)
             o == d * WordLimit
  <2>4. Crc(s) = o + x
    BY <2>2, CrcStep
  <2>5. d \in Nat /\ x \in Nat /\ x < WordLimit
    <3>1. s0 \in Seq(Nat)
      BY WordFacts, Wider
    <3>2. x \in Nat /\ x < WordLimit
      BY WordFacts DEF Words
    <3> QED BY <3>1, <3>2, CrcIsNat
  <2>6. d < c
    BY <1>6, <2>3, <2>5
  <2> HIDE DEF c, d
  <2>7. o \in Nat /\ m \in Nat /\ o + WordLimit <= m
    BY <1>6, <2>5, <2>6, Timed
  <2> HIDE DEF o, m
  <2>8. m + y > o + x
    BY <1>6, <2>5, <2>7
  <2> QED BY <1>2, <1>7, <2>4, <2>8
<1> QED BY <1>8, <1>9

\* No two sequences of words have the same checksum.
LEMMA WordsApart ==
  \A s \in Seq(Words), t \in Seq(Words) : Crc(s) = Crc(t) => s = t
<1> DEFINE T == {n \in Nat : \E s \in Seq(Words), t \in Seq(Words) :
                   Len(s) = n /\ Crc(s) = Crc(t) /\ s # t}
<1>0. \A q \in Seq(Words) : q \in Seq(Nat)
  BY WordFacts, Wider
<1> SUFFICES ASSUME T # {} PROVE FALSE
  <2> SUFFICES ASSUME NEW s \in Seq(Words), NEW t \in Seq(Words), Crc(s) = Crc(t), s # t
               PROVE  T # {}
    OBVIOUS
  <2>1. Len(s) \in T
    OBVIOUS
  <2> QED BY <2>1
<1>1. PICK n \in T : \A k \in T : n <= k
  BY Least
<1>2. PICK s \in Seq(Words), t \in Seq(Words) : Len(s) = n /\ Crc(s) = Crc(t) /\ s # t
  OBVIOUS
<1>3. /\ n \in Nat /\ Len(t) \in Nat /\ s \in Seq(Nat) /\ t \in Seq(Nat)
      /\ Crc(s) \in Nat /\ Crc(t) \in Nat
  BY <1>0, CrcIsNat
<1>4. Len(s) = Len(t)
  <2>1. ~(Len(s) > Len(t)) /\ ~(Len(t) > Len(s))
    BY <1>2, <1>3, LongerIsGreater
  <2> QED BY <1>2, <1>3, <2>1
<1>5. n # 0
  <2> SUFFICES ASSUME n = 0 PROVE FALSE
    OBVIOUS
  <2>1. s = <<>> /\ t = <<>>
    BY <1>2, <1>4
  <2> QED BY <1>2, <2>1
<1>6. PICK k \in Nat : n = k + 1
  <2>1. n - 1 \in Nat /\ n = (n - 1) + 1
    BY <1>3, <1>5
  <2> QED BY <2>1
<1>7. Len(s) = k + 1 /\ Len(t) = k + 1
  BY <1>2, <1>4, <1>6
<1>8. PICK s0 \in Seq(Words), x \in Words : s = Append(s0, x) /\ Len(s0) = k
  BY <1>7, FrontAndLastWords
<1>9. PICK t0 \in Seq(Words), y \in Words : t = Append(t0, y) /\ Len(t0) = k
  BY <1>7, FrontAndLastWords
<1>10. Crc(s) = Crc(s0) * WordLimit + x /\ Crc(t) = Crc(t0) * WordLimit + y
  BY <1>8, <1>9, CrcStep
<1> DEFINE c == Crc(s0)
           d == Crc(t0)
           m == c * WordLimit
           o == d * WordLimit
<1>11. /\ c \in Nat /\ d \in Nat /\ x \in Nat /\ y \in Nat /\ x < WordLimit /\ y < WordLimit
       /\ WordLimit \in Nat /\ m + x = o + y
  <2>1. c \in Nat /\ d \in Nat
    BY <1>0, CrcIsNat
  <2>2. WordLimit \in Nat
    BY WordFacts
  <2>3. x \in Nat /\ y \in Nat /\ x < WordLimit /\ y < WordLimit
    <3> HIDE DEF c, d
    <3> QED BY <2>2 DEF Words
  <2>4. m + x = o + y
    BY <1>2, <1>10, Zenon
  <2> HIDE DEF c, d, m, o
  <2> QED BY <2>1, <2>2, <2>3, <2>4
<1>12. c = d /\ x = y
  <2> HIDE DEF c, d
  <2>1. m \in Nat /\ o \in Nat /\ (c < d => m + WordLimit <= o) /\ (d < c => o + WordLimit <= m)
    BY <1>11, Timed
  <2>2. c = d
    <3> HIDE DEF m, o
    <3> QED BY <1>11, <2>1
  <2>3. m = o
    BY <2>2
  <2> HIDE DEF m, o
  <2> QED BY <1>11, <2>1, <2>2, <2>3
<1>13. s0 = t0
  <2>1. k \notin T
    <3>1. ~(n <= k)
      BY <1>6
    <3> QED BY <1>1, <3>1, Zenon
  <2> QED BY <1>8, <1>12, <2>1
<1> QED BY <1>2, <1>8, <1>9, <1>12, <1>13

\* The checksum of the model does tell them apart.
LEMMA Tells == CrcTells
<1>1. ASSUME NEW t \in Seq(Nat) PROVE Crc(t) \in Nat /\ (t # <<>> => Crc(t) \notin Words)
  <2>1. Crc(t) \in Nat
    BY CrcIsNat
  <2>2. ASSUME t # <<>> PROVE Crc(t) \notin Words
    <3>1. PICK k \in Nat : Len(t) = k + 1
      <4>1. Len(t) - 1 \in Nat /\ Len(t) = (Len(t) - 1) + 1
        BY <2>2
      <4> QED BY <4>1
    <3>2. PICK s \in Seq(Nat), x \in Nat : t = Append(s, x)
      BY ZenonT(60), <3>1, FrontAndLastNat
    <3> DEFINE c == Crc(s)
               m == c * WordLimit
    <3>3. Crc(t) = m + x
      BY <3>2, CrcStep
    <3>4. c \in Nat /\ c >= 1 /\ WordLimit \in Nat
      BY CrcIsNat, WordFacts
    <3> HIDE DEF c
    <3>5. m \in Nat /\ (0 < c => 0 * WordLimit + WordLimit <= m) /\ 0 * WordLimit = 0
      BY <3>4, Timed
    <3> HIDE DEF m
    <3>6. m + x >= WordLimit
      BY <3>4, <3>5
    <3> QED BY <3>3, <3>4, <3>6 DEF Words
  <2> QED BY <2>1, <2>2
<1>2. ASSUME NEW s \in Seq(Words), NEW t \in Seq(Nat), Len(t) > Len(s) \/ t \in Seq(Words),
             Crc(s) = Crc(t)
      PROVE  s = t
  <2>1. ~(Len(t) > Len(s))
    <3>1. s \in Seq(Nat)
      BY WordFacts, Wider
    <3>2. Crc(s) \in Nat /\ Crc(t) \in Nat
      BY <3>1, CrcIsNat
    <3> QED BY <1>2, <3>2, LongerIsGreater
  <2> QED BY <1>2, <2>1, WordsApart
<1> QED BY <1>1, <1>2 DEF CrcTells

-----------------------------------------------------------------------------
(* The wire as a whole: what is on its way, packet by packet.              *)

Unit == Words \cup {Crc(t) : t \in Seq(Words)}
Sent == {p \in AllPackets : Fits(p)}

\* What the thread at work has still to put out, and all the reader has before it.
Rest == IF lock \in Writers THEN out[lock] ELSE <<>>
Ahead == (buf \o wire) \o Rest
Done == Len(received)

\* A packet as it is put out.
Altered(p, b) ==
  \E j \in DOMAIN Encoded(p), u \in Words :
    u # Encoded(p)[j] /\ b = [Encoded(p) EXCEPT ![j] = u]
PutAs(i, b) ==
  IF fault = "corrupt" /\ i \in spoilt THEN Altered(sent[i], b) ELSE b = Encoded(sent[i])

\* The packets lie one behind the other, each from its place at[i]; what is before the reader
\* begins with the first that it has not received.
LaidOut(at, blk) ==
  /\ at \in [1..(Len(sent) + 1) -> Nat]
  /\ \A i, j \in 1..(Len(sent) + 1) : i <= j => at[i] <= at[j]
  /\ \A i \in 1..Len(sent) : PutAs(i, blk[i]) /\ at[i + 1] = at[i] + Len(blk[i])
  /\ Len(Ahead) = at[Len(sent) + 1] - at[Done + 1]
  /\ \A i \in (Done + 1)..Len(sent) : \A j \in 1..Len(blk[i]) :
       Ahead[(at[i] - at[Done + 1]) + j] = blk[i][j]

\* After a write cut short the reader takes what comes later for the rest of a packet, and
\* sums units that hold checksums: that is left out, but for what there is before it.
Told == spoilt = {} \/ fault # "cut"

Types ==
  /\ fault \in Faults \cup {"none"} /\ lock \in Writers \cup {Nobody}
  /\ out \in [Writers -> Seq(Unit)] /\ \A w \in Writers : w # lock => out[w] = <<>>
  /\ nextId \in 1..WordLimit /\ sent \in Seq(Sent) /\ spoilt \subseteq DOMAIN sent
  /\ open \in BOOLEAN /\ wire \in Seq(Unit) /\ Len(wire) <= Capacity
  /\ reader \in {"reading", "closed", "error"} /\ buf \in Seq(Unit)
  /\ received \in Seq(AllPackets)

\* What has been read is not spoilt, what is being written is not read.
PlaceInv ==
  /\ Done <= Len(sent) /\ spoilt \cap (1..Done) = {}
  /\ Rest # <<>> => Done < Len(sent)
  /\ Len(buf) > 5 => Len(buf) <= 5 + buf[5]
  /\ reader = "reading" => \E at, blk : LaidOut(at, blk)
  /\ reader = "reading" /\ fault # "corrupt" /\ spoilt # {} =>
       ~open /\ Rest # <<>> /\ spoilt = {Len(sent)}

\* Who ends, and why.
EndInv ==
  /\ fault = "none" => spoilt = {}
  /\ spoilt = {} /\ ~open => Rest = <<>>
  /\ StopsForAReason

Inv == Told => Types /\ PlaceInv /\ EndInv

LEMMA Joined ==
  ASSUME NEW S, NEW s \in Seq(S), NEW t \in Seq(S)
  PROVE  /\ s \o t \in Seq(S) /\ Len(s) \in Nat /\ Len(t) \in Nat /\ Len(s \o t) = Len(s) + Len(t)
         /\ \A i \in 1..Len(s) : (s \o t)[i] = s[i]
         /\ \A i \in 1..Len(t) : (s \o t)[Len(s) + i] = t[i]
OBVIOUS

LEMMA Regrouped ==
  ASSUME NEW S, NEW s \in Seq(S), NEW t \in Seq(S), NEW u \in Seq(S)
  PROVE  (s \o t) \o u = s \o (t \o u)
BY SMTT(30)

LEMMA SplitAt ==
  ASSUME NEW S, NEW s \in Seq(S), NEW n \in Nat, n <= Len(s)
  PROVE  /\ SubSeq(s, 1, n) \in Seq(S) /\ Len(SubSeq(s, 1, n)) = n
         /\ SubSeq(s, n + 1, Len(s)) \in Seq(S) /\ Len(SubSeq(s, n + 1, Len(s))) = Len(s) - n
         /\ SubSeq(s, 1, n) \o SubSeq(s, n + 1, Len(s)) = s
<1> DEFINE a == SubSeq(s, 1, n)
           b == SubSeq(s, n + 1, Len(s))
           c == a \o b
<1>1. a \in Seq(S) /\ Len(a) = n /\ \A i \in 1..n : a[i] = s[i]
  OBVIOUS
<1>2. b \in Seq(S) /\ Len(b) = Len(s) - n /\ \A i \in 1..(Len(s) - n) : b[i] = s[n + i]
  OBVIOUS
<1> HIDE DEF a, b
<1>3. /\ c \in Seq(S) /\ Len(c) = Len(s)
      /\ \A i \in 1..Len(s) : c[i] = IF i <= n THEN a[i] ELSE b[i - n]
  BY <1>1, <1>2
<1> HIDE DEF c
<1>4. \A i \in 1..Len(s) : c[i] = s[i]
  BY <1>1, <1>2, <1>3
<1>5. c = s
  BY <1>3, <1>4
<1> QED BY <1>1, <1>2, <1>5 DEF c, a, b

\* What a packet that is sent is on the wire: words, but for its checksum.
LEMMA SentIs ==
  ASSUME NEW p \in Sent
  PROVE  /\ p \in Sendable /\ p \in AllPackets /\ Len(p.payload) \in Words
         /\ Header(0, p) \o p.payload \in Seq(Words)
         /\ Len(Header(0, p) \o p.payload) = Len(p.payload) + 5
         /\ Encoded(p) \in Seq(Unit) /\ Len(Encoded(p)) = Len(p.payload) + 6
<1> DEFINE load == p.payload
           n == Len(load)
           g == Header(0, p)
           c == g \o load
<1>1. /\ p \in AllPackets /\ Fits(p) /\ load \in Payloads
      /\ p.id \in 0..WordLimit /\ p.reply \in BOOLEAN
  BY DEF Sent, AllPackets
<1>2. p \in Sendable
  BY <1>1, WordFacts DEF Sent, AllPackets, Sendable
<1>3. load \in Seq(Words) /\ n < WordLimit
  BY <1>1, FramingAssumption DEF Words
<1>4. n \in Nat /\ n \in Words
  BY <1>3, WordFacts DEF Words
<1>5. IdField(p) \in Words
  BY <1>1, WordFacts DEF Fits, IdField, Words
<1>6. g \in Seq(Words) /\ Len(g) = 5
  <2>1. g = <<PACKET_MAGIC, 0, Stream, IdField(p), n>>
    BY DEF Header
  <2> HIDE DEF g, n
  <2> QED BY <1>4, <1>5, <2>1, WordFacts
<1> HIDE DEF g, load
<1>7. c \in Seq(Words) /\ Len(c) = n + 5
  <2>1. c \in Seq(Words) /\ Len(c) = Len(g) + Len(load)
    BY ZenonT(60), <1>3, <1>6, Joined
  <2> HIDE DEF c
  <2> QED BY <1>4, <1>6, <2>1
<1>8. Crc(c) \in Unit /\ Words \subseteq Unit
  BY <1>7 DEF Unit
<1>9. Encoded(p) \in Seq(Unit) /\ Len(Encoded(p)) = n + 6
  <2> DEFINE h == Header(Crc(c), p)
             t == <<PACKET_TERMINATOR>>
  <2>1. h \in Seq(Unit) /\ Len(h) = 5
    <3>1. h = <<PACKET_MAGIC, Crc(c), Stream, IdField(p), n>>
      BY DEF Header, load
    <3> DEFINE sum == Crc(c)
    <3>2. /\ sum \in Unit /\ PACKET_MAGIC \in Unit /\ Stream \in Unit
          /\ IdField(p) \in Unit /\ n \in Unit
      BY <1>4, <1>5, <1>8, WordFacts
    <3> HIDE DEF h, n, c, sum
    <3>3. h = <<PACKET_MAGIC, sum, Stream, IdField(p), n>>
      BY <3>1 DEF sum
    <3> QED BY <3>2, <3>3
  <2>2. t \in Seq(Unit) /\ Len(t) = 1
    BY <1>8, WordFacts
  <2>3. load \in Seq(Unit)
    BY <1>3, <1>8
  <2>4. Encoded(p) = (h \o load) \o t
    BY DEF Encoded, g, load
  <2> HIDE DEF h, t
  <2> DEFINE hl == h \o load
  <2>5. hl \in Seq(Unit) /\ Len(hl) = Len(h) + Len(load)
    BY ZenonT(60), <2>1, <2>3, Joined
  <2>6. Len(hl) = n + 5
    BY <1>4, <2>1, <2>5
  <2> HIDE DEF hl
  <2>7. hl \o t \in Seq(Unit) /\ Len(hl \o t) = Len(hl) + Len(t)
    BY ZenonT(60), <2>2, <2>5, Joined
  <2> HIDE DEF n
  <2>8. (n + 5) + 1 = n + 6
    BY <1>4
  <2> QED BY <2>2, <2>4, <2>6, <2>7, <2>8 DEF hl
<1> QED BY <1>1, <1>2, <1>4, <1>7, <1>9 DEF g, load

LEMMA PutUnits ==
  ASSUME NEW p \in Sent, NEW b, b = Encoded(p) \/ Altered(p, b)
  PROVE  /\ b \in Seq(Unit) /\ Len(b) = Len(p.payload) + 6
         /\ Len(p.payload) \in Words /\ Len(b) \in Nat
<1>1. /\ Encoded(p) \in Seq(Unit) /\ Len(Encoded(p)) = Len(p.payload) + 6
      /\ Len(p.payload) \in Words
  BY SentIs
<1>2. CASE b = Encoded(p)
  BY <1>1, <1>2, WordFacts
<1>3. CASE Altered(p, b)
  <2> DEFINE e == Encoded(p)
  <2>1. PICK j \in DOMAIN e, u \in Words : b = [e EXCEPT ![j] = u]
    BY <1>3 DEF Altered
  <2>2. u \in Unit
    BY DEF Unit
  <2> HIDE DEF e
  <2>3. e \in Seq(Unit)
    BY <1>1 DEF e
  <2>4. b \in Seq(Unit) /\ Len(b) = Len(e)
    BY <2>1, <2>2, <2>3
  <2> QED BY <1>1, <2>4, WordFacts DEF e
<1> QED BY <1>2, <1>3

LEMMA PutIs ==
  ASSUME NEW i, i \in 1..Len(sent), sent \in Seq(Sent), NEW b, PutAs(i, b)
  PROVE  /\ b \in Seq(Unit) /\ Len(b) = Len(sent[i].payload) + 6
         /\ Len(sent[i].payload) \in Words /\ Len(b) \in Nat
<1>1. sent[i] \in Sent
  OBVIOUS
<1>2. b = Encoded(sent[i]) \/ Altered(sent[i], b)
  BY DEF PutAs
<1> QED BY <1>1, <1>2, PutUnits

\* A packet but for its checksum and its terminator is what the checksum is of.
LEMMA SummedUnits ==
  ASSUME NEW p \in Sent
  PROVE  LET c == Header(0, p) \o p.payload IN
         \A i \in 1..(Len(p.payload) + 5) : i # 2 => Encoded(p)[i] = c[i] /\ c[i] \in Words
<1> DEFINE n == Len(p.payload)
           c == Header(0, p) \o p.payload
           e == Encoded(p)
           q == SubSeq(e, 1, Len(e) - 1)
<1>1. /\ p \in Sendable /\ n \in Words /\ c \in Seq(Words) /\ Len(c) = n + 5
      /\ e \in Seq(Unit) /\ Len(e) = n + 6
  BY SentIs
<1>2. [q EXCEPT ![2] = 0] = c
  BY <1>1, Summed
<1>3. n \in Nat
  BY <1>1, WordFacts
<1> HIDE DEF n, c, e
<1>4. q \in Seq(Unit) /\ Len(q) = n + 5 /\ \A i \in 1..(n + 5) : q[i] = e[i]
  <2>1. Len(e) - 1 = n + 5
    BY <1>1, <1>3
  <2> QED BY <1>1, <1>3, <2>1
<1> HIDE DEF q
<1>5. \A i \in 1..(n + 5) : i # 2 => c[i] = q[i]
  <2>1. DOMAIN q = 1..(n + 5)
    BY <1>4
  <2> QED BY <1>2, <2>1
<1>6. \A i \in 1..(n + 5) : c[i] \in Words
  BY <1>1
<1>7. \A i \in 1..(n + 5) : i # 2 => e[i] = c[i] /\ c[i] \in Words
  BY <1>4, <1>5, <1>6
<1> QED BY <1>7 DEF n, c, e

\* The reader's beginning of a packet that is as it was encoded.
LEMMA IntactRead ==
  ASSUME NEW p \in Sent, NEW b \in Seq(Unit),
         \A j \in 1..Len(b) : j <= Len(Encoded(p)) => b[j] = Encoded(p)[j]
  PROVE  /\ Len(b) >= 5 => b[1] = PACKET_MAGIC /\ b[5] = Len(p.payload)
         /\ Len(b) = Len(Encoded(p)) => b = Encoded(p)
<1> DEFINE n == Len(p.payload)
           e == Encoded(p)
<1>1. /\ p \in Sendable /\ n \in Words /\ e \in Seq(Unit) /\ Len(e) = n + 6
  BY SentIs
<1>2. e[1] = PACKET_MAGIC /\ e[5] = n
  BY <1>1, EncodedUnits
<1>3. n \in Nat
  BY <1>1, WordFacts
<1> HIDE DEF n, e
<1>4. \A j \in 1..Len(b) : j <= Len(e) => b[j] = e[j]
  BY DEF e
<1>5. Len(b) >= 5 => b[1] = PACKET_MAGIC /\ b[5] = n
  BY <1>1, <1>2, <1>3, <1>4
<1>6. Len(b) = Len(e) => b = e
  BY <1>1, <1>4
<1> QED BY <1>5, <1>6 DEF n, e

LEMMA UnitIsNat == Unit \subseteq Nat /\ \A b \in Seq(Unit) : b \in Seq(Nat)
<1>1. \A t \in Seq(Words) : t \in Seq(Nat)
  BY WordFacts, Wider
<1>2. \A t \in Seq(Words) : Crc(t) \in Nat
  BY <1>1, CrcIsNat
<1>3. Unit \subseteq Nat
  BY <1>2, WordFacts DEF Unit
<1>4. \A b \in Seq(Unit) : b \in Seq(Nat)
  BY <1>3, Wider
<1> QED BY <1>3, <1>4

\* One whose unit has been altered is not accepted, wherever its length says it ends.
LEMMA AlteredRead ==
  ASSUME NEW p \in Sent, NEW a, Altered(p, a), NEW b \in Seq(Unit),
         \A j \in 1..Len(b) : j <= Len(a) => b[j] = a[j],
         Len(b) > 5, Len(b) = Stages(b)[3]
  PROVE  ~Accepts(b)
<1> DEFINE n == Len(p.payload)
           c == Header(0, p) \o p.payload
           e == Encoded(p)
           q == SubSeq(b, 1, Len(b) - 1)
           t == [q EXCEPT ![2] = 0]
<1>1. /\ p \in Sendable /\ n \in Words /\ c \in Seq(Words) /\ Len(c) = n + 5
      /\ e \in Seq(Unit) /\ Len(e) = n + 6
  BY SentIs
<1>2. /\ e[2] = Crc(c) /\ e[5] = n /\ e[n + 6] = PACKET_TERMINATOR
  BY <1>1, EncodedUnits
<1>3. \A i \in 1..(n + 5) : i # 2 => e[i] = c[i] /\ c[i] \in Words
  BY SummedUnits
<1>4. n \in Nat
  BY <1>1, WordFacts
<1>5. PICK j \in DOMAIN e, u \in Words : u # e[j] /\ a = [e EXCEPT ![j] = u]
  BY DEF Altered
<1>6. Accepts(b) <=> b[Len(b)] = PACKET_TERMINATOR /\ Crc(t) = b[2]
  BY DEF Accepts
<1>7. b \in Seq(Nat) /\ b[5] \in Nat
  <2>1. b \in Seq(Nat)
    BY UnitIsNat
  <2> QED BY <2>1
<1>8. Len(b) = 6 + b[5]
  <2>1. Stages(b) = <<5>> \o <<5 + b[5], 6 + b[5]>>
    BY DEF Stages
  <2> QED BY <1>7, <2>1
<1> SUFFICES ASSUME Accepts(b) PROVE FALSE
  OBVIOUS
<1> HIDE DEF n, c, e
<1>l. PICK l \in Nat : Len(b) = 6 + l
  BY <1>7, <1>8
<1>9. /\ Len(a) = n + 6 /\ j \in 1..(n + 6) /\ a[j] = u
      /\ \A i \in 1..(n + 6) : i # j => a[i] = e[i]
  BY <1>1, <1>4, <1>5
<1>10. /\ q \in Seq(Nat) /\ Len(q) = 5 + l /\ \A i \in 1..(5 + l) : q[i] = b[i]
  <2>1. Len(b) - 1 = 5 + l
    BY <1>l
  <2> QED BY <1>7, <1>l, <2>1
<1> HIDE DEF q
<1>11. /\ t \in Seq(Nat) /\ Len(t) = 5 + l /\ t[2] = 0 /\ t # <<>>
       /\ \A i \in 1..(5 + l) : i # 2 => t[i] = b[i]
  <2> DEFINE m == 5 + l
  <2>1. m \in Nat /\ 2 \in 1..m
    BY <1>l
  <2> HIDE DEF m
  <2>2. q \in Seq(Nat) /\ Len(q) = m /\ \A i \in 1..m : q[i] = b[i]
    BY <1>10 DEF m
  <2>3. /\ t \in Seq(Nat) /\ Len(t) = m /\ t[2] = 0
        /\ \A i \in 1..m : i # 2 => t[i] = b[i]
    BY <2>1, <2>2
  <2>4. t # <<>>
    BY <2>1, <2>3
  <2> QED BY <2>3, <2>4 DEF m
<1> HIDE DEF t
<1>12. b[2] = a[2]
  BY <1>4, <1>l, <1>9
<1>13. j # 2
  <2>1. Crc(t) \notin Words
    BY <1>11, Tells DEF CrcTells
  <2> QED BY <1>6, <1>9, <1>12, <2>1
<1>14. Crc(c) = Crc(t)
  BY <1>2, <1>4, <1>6, <1>9, <1>12, <1>13
<1>15. CASE Len(t) > Len(c)
  <2>1. c = t
    BY <1>1, <1>11, <1>14, <1>15, Tells DEF CrcTells
  <2> QED BY <1>1, <1>4, <1>15, <2>1
<1>16. CASE ~(Len(t) > Len(c))
  <2>1. 5 + l <= n + 5
    BY <1>1, <1>4, <1>l, <1>11, <1>16
  <2>2. \A i \in 1..(5 + l) : i # 2 => t[i] = a[i] /\ a[i] \in Words
    <3> SUFFICES ASSUME NEW i \in 1..(5 + l), i # 2 PROVE t[i] = a[i] /\ a[i] \in Words
      OBVIOUS
    <3>1. i \in 1..(n + 5) /\ i \in 1..(n + 6)
      BY <1>4, <1>l, <2>1
    <3>2. t[i] = a[i]
      BY <1>4, <1>l, <1>9, <1>11, <3>1
    <3>3. a[i] \in Words
      BY <1>3, <1>9, <3>1
    <3> QED BY <3>2, <3>3
  <2>3. t \in Seq(Words)
    <3>1. \A i \in 1..Len(t) : t[i] \in Words
      BY <1>11, <2>2, WordFacts
    <3> QED BY <1>11, <3>1
  <2>4. c = t
    BY <1>1, <1>11, <1>14, <2>3, Tells DEF CrcTells
  <2>5. l = n
    BY <1>1, <1>4, <1>l, <1>11, <2>4
  <2>6. CASE j = n + 6
    BY <1>2, <1>4, <1>5, <1>6, <1>l, <1>9, <2>5, <2>6
  <2>7. CASE j # n + 6
    <3>1. j \in 1..(n + 5)
      BY <1>4, <1>9, <2>7
    <3>2. t[j] = u /\ c[j] = e[j]
      BY <1>3, <1>9, <1>13, <2>2, <2>5, <3>1
    <3> QED BY <1>5, <2>4, <3>2
  <2> QED BY <2>6, <2>7
<1> QED BY <1>15, <1>16

\* The reader, with the beginning b of what is ahead, is in the first packet it has not received.
LEMMA FirstOf ==
  ASSUME Types, Done <= Len(sent), NEW at, NEW blk, LaidOut(at, blk), NEW b \in Seq(Unit),
         b # <<>>, Len(b) <= Len(Ahead), \A j \in 1..Len(b) : b[j] = Ahead[j]
  PROVE  /\ Done + 1 \in 1..Len(sent) /\ PutAs(Done + 1, blk[Done + 1]) /\ sent[Done + 1] \in Sent
         /\ blk[Done + 1] \in Seq(Unit) /\ Len(blk[Done + 1]) <= Len(Ahead)
         /\ Len(Ahead) \in Nat /\ at[Done + 2] = at[Done + 1] + Len(blk[Done + 1])
         /\ at[Done + 1] \in Nat
         /\ \A j \in 1..Len(b) : j <= Len(blk[Done + 1]) => b[j] = blk[Done + 1][j]
<1> DEFINE k == Done + 1
           m == Len(sent)
<1>1. Done \in Nat /\ m \in Nat /\ Done <= m /\ sent \in Seq(Sent)
  BY DEF Types, Done
<1>2. Len(b) \in Nat /\ Len(b) > 0
  OBVIOUS
<1>3. /\ at \in [1..(m + 1) -> Nat] /\ Len(Ahead) = at[m + 1] - at[k]
      /\ \A i, j \in 1..(m + 1) : i <= j => at[i] <= at[j]
      /\ \A i \in 1..m : PutAs(i, blk[i]) /\ at[i + 1] = at[i] + Len(blk[i])
      /\ \A i \in k..m : \A j \in 1..Len(blk[i]) : Ahead[(at[i] - at[k]) + j] = blk[i][j]
  BY DEF LaidOut
<1> HIDE DEF m
<1>4. k \in 1..(m + 1) /\ at[k] \in Nat /\ at[m + 1] \in Nat
  BY <1>1, <1>3
<1>5. k # m + 1
  <2> SUFFICES ASSUME k = m + 1 PROVE FALSE
    OBVIOUS
  <2>1. Len(Ahead) = 0
    BY <1>3, <1>4
  <2> QED BY <1>2, <2>1
<1>6. k \in 1..m /\ k + 1 \in 1..(m + 1)
  BY <1>1, <1>4, <1>5
<1>7. PutAs(k, blk[k]) /\ at[k + 1] = at[k] + Len(blk[k])
  BY <1>3, <1>6
<1>8. blk[k] \in Seq(Unit) /\ Len(blk[k]) \in Nat
  BY <1>1, <1>6, <1>7, PutIs DEF m
<1>9. at[k + 1] <= at[m + 1]
  BY <1>1, <1>3, <1>4, <1>6
<1>10. Len(Ahead) \in Nat /\ Len(blk[k]) <= Len(Ahead)
  BY <1>3, <1>4, <1>7, <1>8, <1>9
<1>11. \A j \in 1..Len(b) : j <= Len(blk[k]) => b[j] = blk[k][j]
  <2> SUFFICES ASSUME NEW j \in 1..Len(b), j <= Len(blk[k]) PROVE b[j] = blk[k][j]
    OBVIOUS
  <2>1. j \in 1..Len(blk[k]) /\ k \in k..m
    BY <1>1, <1>2, <1>6, <1>8
  <2>2. Ahead[(at[k] - at[k]) + j] = blk[k][j]
    BY <1>3, <2>1
  <2>3. (at[k] - at[k]) + j = j
    BY <1>2, <1>4
  <2> QED BY <2>2, <2>3
<1>12. k + 1 = Done + 2 /\ sent[k] \in Sent
  BY <1>1, <1>6 DEF m
<1> QED BY <1>4, <1>6, <1>7, <1>8, <1>10, <1>11, <1>12 DEF m

\* The length field is a number, and where the read under way ends.
LEMMA FifthIsNat ==
  ASSUME Types, Done <= Len(sent), Told, NEW at, NEW blk, LaidOut(at, blk), NEW b \in Seq(Unit),
         Len(b) >= 5, Len(b) <= Len(Ahead), \A j \in 1..Len(b) : b[j] = Ahead[j]
  PROVE  b[5] \in Nat
<1> DEFINE k == Done + 1
<1>1. b # <<>> /\ 5 \in 1..Len(b)
  OBVIOUS
<1>2. /\ PutAs(k, blk[k]) /\ sent[k] \in Sent
      /\ \A j \in 1..Len(b) : j <= Len(blk[k]) => b[j] = blk[k][j]
  BY <1>1, FirstOf
<1> HIDE DEF k
<1>3. CASE fault = "corrupt" /\ k \in spoilt
  BY <1>1, UnitIsNat
<1>4. CASE ~(fault = "corrupt" /\ k \in spoilt)
  <2>1. blk[k] = Encoded(sent[k])
    BY <1>2, <1>4 DEF PutAs
  <2>2. b[5] = Len(sent[k].payload)
    BY SMTT(30), <1>2, <2>1, IntactRead
  <2> QED BY <1>2, <2>2, SentIs, WordFacts
<1> QED BY <1>3, <1>4

LEMMA TargetIs ==
  ASSUME NEW b \in Seq(Unit), Len(b) >= 5 => b[5] \in Nat, Len(b) > 5 => Len(b) <= 5 + b[5]
  PROVE  /\ Target(b) \in Nat /\ Target(b) > Len(b)
         /\ Len(b) < 5 => Target(b) = 5
         /\ Len(b) >= 5 => Target(b) <= 6 + b[5]
<1> DEFINE Ends(i) == /\ Len(b) < Stages(b)[i]
                      /\ \A j \in 1..(i - 1) : Stages(b)[j] <= Len(b)
           i == CHOOSE i \in DOMAIN Stages(b) : Ends(i)
<1>1. Target(b) = Stages(b)[i]
  BY DEF Target
<1>2. Len(b) \in Nat
  OBVIOUS
<1>3. CASE Len(b) < 5
  <2>1. Stages(b) = <<5>> \o <<>>
    BY <1>3 DEF Stages
  <2>2. DOMAIN Stages(b) = {1} /\ Stages(b)[1] = 5
    BY <2>1
  <2>3. Ends(1)
    BY <1>2, <1>3, <2>2
  <2> HIDE DEF Ends
  <2>4. i \in DOMAIN Stages(b)
    BY <2>2, <2>3
  <2> HIDE DEF i
  <2> QED BY <1>1, <1>2, <1>3, <2>2, <2>4
<1>4. CASE Len(b) >= 5
  <2>1. PICK l \in Nat : b[5] = l
    BY <1>4
  <2>2. Stages(b) = <<5>> \o <<5 + l, 6 + l>>
    BY <1>2, <1>4, <2>1 DEF Stages
  <2>3. /\ DOMAIN Stages(b) = 1..3 /\ Stages(b)[1] = 5 /\ Stages(b)[2] = 5 + l
        /\ Stages(b)[3] = 6 + l
    BY <2>2
  <2>4. \E r \in 1..3 : Ends(r)
    <3>1. CASE Len(b) < 5 + l
      <4>1. Ends(2)
        BY <1>2, <1>4, <2>3, <3>1
      <4> QED BY <4>1
    <3>2. CASE ~(Len(b) < 5 + l)
      <4>1. Len(b) < 6 + l
        BY <1>2, <1>4, <2>1, <3>2
      <4>2. Ends(3)
        BY <1>2, <1>4, <2>3, <3>2, <4>1
      <4> QED BY <4>2
    <3> QED BY <3>1, <3>2
  <2> HIDE DEF Ends
  <2>5. i \in 1..3 /\ Ends(i)
    BY <2>3, <2>4
  <2> HIDE DEF i
  <2>6. Len(b) < Stages(b)[i]
    BY <2>5 DEF Ends
  <2>7. i # 1
    BY <1>2, <1>4, <2>3, <2>6
  <2> QED BY <1>1, <1>2, <1>4, <2>1, <2>3, <2>5, <2>6, <2>7
<1> QED BY <1>2, <1>3, <1>4

LEMMA RestIs ==
  ASSUME Types
  PROVE  /\ Rest \in Seq(Unit) /\ Len(buf) \in Nat /\ Len(wire) \in Nat /\ Len(Rest) \in Nat
         /\ Ahead \in Seq(Unit) /\ Len(Ahead) = (Len(buf) + Len(wire)) + Len(Rest)
         /\ \A j \in 1..Len(buf) : Ahead[j] = buf[j]
<1>1. buf \in Seq(Unit) /\ wire \in Seq(Unit) /\ Rest \in Seq(Unit)
  BY DEF Types, Rest
<1> QED BY <1>1 DEF Ahead

\* A packet as it is read, of those that are sent.
LEMMA AsReadIs ==
  ASSUME NEW p \in Sent
  PROVE  AsRead(p) \in AllPackets
<1>1. /\ p.payload \in Payloads /\ p.id \in 0..WordLimit /\ p.reply \in BOOLEAN
      /\ IdField(p) < WordLimit
  BY DEF Sent, AllPackets, Fits
<1>2. IdField(p) \in Nat
  BY <1>1, WordFacts DEF IdField
<1> DEFINE id == IF IdField(p) >= REPLY_BIT THEN IdField(p) - REPLY_BIT ELSE IdField(p)
<1>3. id \in 0..WordLimit
  BY <1>1, <1>2, WordFacts
<1>4. (IdField(p) >= REPLY_BIT) \in BOOLEAN
  BY <1>2, WordFacts
<1> HIDE DEF id
<1>5. AsRead(p) = [id |-> id, reply |-> IdField(p) >= REPLY_BIT, payload |-> p.payload]
  BY DEF AsRead, Packet, id
<1> QED BY <1>1, <1>3, <1>4, <1>5 DEF AllPackets

\* What is ahead without its first packet.
LEMMA TakenOff ==
  ASSUME Types, Done <= Len(sent), NEW at, NEW blk, LaidOut(at, blk), Done + 1 \in 1..Len(sent),
         NEW b \in Seq(Unit), NEW r \in Seq(Unit), Len(b) = Len(blk[Done + 1]),
         Len(Ahead) = Len(b) + Len(r), \A i \in 1..Len(r) : Ahead[Len(b) + i] = r[i],
         Ahead' = r, Done' = Done + 1, UNCHANGED <<sent, spoilt, fault>>
  PROVE  LaidOut(at, blk)'
<1> DEFINE k == Done + 1
           m == Len(sent)
<1>1. Done \in Nat /\ m \in Nat /\ k \in 1..m
  BY DEF Types, Done
<1>2. /\ at \in [1..(m + 1) -> Nat] /\ Len(Ahead) = at[m + 1] - at[k]
      /\ \A i, j \in 1..(m + 1) : i <= j => at[i] <= at[j]
      /\ \A i \in 1..m : PutAs(i, blk[i]) /\ at[i + 1] = at[i] + Len(blk[i])
      /\ \A i \in k..m : \A j \in 1..Len(blk[i]) : Ahead[(at[i] - at[k]) + j] = blk[i][j]
  BY DEF LaidOut
<1> HIDE DEF m, k
<1>3. k \in 1..(m + 1) /\ k + 1 \in 1..(m + 1) /\ m + 1 \in 1..(m + 1)
  BY <1>1
<1>4. at[k] \in Nat /\ at[k + 1] \in Nat /\ at[m + 1] \in Nat
  BY <1>2, <1>3
<1>5. at[k + 1] = at[k] + Len(b) /\ Len(b) \in Nat /\ Len(r) \in Nat
  <2>1. Len(b) = Len(blk[k])
    BY DEF k
  <2>2. at[k + 1] = at[k] + Len(blk[k])
    BY <1>1, <1>2
  <2> QED BY <2>1, <2>2
<1>6. /\ Len(Ahead) = Len(b) + Len(r)
      /\ \A i \in 1..Len(r) : Ahead[Len(b) + i] = r[i]
  OBVIOUS
<1>7. Len(r) = at[m + 1] - at[k + 1]
  <2>1. at[m + 1] - at[k] = Len(b) + Len(r)
    BY <1>2, <1>6
  <2> DEFINE x == at[m + 1]  y == at[k]  z == at[k + 1]  u == Len(b)  v == Len(r)
  <2>2. x \in Nat /\ y \in Nat /\ z = y + u /\ u \in Nat /\ v \in Nat /\ x - y = u + v
    BY <1>4, <1>5, <2>1
  <2> HIDE DEF x, y, z, u, v
  <2>3. v = x - z
    BY <2>2
  <2> QED BY <2>3 DEF v, x, z
<1>8. \A i \in (k + 1)..m : \A j \in 1..Len(blk[i]) : r[(at[i] - at[k + 1]) + j] = blk[i][j]
  <2> SUFFICES ASSUME NEW i \in (k + 1)..m, NEW j \in 1..Len(blk[i])
               PROVE  r[(at[i] - at[k + 1]) + j] = blk[i][j]
    OBVIOUS
  <2>1. /\ i \in k..m /\ i \in 1..m /\ i + 1 \in 1..(m + 1) /\ i \in 1..(m + 1)
        /\ k + 1 <= i /\ i + 1 <= m + 1
    BY <1>1
  <2>2. at[i] \in Nat /\ at[i + 1] \in Nat /\ at[k + 1] <= at[i] /\ at[i + 1] <= at[m + 1]
    BY <1>2, <1>3, <2>1
  <2>3. PutAs(i, blk[i]) /\ at[i + 1] = at[i] + Len(blk[i])
    BY <1>2, <2>1
  <2>4. Len(blk[i]) \in Nat
    BY <2>1, <2>3, PutIs DEF Types, m
  <2>5. Ahead[(at[i] - at[k]) + j] = blk[i][j]
    BY <1>2, <2>1
  <2> DEFINE a == at[k]  c == at[k + 1]  d == at[i]  f == at[i + 1]  g == at[m + 1]
             h == Len(blk[i])  l == Len(b)  n == Len(r)
  <2>6. /\ a \in Nat /\ c \in Nat /\ d \in Nat /\ f \in Nat /\ g \in Nat /\ h \in Nat /\ l \in Nat
        /\ n \in Nat /\ j \in 1..h
        /\ c = a + l /\ c <= d /\ f = d + h /\ f <= g /\ n = g - c
    BY <1>4, <1>5, <1>7, <2>2, <2>3, <2>4
  <2> HIDE DEF a, c, d, f, g, h, l, n
  <2>7. (d - c) + j \in 1..n /\ l + ((d - c) + j) = (d - a) + j
    BY <2>6
  <2> QED BY <1>6, <2>5, <2>7 DEF a, c, d, l, n
<1>9. \A i \in 1..m : PutAs(i, blk[i])'
  BY <1>2 DEF PutAs
<1>10. /\ m' = m /\ Done' + 1 = k + 1
  BY DEF m, k
<1> QED BY SMTT(30), <1>2, <1>7, <1>8, <1>9, <1>10 DEF LaidOut, m

\* Told is not found out later.
LEMMA ToldBefore ==
  ASSUME fault' = fault, spoilt \subseteq spoilt', Told'
  PROVE  Told
BY DEF Told

\* A read, as far as it comes: with a packet that is all there it is a packet that was sent, the
\* next one, or an altered one, which is not taken for anything.
LEMMA ReadTells ==
  ASSUME Told, Types, PlaceInv, Read
  PROVE  \E at, blk : \E b \in Seq(Unit), y \in Seq(Unit) :
           /\ b # <<>> /\ LaidOut(at, blk) /\ reader = "reading"
           /\ wire' = y /\ Len(y) <= Len(wire) /\ b \o y = buf \o wire
           /\ Len(b) >= 5 => b[5] \in Nat
           /\ Len(b) > 5 => Len(b) <= 6 + b[5]
           /\ LET complete == Len(b) > 5 /\ Len(b) = Stages(b)[3]
                  bad == \/ Len(b) = 5 /\ b[1] # PACKET_MAGIC
                         \/ complete /\ ~Accepts(b)
              IN  /\ reader' = IF bad THEN "error" ELSE "reading"
                  /\ buf' = IF complete \/ bad THEN <<>> ELSE b
                  /\ received' = IF complete /\ ~bad THEN Append(received, Decoded(b)) ELSE received
<1>1. reader = "reading"
  BY DEF Read
<1>2. PICK at, blk : LaidOut(at, blk)
  BY <1>1 DEF PlaceInv
<1>3. Done <= Len(sent) /\ (Len(buf) > 5 => Len(buf) <= 5 + buf[5])
  BY DEF PlaceInv
<1>4. /\ buf \in Seq(Unit) /\ wire \in Seq(Unit) /\ Rest \in Seq(Unit)
      /\ Len(buf) \in Nat /\ Len(wire) \in Nat /\ Len(Rest) \in Nat
      /\ Ahead \in Seq(Unit) /\ Len(Ahead) = (Len(buf) + Len(wire)) + Len(Rest)
      /\ \A j \in 1..Len(buf) : Ahead[j] = buf[j]
  BY RestIs DEF Types
<1>5. Len(buf) >= 5 => buf[5] \in Nat
  <2>1. Len(buf) <= Len(Ahead)
    BY <1>4
  <2> QED BY <1>2, <1>3, <1>4, <2>1, FifthIsNat
<1>6. /\ Target(buf) \in Nat /\ Target(buf) > Len(buf)
      /\ Len(buf) < 5 => Target(buf) = 5
      /\ Len(buf) >= 5 => Target(buf) <= 6 + buf[5]
  BY <1>3, <1>4, <1>5, TargetIs
<1>7. PICK n \in 1..Smaller(Len(wire), Target(buf) - Len(buf)) :
        LET b == buf \o SubSeq(wire, 1, n)
            complete == Len(b) > 5 /\ Len(b) = Stages(b)[3]
            bad == \/ Len(b) = 5 /\ b[1] # PACKET_MAGIC
                   \/ complete /\ ~Accepts(b)
        IN /\ wire' = SubSeq(wire, n + 1, Len(wire))
           /\ reader' = IF bad THEN "error" ELSE "reading"
           /\ buf' = IF complete \/ bad THEN <<>> ELSE b
           /\ received' = IF complete /\ ~bad THEN Append(received, Decoded(b)) ELSE received
  BY DEF Read
<1>8. n \in Nat /\ n >= 1 /\ n <= Len(wire) /\ Len(buf) + n <= Target(buf)
  BY SMTT(30), <1>4, <1>6 DEF Smaller
<1> DEFINE x == SubSeq(wire, 1, n)
           y == SubSeq(wire, n + 1, Len(wire))
           b == buf \o x
<1>9. x \in Seq(Unit) /\ y \in Seq(Unit) /\ Len(x) = n /\ Len(y) = Len(wire) - n /\ x \o y = wire
  BY <1>4, <1>8, SplitAt
<1> HIDE DEF x, y
<1>10. /\ b \in Seq(Unit) /\ Len(b) = Len(buf) + n /\ b # <<>> /\ b \o y = buf \o wire
       /\ \A j \in 1..Len(buf) : b[j] = buf[j]
  <2>1. b \in Seq(Unit) /\ Len(b) = Len(buf) + Len(x) /\ \A j \in 1..Len(buf) : b[j] = buf[j]
    <3>1. buf \in Seq(Unit) /\ x \in Seq(Unit)
      BY <1>4, <1>9
    <3> QED BY <3>1, Joined
  <2>2. b # <<>>
    BY <1>4, <1>8, <1>9, <2>1
  <2>3. (buf \o x) \o y = buf \o (x \o y)
    <3>1. buf \in Seq(Unit) /\ x \in Seq(Unit) /\ y \in Seq(Unit)
      BY <1>4, <1>9
    <3> QED BY SMTT(30), <3>1, Regrouped
  <2>4. b \o y = buf \o wire
    BY <1>9, <2>3
  <2>5. Len(b) = Len(buf) + n
    BY <1>9, <2>1
  <2> QED BY <2>1, <2>2, <2>4, <2>5
<1> HIDE DEF b
<1>11. /\ Len(b) <= Len(Ahead) /\ \A j \in 1..Len(b) : Ahead[j] = b[j]
  <2>1. Ahead = (b \o y) \o Rest
    BY <1>10 DEF Ahead
  <2>2. \A j \in 1..Len(b) : ((b \o y) \o Rest)[j] = b[j]
    BY SMTT(30), <1>4, <1>9, <1>10
  <2>3. Len(b) <= Len(Ahead)
    BY <1>4, <1>8, <1>10
  <2> QED BY <2>1, <2>2, <2>3
<1>12. Len(b) >= 5 => b[5] \in Nat
  BY <1>2, <1>3, <1>10, <1>11, FifthIsNat
<1>13. Len(b) > 5 => Len(b) <= 6 + b[5]
  <2>1. CASE Len(buf) < 5
    BY <1>4, <1>6, <1>8, <1>10, <2>1
  <2>2. CASE Len(buf) >= 5
    BY SMTT(30), <1>4, <1>5, <1>6, <1>8, <1>10, <2>2
  <2> QED BY <1>4, <2>1, <2>2
<1>14. Len(y) <= Len(wire)
  BY <1>4, <1>8, <1>9
<1> QED BY <1>1, <1>2, <1>7, <1>9, <1>10, <1>12, <1>13, <1>14 DEF x, y, b

\* What is ahead, the beginning b of it apart.
LEMMA ReadPlace ==
  ASSUME Types, NEW b \in Seq(Unit), NEW y \in Seq(Unit)
  PROVE  b \o y = buf \o wire =>
         /\ y \o Rest \in Seq(Unit) /\ Len(b) \in Nat /\ Len(y) \in Nat /\ Len(Rest) \in Nat
         /\ Len(y \o Rest) = Len(y) + Len(Rest) /\ Len(Ahead) = Len(b) + Len(y \o Rest)
         /\ Ahead = b \o (y \o Rest)
         /\ \A j \in 1..Len(b) : b[j] = Ahead[j]
         /\ \A i \in 1..Len(y \o Rest) : Ahead[Len(b) + i] = (y \o Rest)[i]
<1>1. Rest \in Seq(Unit) /\ Len(Rest) \in Nat
  BY RestIs
<1>2. y \o Rest \in Seq(Unit) /\ Len(y) \in Nat /\ Len(y \o Rest) = Len(y) + Len(Rest)
  BY <1>1, Joined
<1> DEFINE r == y \o Rest
<1>r. (b \o y) \o Rest = b \o r
  BY SMTT(30), <1>1, Regrouped
<1> SUFFICES ASSUME b \o y = buf \o wire
             PROVE  /\ r \in Seq(Unit) /\ Len(b) \in Nat /\ Len(y) \in Nat /\ Len(Rest) \in Nat
                    /\ Len(r) = Len(y) + Len(Rest) /\ Len(Ahead) = Len(b) + Len(r)
                    /\ Ahead = b \o r
                    /\ \A j \in 1..Len(b) : b[j] = Ahead[j]
                    /\ \A i \in 1..Len(r) : Ahead[Len(b) + i] = r[i]
  OBVIOUS
<1> HIDE DEF r
<1>3. Ahead = b \o r
  BY <1>r DEF Ahead
<1>4. /\ Len(b) \in Nat /\ Len(b \o r) = Len(b) + Len(r)
      /\ \A j \in 1..Len(b) : (b \o r)[j] = b[j]
      /\ \A i \in 1..Len(r) : (b \o r)[Len(b) + i] = r[i]
  <2>1. r \in Seq(Unit)
    BY <1>2 DEF r
  <2> QED BY <2>1, Joined
<1> QED BY <1>1, <1>2, <1>3, <1>4 DEF r

\* What the reader makes of the packet it is in, when it has come as far as b.
LEMMA ReadDecides ==
  ASSUME Told, Types, PlaceInv, reader = "reading", NEW at, NEW blk, LaidOut(at, blk),
         NEW b \in Seq(Unit), NEW y \in Seq(Unit), b # <<>>, b \o y = buf \o wire,
         Len(b) >= 5 => b[5] \in Nat
  PROVE  LET k == Done + 1
             complete == Len(b) > 5 /\ Len(b) = Stages(b)[3]
             bad == \/ Len(b) = 5 /\ b[1] # PACKET_MAGIC
                    \/ complete /\ ~Accepts(b)
         IN  /\ k \in 1..Len(sent) /\ sent[k] \in Sent /\ Len(b) \in Nat
             /\ complete => Len(b) = 6 + b[5]
             /\ Len(b) > 5 /\ ~complete => Len(b) # 6 + b[5]
             /\ bad => fault = "corrupt" /\ k \in spoilt
             /\ complete /\ ~bad =>
                  k \notin spoilt /\ Len(b) = Len(blk[k]) /\ Decoded(b) = AsRead(sent[k])
<1> DEFINE k == Done + 1
           complete == Len(b) > 5 /\ Len(b) = Stages(b)[3]
           bad == \/ Len(b) = 5 /\ b[1] # PACKET_MAGIC
                  \/ complete /\ ~Accepts(b)
<1>1. /\ Len(b) \in Nat /\ Len(Ahead) \in Nat /\ Len(b) <= Len(Ahead)
      /\ \A j \in 1..Len(b) : b[j] = Ahead[j]
      /\ Rest # <<>> => Len(b) < Len(Ahead)
  <2>1. /\ Len(b) \in Nat /\ Len(y) \in Nat /\ Len(Rest) \in Nat
        /\ Len(Ahead) = Len(b) + (Len(y) + Len(Rest))
        /\ \A j \in 1..Len(b) : b[j] = Ahead[j]
    BY ReadPlace
  <2>2. Rest # <<>> => Len(Rest) > 0
    BY RestIs
  <2> QED BY <2>1, <2>2
<1>2. /\ k \in 1..Len(sent) /\ PutAs(k, blk[k]) /\ sent[k] \in Sent
      /\ blk[k] \in Seq(Unit) /\ at[k + 1] = at[k] + Len(blk[k]) /\ at[k] \in Nat
      /\ \A j \in 1..Len(b) : j <= Len(blk[k]) => b[j] = blk[k][j]
  <2>1. Done <= Len(sent)
    BY DEF PlaceInv
  <2>2. Done \in Nat /\ Done + 2 = (Done + 1) + 1
    BY DEF Types, Done
  <2> QED BY <1>1, <2>1, <2>2, FirstOf
<1>3. Len(b) >= 5 => Stages(b)[3] = 6 + b[5]
  <2> SUFFICES ASSUME Len(b) >= 5 PROVE Stages(b)[3] = 6 + b[5]
    OBVIOUS
  <2>1. Stages(b) = <<5>> \o <<5 + b[5], 6 + b[5]>>
    BY SMTT(30), <1>1 DEF Stages
  <2> QED BY <2>1
<1>4. /\ complete => Len(b) = 6 + b[5]
      /\ Len(b) > 5 /\ ~complete => Len(b) # 6 + b[5]
  BY <1>1, <1>3
<1>5. CASE fault = "corrupt" /\ k \in spoilt
  <2>1. Altered(sent[k], blk[k])
    BY <1>2, <1>5 DEF PutAs
  <2>2. complete => ~Accepts(b)
    BY <1>2, <2>1, AlteredRead
  <2> QED BY <1>1, <1>2, <1>4, <1>5, <2>2
<1>6. CASE ~(fault = "corrupt" /\ k \in spoilt)
  <2>1. blk[k] = Encoded(sent[k])
    BY <1>2, <1>6 DEF PutAs
  <2> DEFINE p == sent[k]
             e == Encoded(p)
             n == Len(p.payload)
  <2>2. /\ Len(b) >= 5 => b[1] = PACKET_MAGIC /\ b[5] = n
        /\ Len(b) = Len(e) => b = e
    BY SMTT(30), <1>2, <2>1, IntactRead
  <2>3. p \in Sendable /\ n \in Nat /\ Len(e) = n + 6
    BY <1>2, SentIs, WordFacts
  <2>4. Accepts(e) /\ Decoded(e) = AsRead(p)
    BY <2>3, ReadBack
  <2> HIDE DEF e, n, p
  <2>5. complete => b = e
    BY <1>1, <1>4, <2>2, <2>3
  <2>6. ~bad
    <3>1. ~(Len(b) = 5 /\ b[1] # PACKET_MAGIC)
      <4>1. Len(b) = 5 => Len(b) >= 5
        BY <1>1
      <4> QED BY <2>2, <4>1, Zenon
    <3>2. ~(complete /\ ~Accepts(b))
      BY <2>4, <2>5, Zenon
    <3> QED BY <3>1, <3>2
  <2>7. complete => k \notin spoilt
    <3> SUFFICES ASSUME complete, k \in spoilt PROVE FALSE
      OBVIOUS
    <3>1. Rest # <<>> /\ spoilt = {Len(sent)}
      BY <1>6 DEF PlaceInv
    <3>2. k = Len(sent)
      BY <3>1
    <3>3. Len(Ahead) = at[k + 1] - at[k]
      BY <3>2 DEF LaidOut
    <3>4. Len(Ahead) = Len(b)
      <4>1. blk[k] = b
        BY <2>1, <2>5 DEF e, p
      <4> QED BY SMTT(30), <1>1, <1>2, <3>3, <4>1
    <3> QED BY <1>1, <3>1, <3>4
  <2>8. complete => Len(b) = Len(blk[k]) /\ Decoded(b) = AsRead(sent[k])
    BY <2>1, <2>4, <2>5 DEF e, p
  <2> QED BY <1>1, <1>2, <1>4, <2>6, <2>7, <2>8
<1> QED BY <1>5, <1>6

LEMMA LaidSame ==
  ASSUME NEW at, NEW blk, LaidOut(at, blk), Ahead' = Ahead, Done' = Done,
         UNCHANGED <<sent, fault>>, fault = "corrupt" => UNCHANGED spoilt
  PROVE  LaidOut(at, blk)'
<1> DEFINE a == Ahead
           d == Done
<1>1. a' = a /\ d' = d
  OBVIOUS
<1>2. /\ at \in [1..(Len(sent) + 1) -> Nat]
      /\ \A i, j \in 1..(Len(sent) + 1) : i <= j => at[i] <= at[j]
      /\ \A i \in 1..Len(sent) : PutAs(i, blk[i]) /\ at[i + 1] = at[i] + Len(blk[i])
      /\ Len(a) = at[Len(sent) + 1] - at[d + 1]
      /\ \A i \in (d + 1)..Len(sent) : \A j \in 1..Len(blk[i]) :
           a[(at[i] - at[d + 1]) + j] = blk[i][j]
  BY DEF LaidOut
<1>3. \A i \in 1..Len(sent) : PutAs(i, blk[i])'
  BY <1>2 DEF PutAs
<1> HIDE DEF a, d
<1>4. /\ Len(a') = at[Len(sent') + 1] - at[d' + 1]
      /\ \A i \in (d' + 1)..Len(sent') : \A j \in 1..Len(blk[i]) :
           a'[(at[i] - at[d' + 1]) + j] = blk[i][j]
  BY <1>1, <1>2
<1> QED BY <1>2, <1>3, <1>4 DEF LaidOut, a, d

\* The next packet is received, or none.
Receives ==
  \/ received' = received
  \/ Done + 1 \in DOMAIN sent \ spoilt /\ received' = Append(received, AsRead(sent[Done + 1]))

LEMMA ReadKeeps ==
  ASSUME Told, Types, PlaceInv, EndInv, Read
  PROVE  Types' /\ PlaceInv' /\ EndInv' /\ Receives
<1> DEFINE k == Done + 1
<1>0. PICK at, blk : \E b \in Seq(Unit), y \in Seq(Unit) :
        /\ b # <<>> /\ LaidOut(at, blk) /\ reader = "reading"
        /\ wire' = y /\ Len(y) <= Len(wire) /\ b \o y = buf \o wire
        /\ Len(b) >= 5 => b[5] \in Nat
        /\ Len(b) > 5 => Len(b) <= 6 + b[5]
        /\ LET complete == Len(b) > 5 /\ Len(b) = Stages(b)[3]
               bad == \/ Len(b) = 5 /\ b[1] # PACKET_MAGIC
                      \/ complete /\ ~Accepts(b)
           IN  /\ reader' = IF bad THEN "error" ELSE "reading"
               /\ buf' = IF complete \/ bad THEN <<>> ELSE b
               /\ received' = IF complete /\ ~bad THEN Append(received, Decoded(b)) ELSE received
  BY ReadTells
<1>1. PICK b \in Seq(Unit), y \in Seq(Unit) :
        /\ b # <<>> /\ LaidOut(at, blk) /\ reader = "reading"
        /\ wire' = y /\ Len(y) <= Len(wire) /\ b \o y = buf \o wire
        /\ Len(b) >= 5 => b[5] \in Nat
        /\ Len(b) > 5 => Len(b) <= 6 + b[5]
        /\ LET complete == Len(b) > 5 /\ Len(b) = Stages(b)[3]
               bad == \/ Len(b) = 5 /\ b[1] # PACKET_MAGIC
                      \/ complete /\ ~Accepts(b)
           IN  /\ reader' = IF bad THEN "error" ELSE "reading"
               /\ buf' = IF complete \/ bad THEN <<>> ELSE b
               /\ received' = IF complete /\ ~bad THEN Append(received, Decoded(b)) ELSE received
  BY <1>0
<1> DEFINE complete == Len(b) > 5 /\ Len(b) = Stages(b)[3]
           bad == \/ Len(b) = 5 /\ b[1] # PACKET_MAGIC
                  \/ complete /\ ~Accepts(b)
<1>2. /\ k \in 1..Len(sent) /\ sent[k] \in Sent /\ Len(b) \in Nat
      /\ complete => Len(b) = 6 + b[5]
      /\ Len(b) > 5 /\ ~complete => Len(b) # 6 + b[5]
      /\ bad => fault = "corrupt" /\ k \in spoilt
      /\ complete /\ ~bad => k \notin spoilt /\ Len(b) = Len(blk[k]) /\ Decoded(b) = AsRead(sent[k])
  BY <1>1, ReadDecides
<1>3. /\ reader' = IF bad THEN "error" ELSE "reading"
      /\ buf' = IF complete \/ bad THEN <<>> ELSE b
      /\ received' = IF complete /\ ~bad THEN Append(received, Decoded(b)) ELSE received
  BY <1>1
<1> HIDE DEF complete, bad
<1>4. UNCHANGED <<fault, lock, out, nextId, sent, spoilt, open>> /\ Rest' = Rest
  BY DEF Read, senderVars, Rest
<1>5. /\ Done \in Nat /\ Done <= Len(sent) /\ Len(sent) \in Nat /\ received \in Seq(AllPackets)
      /\ Rest \in Seq(Unit) /\ Len(wire) <= Capacity /\ Capacity \in Nat /\ Len(wire) \in Nat
  BY SMTT(30), FramingAssumption, RestIs DEF Types, PlaceInv, Done
<1>6. Done' = Len(received')
  BY DEF Done
<1>7. received' \in Seq(AllPackets) => Types'
  <2> SUFFICES ASSUME received' \in Seq(AllPackets) PROVE Types'
    OBVIOUS
  <2>1. reader' \in {"reading", "closed", "error"}
    BY <1>3
  <2>2. buf' \in Seq(Unit)
    <3>1. <<>> \in Seq(Unit)
      OBVIOUS
    <3> QED BY <1>3, <3>1
  <2>3. wire' \in Seq(Unit) /\ Len(wire') <= Capacity
    <3>1. wire' = y /\ Len(y) <= Len(wire)
      BY <1>1
    <3>2. Len(y) \in Nat
      OBVIOUS
    <3> QED BY <1>5, <3>1, <3>2
  <2> QED BY <1>4, <2>1, <2>2, <2>3 DEF Types
<1>8. CASE bad
  <2>1. reader' = "error" /\ buf' = <<>> /\ received' = received /\ spoilt # {}
    BY <1>2, <1>3, <1>8
  <2>2. Types'
    BY <1>5, <1>7, <2>1
  <2>3. PlaceInv'
    <3>1. Done' = Done /\ ~(Len(buf') > 5) /\ reader' # "reading"
      BY <2>1 DEF Done
    <3> QED BY <1>4, <3>1 DEF PlaceInv
  <2>4. EndInv'
    BY <1>4, <2>1 DEF EndInv, StopsForAReason
  <2> QED BY <2>1, <2>2, <2>3, <2>4 DEF Receives
<1>9. CASE complete /\ ~bad
  <2> DEFINE r == y \o Rest
  <2>1. /\ reader' = "reading" /\ buf' = <<>> /\ received' = Append(received, AsRead(sent[k]))
        /\ k \notin spoilt /\ Len(b) = Len(blk[k])
    BY <1>2, <1>3, <1>9
  <2>2. AsRead(sent[k]) \in AllPackets
    BY <1>2, AsReadIs
  <2>3. received' \in Seq(AllPackets) /\ Done' = k
    BY <1>5, <1>6, <2>1, <2>2 DEF Done
  <2>4. /\ r \in Seq(Unit) /\ Len(r) = Len(y) + Len(Rest) /\ Len(y) \in Nat /\ Len(Rest) \in Nat
        /\ Len(Ahead) = Len(b) + Len(r)
        /\ \A i \in 1..Len(r) : Ahead[Len(b) + i] = r[i]
    BY <1>1, ReadPlace
  <2>5. Ahead' = r
    <3>1. <<>> \o y = y
      OBVIOUS
    <3>2. buf' = <<>> /\ wire' = y /\ Rest' = Rest
      BY <1>1, <1>4, <2>1
    <3> HIDE DEF r
    <3>3. Ahead' = (buf' \o wire') \o Rest'
      BY DEF Ahead
    <3> QED BY <3>1, <3>2, <3>3 DEF r
  <2> HIDE DEF r
  <2>6. LaidOut(at, blk)'
    BY <1>1, <1>2, <1>4, <1>5, <2>1, <2>3, <2>4, <2>5, TakenOff
  <2>7. Rest # <<>> => k < Len(sent)
    <3> SUFFICES ASSUME Rest # <<>>, ~(k < Len(sent)) PROVE FALSE
      OBVIOUS
    <3>1. Len(Rest) > 0
      BY <1>5
    <3>2. k = Len(sent)
      BY <1>2, <1>5
    <3>3. Len(Ahead) = at[k + 1] - at[k] /\ at[k + 1] = at[k] + Len(blk[k]) /\ at[k] \in Nat
      <4>1. LaidOut(at, blk)
        BY <1>1
      <4>2. k \in 1..(Len(sent) + 1)
        BY <1>2, <1>5
      <4> QED BY <1>2, <3>2, <4>1, <4>2 DEF LaidOut
    <3> DEFINE la == Len(Ahead)  lb == Len(b)  lr == Len(r)  ly == Len(y)  ls == Len(Rest)
               a == at[k]  lk == at[k + 1]
    <3>4. /\ lb \in Nat /\ ly \in Nat /\ ls \in Nat /\ a \in Nat /\ ls > 0 /\ lr = ly + ls
          /\ la = lb + lr /\ la = lk - a /\ lk = a + lb
      BY <1>2, <2>1, <2>4, <3>1, <3>3
    <3> HIDE DEF la, lb, lr, ly, ls, a, lk
    <3> QED BY <3>4
  <2>8. PlaceInv'
    <3>1. Done' <= Len(sent') /\ spoilt' \cap (1..Done') = {}
      <4>1. \A i \in 1..k : i \in 1..Done \/ i = k
        BY <1>5
      <4>2. spoilt \cap (1..Done) = {}
        BY DEF PlaceInv
      <4>3. spoilt \cap (1..k) = {}
        BY <2>1, <4>1, <4>2
      <4> QED BY <1>2, <1>4, <1>5, <2>3, <4>3
    <3>2. Rest' # <<>> => Done' < Len(sent')
      BY <1>4, <2>3, <2>7
    <3>3. ~(Len(buf') > 5)
      BY <2>1
    <3>4. \E a, c : LaidOut(a, c)'
      BY <2>6
    <3>5. fault # "corrupt" /\ spoilt # {} => ~open /\ Rest # <<>> /\ spoilt = {Len(sent)}
      BY <1>1 DEF PlaceInv
    <3> QED BY <1>4, <3>1, <3>2, <3>3, <3>4, <3>5 DEF PlaceInv
  <2>9. EndInv'
    BY <1>4, <2>1 DEF EndInv, StopsForAReason
  <2>10. Receives
    <3>1. k \in DOMAIN sent
      BY <1>2 DEF Types
    <3> QED BY <2>1, <3>1 DEF Receives
  <2> QED BY <1>7, <2>3, <2>8, <2>9, <2>10
<1>10. CASE ~complete /\ ~bad
  <2>1. reader' = "reading" /\ buf' = b /\ received' = received
    BY <1>3, <1>10
  <2>2. Types'
    BY <1>5, <1>7, <2>1
  <2>3. Ahead' = Ahead /\ Done' = Done
    <3>1. Ahead' = (b \o y) \o Rest /\ Ahead = (buf \o wire) \o Rest
      BY <1>1, <1>4, <2>1 DEF Ahead
    <3> QED BY <1>1, <2>1, <3>1 DEF Done
  <2>4. LaidOut(at, blk)'
    BY <1>1, <1>4, <2>3, LaidSame
  <2>5. Len(b) > 5 => Len(b) <= 5 + b[5]
    BY SMTT(30), <1>1, <1>2, <1>10
  <2>6. PlaceInv'
    <3>1. \E a, c : LaidOut(a, c)'
      BY <2>4
    <3>2. fault # "corrupt" /\ spoilt # {} => ~open /\ Rest # <<>> /\ spoilt = {Len(sent)}
      BY <1>1 DEF PlaceInv
    <3>3. /\ Done <= Len(sent) /\ spoilt \cap (1..Done) = {}
          /\ Rest # <<>> => Done < Len(sent)
      BY DEF PlaceInv
    <3> QED BY <1>4, <2>1, <2>3, <2>5, <3>1, <3>2, <3>3 DEF PlaceInv
  <2>7. EndInv'
    BY <1>4, <2>1 DEF EndInv, StopsForAReason
  <2> QED BY <2>1, <2>2, <2>6, <2>7 DEF Receives
<1> QED BY <1>8, <1>9, <1>10

\* With nothing ahead everything that was sent has been received.
LEMMA NothingAhead ==
  ASSUME Types, Done <= Len(sent), NEW at, NEW blk, LaidOut(at, blk), Len(Ahead) = 0
  PROVE  Done = Len(sent)
<1> DEFINE k == Done + 1
           m == Len(sent)
<1>1. Done \in Nat /\ m \in Nat /\ Done <= m /\ sent \in Seq(Sent)
  BY DEF Types, Done
<1> SUFFICES ASSUME Done # m PROVE FALSE
  OBVIOUS
<1>2. /\ k \in 1..m /\ k \in 1..(m + 1) /\ k + 1 \in 1..(m + 1)
      /\ m + 1 \in 1..(m + 1) /\ k + 1 <= m + 1
  BY <1>1
<1>3. /\ at \in [1..(m + 1) -> Nat] /\ Len(Ahead) = at[m + 1] - at[k]
      /\ \A i, j \in 1..(m + 1) : i <= j => at[i] <= at[j]
      /\ PutAs(k, blk[k]) /\ at[k + 1] = at[k] + Len(blk[k])
  BY <1>2 DEF LaidOut
<1>4. Len(blk[k]) \in Nat /\ Len(blk[k]) > 0
  <2>1. Len(blk[k]) = Len(sent[k].payload) + 6 /\ Len(sent[k].payload) \in Words
    BY <1>1, <1>2, <1>3, PutIs
  <2> QED BY <2>1, WordFacts
<1>5. at[k] \in Nat /\ at[k + 1] \in Nat /\ at[m + 1] \in Nat /\ at[k + 1] <= at[m + 1]
  BY <1>2, <1>3
<1> HIDE DEF k, m
<1> QED BY SMTT(30), <1>3, <1>4, <1>5

LEMMA ReadNothingKeeps ==
  ASSUME Told, Types, PlaceInv, EndInv, ReadNothing
  PROVE  Types' /\ PlaceInv' /\ EndInv' /\ received' = received
<1> DEFINE k == Done + 1
<1>1. /\ reader = "reading" /\ wire = <<>> /\ (~open \/ fault = "empty")
      /\ reader' = IF AtStart(buf) THEN "closed" ELSE "error"
      /\ buf' = <<>> /\ wire' = wire /\ received' = received
      /\ UNCHANGED <<fault, lock, out, nextId, sent, spoilt, open>>
  BY DEF ReadNothing, senderVars
<1>2. reader' \in {"closed", "error"}
  BY <1>1
<1>3. Types'
  <2>1. <<>> \in Seq(Unit)
    OBVIOUS
  <2>2. reader' \in {"reading", "closed", "error"}
    BY <1>2
  <2> QED BY <1>1, <2>1, <2>2 DEF Types
<1>4. Rest' = Rest /\ Done' = Done
  BY <1>1 DEF Rest, Done
<1>5. PlaceInv'
  <2>1. /\ Done <= Len(sent) /\ spoilt \cap (1..Done) = {}
        /\ Rest # <<>> => Done < Len(sent)
    BY DEF PlaceInv
  <2>2. ~(Len(buf') > 5) /\ reader' # "reading"
    BY <1>1, <1>2
  <2> QED BY <1>1, <1>4, <2>1, <2>2 DEF PlaceInv
<1>6. ASSUME spoilt = {}, fault # "empty"
      PROVE  reader' = "closed" /\ Len(received) = Len(sent) /\ ~open
  <2>1. ~open /\ Rest = <<>>
    BY <1>1, <1>6 DEF EndInv
  <2>2. PICK at, blk : LaidOut(at, blk)
    BY <1>1 DEF PlaceInv
  <2>3. Done <= Len(sent) /\ (Len(buf) > 5 => Len(buf) <= 5 + buf[5])
    BY DEF PlaceInv
  <2>4. buf \in Seq(Unit) /\ Len(buf) \in Nat
    BY DEF Types
  <2>5. Len(Ahead) = Len(buf) /\ \A j \in 1..Len(buf) : buf[j] = Ahead[j]
    <3>1. Len(wire) = 0 /\ Len(Rest) = 0
      BY <1>1, <2>1
    <3> QED BY <2>4, <3>1, RestIs
  <2>6. buf = <<>>
    <3> SUFFICES ASSUME buf # <<>> PROVE FALSE
      OBVIOUS
    <3>1. /\ k \in 1..Len(sent) /\ PutAs(k, blk[k]) /\ sent[k] \in Sent
          /\ Len(blk[k]) <= Len(Ahead)
          /\ \A j \in 1..Len(buf) : j <= Len(blk[k]) => buf[j] = blk[k][j]
      BY <2>2, <2>3, <2>4, <2>5, FirstOf
    <3>2. blk[k] = Encoded(sent[k])
      BY <1>6, <3>1 DEF PutAs
    <3> DEFINE n == Len(sent[k].payload)
    <3>3. Len(blk[k]) = n + 6 /\ n \in Nat
      BY <3>1, <3>2, SentIs, WordFacts
    <3>4. Len(buf) >= 5 => buf[5] = n
      BY SMTT(30), <2>4, <3>1, <3>2, IntactRead
    <3> HIDE DEF n
    <3>5. Len(buf) >= n + 6
      BY <2>4, <2>5, <3>1, <3>3
    <3> QED BY <2>3, <2>4, <3>3, <3>4, <3>5
  <2>7. reader' = "closed"
    <3>1. Len(buf) = 0
      BY <2>6
    <3>2. AtStart(buf)
      BY <3>1 DEF AtStart
    <3> QED BY <1>1, <3>2
  <2>8. Done = Len(sent)
    <3>1. Len(Ahead) = 0
      BY <2>5, <2>6
    <3> QED BY <2>2, <2>3, <3>1, NothingAhead
  <2> QED BY <2>1, <2>7, <2>8 DEF Done
<1>7. EndInv'
  <2>1. StopsForAReason'
    BY <1>1, <1>6 DEF StopsForAReason
  <2> QED BY <1>1, <1>4, <2>1 DEF EndInv
<1> QED BY <1>1, <1>3, <1>5, <1>7

\* One packet more, behind what is ahead.
LEMMA LaidLonger ==
  ASSUME Types, Done <= Len(sent), NEW at, NEW blk, LaidOut(at, blk),
         NEW p \in Sent, sent' = Append(sent, p), NEW b \in Seq(Unit),
         \A m : m = Len(sent) + 1 => PutAs(m, b)',
         \A i \in 1..Len(sent) : i \in spoilt' <=> i \in spoilt, UNCHANGED fault, Done' = Done,
         Len(Ahead') = Len(Ahead) + Len(b),
         \A j \in 1..Len(Ahead) : Ahead'[j] = Ahead[j],
         \A j \in 1..Len(b) : Ahead'[Len(Ahead) + j] = b[j]
  PROVE  \E a, c : LaidOut(a, c)'
<1> DEFINE k == Done + 1
           n == Len(sent)
           end == at[n + 1] + Len(b)
<1>1. Done \in Nat /\ n \in Nat /\ Done <= n /\ sent \in Seq(Sent) /\ Len(b) \in Nat
  BY DEF Types, Done
<1>2. /\ at \in [1..(n + 1) -> Nat] /\ Len(Ahead) = at[n + 1] - at[k]
      /\ \A i, j \in 1..(n + 1) : i <= j => at[i] <= at[j]
      /\ \A i \in 1..n : PutAs(i, blk[i]) /\ at[i + 1] = at[i] + Len(blk[i])
      /\ \A i \in k..n : \A j \in 1..Len(blk[i]) : Ahead[(at[i] - at[k]) + j] = blk[i][j]
  BY DEF LaidOut
<1>3. Len(sent') = n + 1 /\ \A i \in 1..n : sent'[i] = sent[i]
  BY <1>1
<1>4. k \in 1..(n + 1) /\ n + 1 \in 1..(n + 1) /\ at[n + 1] \in Nat /\ end \in Nat
      /\ at[n + 1] <= end /\ at[k] \in Nat
  BY SMTT(30), <1>1, <1>2
<1>5. \A i \in 1..(n + 1) : at[i] \in Nat /\ at[i] <= at[n + 1]
  <2> SUFFICES ASSUME NEW i \in 1..(n + 1) PROVE at[i] \in Nat /\ at[i] <= at[n + 1]
    OBVIOUS
  <2>1. i <= n + 1
    BY <1>1
  <2> QED BY <1>2, <1>4, <2>1
<1>6. PICK a \in [1..(n + 2) -> Nat] : a[n + 2] = end /\ \A i \in 1..(n + 1) : a[i] = at[i]
  <2> DEFINE f == [i \in 1..(n + 2) |-> IF i <= n + 1 THEN at[i] ELSE end]
  <2>1. f \in [1..(n + 2) -> Nat] /\ f[n + 2] = end /\ \A i \in 1..(n + 1) : f[i] = at[i]
    <3> HIDE DEF end
    <3> QED BY SMTT(30), <1>1, <1>4, <1>5
  <2> QED BY <2>1
<1>7. PICK c : c[n + 1] = b /\ \A i \in 1..n : c[i] = blk[i]
  <2> DEFINE f == [i \in 1..(n + 1) |-> IF i <= n THEN blk[i] ELSE b]
  <2>1. f[n + 1] = b /\ \A i \in 1..n : f[i] = blk[i]
    BY <1>1
  <2> QED BY <2>1
<1> HIDE DEF end
<1>8. \A i, j \in 1..(n + 2) : i <= j => a[i] <= a[j]
  <2> SUFFICES ASSUME NEW i \in 1..(n + 2), NEW j \in 1..(n + 2), i <= j PROVE a[i] <= a[j]
    OBVIOUS
  <2>1. CASE j <= n + 1
    <3>1. i \in 1..(n + 1) /\ j \in 1..(n + 1)
      BY <1>1, <2>1
    <3> QED BY <1>2, <1>6, <3>1
  <2>2. CASE j = n + 2 /\ i = n + 2
    BY <1>4, <1>6, <2>2
  <2>3. CASE j = n + 2 /\ i # n + 2
    <3>1. i \in 1..(n + 1)
      BY <1>1, <2>3
    <3>2. a[i] = at[i] /\ a[j] = end
      BY <1>6, <2>3, <3>1
    <3>3. at[i] \in Nat /\ at[i] <= at[n + 1]
      BY <1>5, <3>1
    <3> QED BY <1>4, <3>2, <3>3
  <2> QED BY <1>1, <2>1, <2>2, <2>3
<1>9. \A i \in 1..(n + 1) : PutAs(i, c[i])' /\ a[i + 1] = a[i] + Len(c[i])
  <2> SUFFICES ASSUME NEW i \in 1..(n + 1) PROVE PutAs(i, c[i])' /\ a[i + 1] = a[i] + Len(c[i])
    OBVIOUS
  <2>1. CASE i = n + 1
    <3>1. a[i + 1] = end /\ a[i] = at[n + 1]
      <4>1. i + 1 = n + 2
        BY <1>1, <2>1
      <4> QED BY <1>4, <1>6, <2>1, <4>1
    <3>2. c[i] = b /\ PutAs(i, b)'
      BY <1>7, <2>1
    <3> QED BY <3>1, <3>2 DEF end
  <2>2. CASE i # n + 1
    <3>1. i \in 1..n /\ i + 1 \in 1..(n + 1)
      BY <1>1, <2>2
    <3>2. PutAs(i, blk[i])'
      <4>1. PutAs(i, blk[i]) /\ sent'[i] = sent[i] /\ (i \in spoilt' <=> i \in spoilt)
        BY <1>2, <1>3, <3>1
      <4> QED BY <4>1 DEF PutAs
    <3>3. a[i + 1] = a[i] + Len(c[i])
      BY <1>2, <1>6, <1>7, <3>1
    <3> QED BY <1>7, <3>1, <3>2, <3>3
  <2> QED BY <2>1, <2>2
<1>10. Len(Ahead') = a[n + 2] - a[k]
  <2>1. a[k] = at[k] /\ a[n + 2] = at[n + 1] + Len(b)
    BY <1>4, <1>6 DEF end
  <2> QED BY SMTT(30), <1>1, <1>2, <1>4, <2>1
<1>11. \A i \in k..(n + 1) : \A j \in 1..Len(c[i]) : Ahead'[(a[i] - a[k]) + j] = c[i][j]
  <2> SUFFICES ASSUME NEW i \in k..(n + 1), NEW j \in 1..Len(c[i])
               PROVE  Ahead'[(a[i] - a[k]) + j] = c[i][j]
    OBVIOUS
  <2>1. a[k] = at[k] /\ i \in 1..(n + 1) /\ a[i] = at[i]
    BY <1>1, <1>4, <1>6
  <2>2. CASE i = n + 1
    <3>1. (a[i] - a[k]) + j = Len(Ahead) + j
      BY <1>2, <2>1, <2>2
    <3> QED BY <1>7, <2>2, <3>1
  <2>3. CASE i # n + 1
    <3>1. i \in k..n /\ i \in 1..n /\ i + 1 \in 1..(n + 1) /\ c[i] = blk[i] /\ k <= i
      <4>1. i \in k..n /\ i \in 1..n /\ i + 1 \in 1..(n + 1) /\ k <= i
        BY <1>1, <2>3
      <4> QED BY <1>7, <4>1
    <3>2. Ahead[(at[i] - at[k]) + j] = c[i][j]
      BY ZenonT(60), <1>2, <3>1
    <3>3. PutAs(i, blk[i]) /\ at[i + 1] = at[i] + Len(blk[i])
      BY <1>2, <3>1
    <3>4. Len(blk[i]) \in Nat
      BY <1>1, <3>1, <3>3, PutIs
    <3>5. at[i] \in Nat /\ at[i + 1] <= at[n + 1] /\ at[k] <= at[i]
      BY SMTT(30), <1>2, <1>4, <1>5, <3>1
    <3> DEFINE e == at[i]  f == at[i + 1]  g == at[n + 1]  h == at[k]  l == Len(blk[i])
               la == Len(Ahead)
    <3>6. /\ e \in Nat /\ g \in Nat /\ h \in Nat /\ l \in Nat /\ f = e + l /\ f <= g /\ h <= e
          /\ j \in 1..l
      BY <1>4, <3>1, <3>3, <3>4, <3>5
    <3>7. la = g - h
      BY <1>2
    <3> HIDE DEF e, f, g, h, l, la
    <3>8. (e - h) + j \in 1..la
      BY <3>6, <3>7
    <3>9. (at[i] - at[k]) + j \in 1..Len(Ahead)
      BY <3>8 DEF e, h, la
    <3> QED BY <2>1, <3>2, <3>9
  <2> QED BY <2>2, <2>3
<1>12. Len(sent') + 1 = n + 2 /\ Done' + 1 = k
  BY <1>1, <1>3
<1>13. LaidOut(a, c)'
  BY <1>3, <1>6, <1>8, <1>9, <1>10, <1>11, <1>12 DEF LaidOut
<1> QED BY <1>13

\* Who has something to put out has the lock.
LEMMA AtWork ==
  ASSUME Types, NEW w \in Writers, out[w] # <<>>
  PROVE  lock = w /\ Rest = out[w] /\ Rest # <<>>
BY DEF Types, Rest

LEMMA NoRest ==
  ASSUME Types, lock \in Writers => out[lock] = <<>>
  PROVE  Rest = <<>> /\ \A w \in Writers : out[w] = <<>>
BY DEF Types, Rest

\* The packets that Begin hands over.
LEMMA NewPacket ==
  ASSUME nextId \in 1..WordLimit, NEW payload \in Payloads, NEW reply \in BOOLEAN,
         Fits(Packet(IF reply THEN 1 ELSE nextId, reply, payload))
  PROVE  /\ Packet(IF reply THEN 1 ELSE nextId, reply, payload) \in Sent
         /\ (IF reply THEN nextId ELSE nextId + 1) \in 1..WordLimit
<1> DEFINE id == IF reply THEN 1 ELSE nextId
           p == Packet(id, reply, payload)
<1>1. id \in 0..WordLimit /\ nextId \in Nat /\ WordLimit \in Nat
  BY WordFacts
<1> HIDE DEF id
<1>2. p = [id |-> id, reply |-> reply, payload |-> payload]
  BY DEF Packet
<1>3. p \in AllPackets /\ p.id = id /\ p.reply = reply
  BY <1>1, <1>2 DEF AllPackets
<1>4. Fits(p)
  BY DEF id
<1>5. p \in Sent
  BY <1>3, <1>4 DEF Sent
<1>6. ~reply => nextId < WordLimit
  <2> SUFFICES ASSUME ~reply PROVE nextId < WordLimit
    OBVIOUS
  <2>1. IdField(p) = nextId
    BY <1>3 DEF IdField, id
  <2> QED BY <1>4, <2>1 DEF Fits
<1>7. (IF reply THEN nextId ELSE nextId + 1) \in 1..WordLimit
  BY <1>1, <1>6
<1> QED BY <1>5, <1>7 DEF id

LEMMA BeginKeeps ==
  ASSUME Told, Types, PlaceInv, EndInv, NEW w \in Writers, Begin(w)
  PROVE  Types' /\ PlaceInv' /\ EndInv'
<1> DEFINE n == Len(sent)
<1>1. PICK payload \in Payloads, reply \in BOOLEAN :
        LET p == Packet(IF reply THEN 1 ELSE nextId, reply, payload) IN
        /\ Fits(p)
        /\ nextId' = IF reply THEN nextId ELSE nextId + 1
        /\ sent' = Append(sent, p)
        /\ \/ out' = [out EXCEPT ![w] = Encoded(p)] /\ UNCHANGED spoilt
           \/ /\ fault = "corrupt" /\ spoilt = {}
              /\ \E i \in 1..Len(Encoded(p)), u \in 0..(WordLimit - 1) :
                   /\ u # Encoded(p)[i]
                   /\ out' = [out EXCEPT ![w] = [Encoded(p) EXCEPT ![i] = u]]
              /\ spoilt' = spoilt \cup {Len(sent) + 1}
  BY DEF Begin
<1>2. PICK p : p = Packet(IF reply THEN 1 ELSE nextId, reply, payload)
  OBVIOUS
<1>3. /\ open /\ lock = Nobody /\ lock' = w
      /\ UNCHANGED <<fault, open, wire, reader, buf, received>>
  BY DEF Begin, readerVars
<1>4. p \in Sent /\ nextId' \in 1..WordLimit
  BY <1>1, <1>2, NewPacket DEF Types
<1>5. /\ sent' = Append(sent, p)
      /\ \/ out' = [out EXCEPT ![w] = Encoded(p)] /\ UNCHANGED spoilt
         \/ /\ fault = "corrupt" /\ spoilt = {}
            /\ \E i \in 1..Len(Encoded(p)), u \in 0..(WordLimit - 1) :
                 /\ u # Encoded(p)[i]
                 /\ out' = [out EXCEPT ![w] = [Encoded(p) EXCEPT ![i] = u]]
            /\ spoilt' = {Len(sent) + 1}
  BY <1>1, <1>2
<1>6. /\ sent \in Seq(Sent) /\ n \in Nat /\ spoilt \subseteq 1..n /\ Done \in Nat /\ Done <= n
      /\ spoilt \cap (1..Done) = {} /\ out \in [Writers -> Seq(Unit)]
      /\ \A v \in Writers : out[v] = <<>>
  <2>1. \A v \in Writers : out[v] = <<>>
    BY <1>3, FramingAssumption DEF Types
  <2> QED BY <2>1 DEF Types, PlaceInv, Done
<1>7. sent' \in Seq(Sent) /\ Len(sent') = n + 1 /\ sent'[n + 1] = p
  BY <1>4, <1>5, <1>6
<1>8. PICK b : /\ out' = [out EXCEPT ![w] = b]
               /\ \/ b = Encoded(p) /\ spoilt' = spoilt
                  \/ fault = "corrupt" /\ spoilt = {} /\ Altered(p, b) /\ spoilt' = {Len(sent) + 1}
  <2>1. CASE out' = [out EXCEPT ![w] = Encoded(p)] /\ UNCHANGED spoilt
    BY <2>1
  <2>2. CASE /\ fault = "corrupt" /\ spoilt = {}
             /\ \E i \in 1..Len(Encoded(p)), u \in 0..(WordLimit - 1) :
                  /\ u # Encoded(p)[i]
                  /\ out' = [out EXCEPT ![w] = [Encoded(p) EXCEPT ![i] = u]]
             /\ spoilt' = {Len(sent) + 1}
    <3>1. PICK i \in 1..Len(Encoded(p)), u \in Words :
            u # Encoded(p)[i] /\ out' = [out EXCEPT ![w] = [Encoded(p) EXCEPT ![i] = u]]
      BY <2>2 DEF Words
    <3>2. DOMAIN Encoded(p) = 1..Len(Encoded(p))
      BY <1>4, SentIs
    <3>3. Altered(p, [Encoded(p) EXCEPT ![i] = u])
      BY <3>1, <3>2 DEF Altered
    <3> QED BY <2>2, <3>1, <3>3
  <2> QED BY <1>5, <2>1, <2>2
<1>9. /\ spoilt' \subseteq 1..(n + 1) /\ spoilt' \cap (1..Done) = {}
      /\ \A i \in 1..n : i \in spoilt' <=> i \in spoilt
      /\ fault # "corrupt" => spoilt' = spoilt
      /\ spoilt' = {} => spoilt = {}
  <2>1. CASE spoilt' = spoilt
    <3>1. \A i \in 1..n : i \in 1..(n + 1)
      BY <1>6
    <3> QED BY <1>6, <2>1, <3>1
  <2>2. CASE fault = "corrupt" /\ spoilt = {} /\ spoilt' = {n + 1}
    <3>1. n + 1 \in 1..(n + 1) /\ n + 1 \notin 1..Done /\ \A i \in 1..n : i # n + 1
      BY <1>6
    <3> QED BY <2>2, <3>1
  <2> QED BY <1>8, <2>1, <2>2
<1>10. \A m : m = Len(sent) + 1 => PutAs(m, b)'
  <2> SUFFICES ASSUME NEW m, m = Len(sent) + 1 PROVE PutAs(m, b)'
    OBVIOUS
  <2>1. sent'[m] = p
    BY <1>7
  <2>2. CASE b = Encoded(p) /\ spoilt' = spoilt
    <3>1. m \notin spoilt'
      BY <1>6, <2>2
    <3> QED BY <2>1, <2>2, <3>1 DEF PutAs
  <2>3. CASE fault = "corrupt" /\ Altered(p, b) /\ spoilt' = {Len(sent) + 1}
    BY <1>3, <2>1, <2>3 DEF PutAs
  <2> QED BY <1>8, <2>2, <2>3
<1>11. b \in Seq(Unit) /\ b # <<>>
  <2>1. b \in Seq(Unit) /\ Len(b) = Len(p.payload) + 6 /\ Len(p.payload) \in Words
    BY <1>4, <1>8, PutUnits
  <2> QED BY <2>1, WordFacts
<1>12. Types'
  <2>1. out' \in [Writers -> Seq(Unit)] /\ out'[w] = b
        /\ \A v \in Writers : v # w => out'[v] = <<>>
    BY <1>6, <1>8, <1>11
  <2>2. spoilt' \subseteq DOMAIN sent'
    BY <1>7, <1>9
  <2> QED BY <1>3, <1>4, <1>7, <2>1, <2>2 DEF Types
<1>13. Rest = <<>> /\ Rest' = b
  <2>1. out'[w] = b
    BY <1>6, <1>8
  <2> QED BY <1>3, <2>1, FramingAssumption DEF Rest
<1>14. /\ Len(Ahead') = Len(Ahead) + Len(b)
       /\ \A j \in 1..Len(Ahead) : Ahead'[j] = Ahead[j]
       /\ \A j \in 1..Len(b) : Ahead'[Len(Ahead) + j] = b[j]
  <2> DEFINE s == buf \o wire
  <2>1. s \in Seq(Unit) /\ s' = s
    BY <1>3 DEF Types
  <2> HIDE DEF s
  <2>2. Ahead = s
    BY <1>13, <2>1 DEF Ahead, s
  <2>3. Ahead' = s \o b
    BY <1>3, <1>13 DEF Ahead, s
  <2>4. /\ Len(s \o b) = Len(s) + Len(b)
        /\ \A i \in 1..Len(s) : (s \o b)[i] = s[i]
        /\ \A i \in 1..Len(b) : (s \o b)[Len(s) + i] = b[i]
    BY <1>11, <2>1, Joined
  <2> QED BY <2>2, <2>3, <2>4
<1>15. Done' = Done
  BY <1>3 DEF Done
<1>16. PlaceInv'
  <2>1. reader' = "reading" => \E a, c : LaidOut(a, c)'
    <3> SUFFICES ASSUME reader = "reading" PROVE \E a, c : LaidOut(a, c)'
      BY <1>3
    <3>1. PICK at, blk : LaidOut(at, blk)
      BY DEF PlaceInv
    <3> QED BY <1>3, <1>4, <1>5, <1>6, <1>9, <1>10, <1>11, <1>14, <1>15, <3>1, LaidLonger
  <2>2. reader' = "reading" /\ fault' # "corrupt" => spoilt' = {}
    BY <1>3, <1>9 DEF PlaceInv
  <2>3. Done' <= Len(sent') /\ Done' < Len(sent')
    BY <1>6, <1>7, <1>15
  <2>4. Len(buf') > 5 => Len(buf') <= 5 + buf'[5]
    BY <1>3 DEF PlaceInv
  <2> QED BY <1>9, <1>15, <2>1, <2>2, <2>3, <2>4 DEF PlaceInv
<1>17. EndInv'
  <2>1. fault' = "none" => spoilt' = {}
    BY <1>3, <1>9 DEF EndInv
  <2>2. StopsForAReason'
    BY <1>3, <1>9 DEF EndInv, StopsForAReason
  <2> QED BY <1>3, <2>1, <2>2 DEF EndInv
<1> QED BY <1>12, <1>16, <1>17

LEMMA WriteKeeps ==
  ASSUME Told, Types, PlaceInv, EndInv, NEW w \in Writers, Write(w)
  PROVE  Types' /\ PlaceInv' /\ EndInv'
<1>1. /\ open /\ out[w] # <<>>
      /\ UNCHANGED <<fault, lock, nextId, sent, spoilt, open, reader, buf, received>>
  BY DEF Write, readerVars
<1>2. PICK n \in 1..Smaller(Room, Len(out[w])) :
        /\ wire' = wire \o SubSeq(out[w], 1, n)
        /\ out' = [out EXCEPT ![w] = SubSeq(@, n + 1, Len(@))]
  BY DEF Write
<1> DEFINE s == out[w]
           x == SubSeq(s, 1, n)
           z == SubSeq(s, n + 1, Len(s))
<1>3. lock = w /\ Rest = s /\ Rest # <<>>
  BY <1>1, AtWork
<1>4. /\ s \in Seq(Unit) /\ wire \in Seq(Unit) /\ buf \in Seq(Unit) /\ Len(wire) <= Capacity
      /\ out \in [Writers -> Seq(Unit)] /\ Len(wire) \in Nat /\ Len(s) \in Nat /\ Capacity \in Nat
      /\ \A v \in Writers : v # lock => out[v] = <<>>
  BY FramingAssumption DEF Types
<1> HIDE DEF s
<1>5. n \in Nat /\ n <= Len(s) /\ n <= Capacity - Len(wire)
  <2>1. Smaller(Room, Len(out[w])) = IF Room < Len(s) THEN Room ELSE Len(s)
    BY DEF Smaller, s
  <2>2. Room = Capacity - Len(wire)
    BY DEF Room
  <2> QED BY <1>4, <2>1, <2>2
<1>6. x \in Seq(Unit) /\ Len(x) = n /\ z \in Seq(Unit) /\ x \o z = s
  BY <1>4, <1>5, SplitAt
<1>7. wire' = wire \o x /\ out' = [out EXCEPT ![w] = z]
  BY <1>2 DEF s
<1> HIDE DEF x, z
<1>8. wire' \in Seq(Unit) /\ Len(wire') <= Capacity
  <2>1. wire \o x \in Seq(Unit) /\ Len(wire \o x) = Len(wire) + Len(x)
    BY <1>4, <1>6, Joined
  <2> HIDE DEF x
  <2> QED BY <1>4, <1>5, <1>6, <1>7, <2>1
<1>9. /\ out' \in [Writers -> Seq(Unit)] /\ out'[w] = z
      /\ \A v \in Writers : v # lock => out'[v] = <<>>
  BY <1>3, <1>4, <1>6, <1>7
<1>10. Types'
  BY <1>1, <1>8, <1>9 DEF Types
<1>11. Rest' = z
  BY <1>1, <1>3, <1>9 DEF Rest
<1>12. Ahead' = Ahead
  <2>1. x \in Seq(Unit) /\ z \in Seq(Unit) /\ wire \in Seq(Unit) /\ buf \in Seq(Unit)
    BY <1>4, <1>6
  <2>2. (buf \o (wire \o x)) \o z = (buf \o wire) \o (x \o z)
    BY <2>1, SMTT(60)
  <2>3. Ahead' = (buf \o (wire \o x)) \o z
    BY <1>1, <1>7, <1>11 DEF Ahead
  <2>4. Ahead = (buf \o wire) \o (x \o z)
    BY <1>3, <1>6 DEF Ahead
  <2> QED BY <2>2, <2>3, <2>4
<1>13. Done' = Done
  BY <1>1 DEF Done
<1>14. PlaceInv'
  <2>1. reader' = "reading" => \E a, c : LaidOut(a, c)'
    <3> SUFFICES ASSUME reader = "reading" PROVE \E a, c : LaidOut(a, c)'
      BY <1>1
    <3>1. PICK at, blk : LaidOut(at, blk)
      BY DEF PlaceInv
    <3>2. LaidOut(at, blk)'
      BY <1>1, <1>12, <1>13, <3>1, LaidSame
    <3> QED BY <3>2
  <2>2. reader' = "reading" /\ fault' # "corrupt" => spoilt' = {}
    BY <1>1 DEF PlaceInv
  <2>3. Done' <= Len(sent') /\ Done' < Len(sent') /\ spoilt' \cap (1..Done') = {}
    BY <1>1, <1>3, <1>13 DEF PlaceInv
  <2>4. Len(buf') > 5 => Len(buf') <= 5 + buf'[5]
    BY <1>1 DEF PlaceInv
  <2> QED BY <2>1, <2>2, <2>3, <2>4 DEF PlaceInv
<1>15. EndInv'
  BY <1>1 DEF EndInv, StopsForAReason
<1> QED BY <1>10, <1>14, <1>15

LEMMA ReleaseKeeps ==
  ASSUME Told, Types, PlaceInv, EndInv, NEW w \in Writers, Release(w)
  PROVE  Types' /\ PlaceInv' /\ EndInv'
<1>1. /\ lock = w /\ out[w] = <<>> /\ lock' = Nobody
      /\ UNCHANGED <<fault, out, nextId, sent, spoilt, open, wire, reader, buf, received>>
  BY DEF Release, readerVars
<1>2. Rest = <<>> /\ (\A v \in Writers : out[v] = <<>>)
  BY <1>1, NoRest
<1>3. Rest' = <<>>
  BY <1>1, FramingAssumption DEF Rest
<1>4. Types'
  BY <1>1, <1>2 DEF Types
<1>5. Ahead' = Ahead /\ Done' = Done
  BY <1>1, <1>2, <1>3 DEF Ahead, Done
<1>6. PlaceInv'
  <2>1. reader' = "reading" => \E a, c : LaidOut(a, c)'
    <3> SUFFICES ASSUME reader = "reading" PROVE \E a, c : LaidOut(a, c)'
      BY <1>1
    <3>1. PICK at, blk : LaidOut(at, blk)
      BY DEF PlaceInv
    <3>2. LaidOut(at, blk)'
      BY <1>1, <1>5, <3>1, LaidSame
    <3> QED BY <3>2
  <2>2. reader' = "reading" /\ fault' # "corrupt" => spoilt' = {}
    BY <1>1, <1>2 DEF PlaceInv
  <2>3. Done' <= Len(sent') /\ spoilt' \cap (1..Done') = {}
    BY <1>1, <1>5 DEF PlaceInv
  <2>4. Len(buf') > 5 => Len(buf') <= 5 + buf'[5]
    BY <1>1 DEF PlaceInv
  <2> QED BY <1>3, <2>1, <2>2, <2>3, <2>4 DEF PlaceInv
<1>7. EndInv'
  BY <1>1, <1>3 DEF EndInv, StopsForAReason
<1> QED BY <1>4, <1>6, <1>7

LEMMA CloseKeeps ==
  ASSUME Told, Types, PlaceInv, EndInv, Close
  PROVE  Types' /\ PlaceInv' /\ EndInv'
<1>1. /\ open /\ lock = Nobody /\ open' = FALSE
      /\ UNCHANGED <<fault, lock, out, nextId, sent, spoilt, wire, reader, buf, received>>
  BY DEF Close, readerVars
<1>2. Rest = <<>> /\ Rest' = <<>>
  BY <1>1, FramingAssumption DEF Rest
<1>3. Types'
  BY <1>1 DEF Types
<1>4. Ahead' = Ahead /\ Done' = Done
  BY <1>1, <1>2 DEF Ahead, Done
<1>5. PlaceInv'
  <2>1. reader' = "reading" => \E a, c : LaidOut(a, c)'
    <3> SUFFICES ASSUME reader = "reading" PROVE \E a, c : LaidOut(a, c)'
      BY <1>1
    <3>1. PICK at, blk : LaidOut(at, blk)
      BY DEF PlaceInv
    <3>2. LaidOut(at, blk)'
      BY <1>1, <1>4, <3>1, LaidSame
    <3> QED BY <3>2
  <2>2. reader' = "reading" /\ fault' # "corrupt" => spoilt' = {}
    BY <1>1 DEF PlaceInv
  <2>3. Done' <= Len(sent') /\ spoilt' \cap (1..Done') = {}
    BY <1>1, <1>4 DEF PlaceInv
  <2>4. Len(buf') > 5 => Len(buf') <= 5 + buf'[5]
    BY <1>1 DEF PlaceInv
  <2> QED BY <1>2, <2>1, <2>2, <2>3, <2>4 DEF PlaceInv
<1>6. EndInv'
  BY <1>1, <1>2 DEF EndInv, StopsForAReason
<1> QED BY <1>3, <1>5, <1>6

\* A packet that is still being written is not there to be received.
LEMMA LastIsNew ==
  ASSUME Types, PlaceInv, Rest # <<>>
  PROVE  /\ Len(sent) \in DOMAIN sent /\ Len(sent) \notin 1..Done /\ Done \in Nat
         /\ Done < Len(sent) /\ (spoilt \cup {Len(sent)}) \cap (1..Done) = {}
<1>1. /\ Done \in Nat /\ Len(sent) \in Nat /\ Done < Len(sent) /\ DOMAIN sent = 1..Len(sent)
      /\ spoilt \cap (1..Done) = {}
  BY DEF Types, PlaceInv, Done
<1>2. Len(sent) \in 1..Len(sent) /\ Len(sent) \notin 1..Done
  BY <1>1
<1> QED BY <1>1, <1>2

LEMMA WriteFailsKeeps ==
  ASSUME Told, Types, PlaceInv, EndInv, NEW w \in Writers, WriteFails(w)
  PROVE  Types' /\ PlaceInv' /\ EndInv' /\ fault # "none"
<1>1. /\ open /\ reader # "reading" /\ out[w] # <<>>
      /\ out' = [out EXCEPT ![w] = <<>>] /\ spoilt' = spoilt \cup {Len(sent)}
      /\ UNCHANGED <<fault, lock, nextId, sent, open, wire, reader, buf, received>>
  BY DEF WriteFails, readerVars
<1>2. lock = w /\ Rest # <<>>
  BY <1>1, AtWork
<1>3. Types'
  <2>1. out' \in [Writers -> Seq(Unit)] /\ \A v \in Writers : v # lock' => out'[v] = <<>>
    <3>1. <<>> \in Seq(Unit)
      OBVIOUS
    <3> QED BY <1>1, <3>1 DEF Types
  <2>2. spoilt' \subseteq DOMAIN sent'
    BY <1>1, <1>2, LastIsNew DEF Types
  <2> QED BY <1>1, <2>1, <2>2 DEF Types
<1>4. Rest' = <<>> /\ Done' = Done
  <2>1. out'[w] = <<>>
    BY <1>1 DEF Types
  <2> QED BY <1>1, <1>2, <2>1 DEF Rest, Done
<1>5. PlaceInv'
  <2>1. Done' <= Len(sent') /\ spoilt' \cap (1..Done') = {}
    <3>1. Done <= Len(sent)
      BY DEF PlaceInv
    <3> QED BY <1>1, <1>2, <1>4, <3>1, LastIsNew
  <2>2. Len(buf') > 5 => Len(buf') <= 5 + buf'[5]
    BY <1>1 DEF PlaceInv
  <2> QED BY <1>1, <1>4, <2>1, <2>2 DEF PlaceInv
<1>6. fault # "none"
  BY <1>1 DEF EndInv, StopsForAReason
<1>7. EndInv'
  <2>1. spoilt' # {}
    BY <1>1
  <2> QED BY <1>1, <1>6, <2>1 DEF EndInv, StopsForAReason
<1> QED BY <1>3, <1>5, <1>6, <1>7

LEMMA CrashKeeps ==
  ASSUME Told, Types, PlaceInv, EndInv, Crash
  PROVE  Types' /\ PlaceInv' /\ EndInv'
<1>1. /\ fault = "crash" /\ open /\ open' = FALSE
      /\ spoilt' = IF \E w \in Writers : out[w] # <<>> THEN spoilt \cup {Len(sent)} ELSE spoilt
      /\ UNCHANGED <<fault, lock, out, nextId, sent, wire, reader, buf, received>>
  BY DEF Crash, readerVars
<1>2. \/ Rest # <<>> /\ spoilt' = spoilt \cup {Len(sent)}
      \/ Rest = <<>> /\ spoilt' = spoilt
  <2>1. CASE \E w \in Writers : out[w] # <<>>
    BY <1>1, <2>1, AtWork
  <2>2. CASE \A w \in Writers : out[w] = <<>>
    BY <1>1, <2>2, NoRest
  <2> QED BY <2>1, <2>2
<1>3. Rest' = Rest /\ Ahead' = Ahead /\ Done' = Done
  BY <1>1 DEF Rest, Ahead, Done
<1>4. spoilt' \subseteq DOMAIN sent /\ spoilt' \cap (1..Done) = {}
  BY <1>2, LastIsNew DEF Types, PlaceInv
<1>5. Types'
  BY <1>1, <1>4 DEF Types
<1>6. PlaceInv'
  <2>1. reader' = "reading" => \E a, c : LaidOut(a, c)'
    <3> SUFFICES ASSUME reader = "reading" PROVE \E a, c : LaidOut(a, c)'
      BY <1>1
    <3>1. PICK at, blk : LaidOut(at, blk)
      BY DEF PlaceInv
    <3>2. LaidOut(at, blk)'
      BY <1>1, <1>3, <3>1, LaidSame
    <3> QED BY <3>2
  <2>2. reader' = "reading" /\ spoilt' # {} => Rest # <<>> /\ spoilt' = {Len(sent)}
    <3>1. reader = "reading" => spoilt = {}
      BY <1>1 DEF PlaceInv
    <3> QED BY <1>1, <1>2, <3>1
  <2>3. Done <= Len(sent) /\ (Rest # <<>> => Done < Len(sent))
    BY DEF PlaceInv
  <2>4. Len(buf') > 5 => Len(buf') <= 5 + buf'[5]
    BY <1>1 DEF PlaceInv
  <2> QED BY <1>1, <1>3, <1>4, <2>1, <2>2, <2>3, <2>4 DEF PlaceInv
<1>7. EndInv'
  <2>1. spoilt' = {} => spoilt = {} /\ Rest' = <<>>
    BY <1>2, <1>3
  <2>2. StopsForAReason'
    BY <1>1, <2>1 DEF EndInv, StopsForAReason
  <2> QED BY <1>1, <2>1, <2>2 DEF EndInv
<1> QED BY <1>5, <1>6, <1>7

-----------------------------------------------------------------------------
(* The invariant, and what follows from it.                                *)

LEMMA FirstLaid == Init => LaidOut([i \in {1} |-> 0], <<>>)
<1> SUFFICES ASSUME Init PROVE LaidOut([i \in {1} |-> 0], <<>>)
  OBVIOUS
<1>1. /\ sent = <<>> /\ buf = <<>> /\ wire = <<>> /\ received = <<>> /\ lock = Nobody
  BY DEF Init
<1>2. Rest = <<>>
  BY <1>1, FramingAssumption DEF Rest
<1>3. Len(Ahead) = 0
  <2>1. (<<>> \o <<>>) \o <<>> = <<>>
    OBVIOUS
  <2> QED BY <1>1, <1>2, <2>1 DEF Ahead
<1>4. Len(sent) = 0 /\ Done = 0
  BY <1>1 DEF Done
<1> DEFINE at == [i \in {1} |-> 0]
<1>5. 1..(0 + 1) = {1} /\ at \in [{1} -> Nat] /\ at[1] = 0
  OBVIOUS
<1> HIDE DEF at
<1>6. at[0 + 1] - at[0 + 1] = 0
  BY <1>5
<1>7. \A i, j \in 1..(0 + 1) : i <= j => at[i] <= at[j]
  BY <1>5
<1>8. LaidOut(at, <<>>)
  BY <1>3, <1>4, <1>5, <1>6, <1>7 DEF LaidOut
<1> QED BY <1>8 DEF at

LEMMA InvInit == Init => Inv
<1> SUFFICES ASSUME Init PROVE Types /\ PlaceInv /\ EndInv
  BY DEF Inv
<1>1. /\ fault \in Faults \cup {"none"} /\ lock = Nobody /\ out = [w \in Writers |-> <<>>]
      /\ nextId = 1 /\ sent = <<>> /\ spoilt = {} /\ open = TRUE /\ wire = <<>>
      /\ reader = "reading" /\ buf = <<>> /\ received = <<>>
  BY DEF Init
<1>2. \A S : <<>> \in Seq(S) /\ Len(<<>>) = 0
  OBVIOUS
<1>3. Types
  <2>1. out \in [Writers -> Seq(Unit)] /\ \A w \in Writers : out[w] = <<>>
    BY <1>1, <1>2
  <2>2. nextId \in 1..WordLimit
    BY <1>1, WordFacts
  <2>3. Len(wire) <= Capacity
    BY <1>1, FramingAssumption
  <2> QED BY <1>1, <1>2, <2>1, <2>2, <2>3 DEF Types
<1>4. Rest = <<>> /\ Done = 0 /\ Len(sent) = 0
  BY <1>1, FramingAssumption DEF Rest, Done
<1>5. PlaceInv
  <2>1. \E at, blk : LaidOut(at, blk)
    BY FirstLaid
  <2> QED BY <1>1, <1>2, <1>4, <2>1 DEF PlaceInv
<1>6. EndInv
  BY <1>1, <1>4 DEF EndInv, StopsForAReason
<1> QED BY <1>3, <1>5, <1>6

\* What a behaviour suffers from is settled, and what is spoilt stays so.
LEMMA Settled == [Next]_vars => fault' = fault /\ spoilt \subseteq spoilt'
<1> SUFFICES ASSUME [Next]_vars PROVE fault' = fault /\ spoilt \subseteq spoilt'
  OBVIOUS
<1>1. ASSUME NEW w \in Writers, Begin(w) PROVE fault' = fault /\ spoilt \subseteq spoilt'
  BY <1>1 DEF Begin
<1>2. ASSUME NEW w \in Writers, Write(w) \/ WriteShort(w) \/ Release(w) \/ WriteFails(w)
      PROVE  fault' = fault /\ spoilt \subseteq spoilt'
  BY <1>2 DEF Write, WriteShort, Release, WriteFails
<1>3. CASE Close \/ Crash
  BY <1>3 DEF Close, Crash
<1>4. CASE Read \/ ReadNothing
  BY <1>4 DEF Read, ReadNothing, senderVars
<1>5. CASE UNCHANGED vars
  BY <1>5 DEF vars
<1> QED BY <1>1, <1>2, <1>3, <1>4, <1>5 DEF Next, Sender, Reader

\* A write that is cut short leaves what is behind it out of the invariant.
LEMMA CutUntold == ASSUME NEW w \in Writers, WriteShort(w) PROVE ~Told'
BY DEF WriteShort, Told

LEMMA StutterKeeps ==
  ASSUME Types, PlaceInv, EndInv, UNCHANGED vars
  PROVE  Types' /\ PlaceInv' /\ EndInv'
<1>1. UNCHANGED <<fault, lock, out, nextId, sent, spoilt, open, wire, reader, buf, received>>
  BY DEF vars
<1>2. Rest' = Rest /\ Ahead' = Ahead /\ Done' = Done
  BY <1>1 DEF Rest, Ahead, Done
<1>3. Types'
  BY <1>1 DEF Types
<1>4. PlaceInv'
  <2>1. reader' = "reading" => \E a, c : LaidOut(a, c)'
    <3> SUFFICES ASSUME reader = "reading" PROVE \E a, c : LaidOut(a, c)'
      BY <1>1
    <3>1. PICK at, blk : LaidOut(at, blk)
      BY DEF PlaceInv
    <3>2. LaidOut(at, blk)'
      BY <1>1, <1>2, <3>1, LaidSame
    <3> QED BY <3>2
  <2> QED BY <1>1, <1>2, <2>1 DEF PlaceInv
<1>5. EndInv'
  BY <1>1, <1>2 DEF EndInv, StopsForAReason
<1> QED BY <1>3, <1>4, <1>5

LEMMA InvNext == Inv /\ [Next]_vars => Inv'
<1> SUFFICES ASSUME Inv, [Next]_vars, Told' PROVE Types' /\ PlaceInv' /\ EndInv'
  BY DEF Inv
<1>1. Told
  BY Settled, ToldBefore
<1>2. Types /\ PlaceInv /\ EndInv
  BY <1>1 DEF Inv
<1>3. ASSUME NEW w \in Writers, Begin(w) PROVE Types' /\ PlaceInv' /\ EndInv'
  BY <1>1, <1>2, <1>3, BeginKeeps
<1>4. ASSUME NEW w \in Writers, Write(w) PROVE Types' /\ PlaceInv' /\ EndInv'
  BY <1>1, <1>2, <1>4, WriteKeeps
<1>5. ASSUME NEW w \in Writers, WriteShort(w) PROVE FALSE
  BY <1>5, CutUntold
<1>6. ASSUME NEW w \in Writers, Release(w) PROVE Types' /\ PlaceInv' /\ EndInv'
  BY <1>1, <1>2, <1>6, ReleaseKeeps
<1>7. ASSUME NEW w \in Writers, WriteFails(w) PROVE Types' /\ PlaceInv' /\ EndInv'
  BY <1>1, <1>2, <1>7, WriteFailsKeeps
<1>8. CASE Close
  BY <1>1, <1>2, <1>8, CloseKeeps
<1>9. CASE Crash
  BY <1>1, <1>2, <1>9, CrashKeeps
<1>10. CASE Read
  BY <1>1, <1>2, <1>10, ReadKeeps
<1>11. CASE ReadNothing
  BY <1>1, <1>2, <1>11, ReadNothingKeeps
<1>12. CASE UNCHANGED vars
  BY <1>2, <1>12, StutterKeeps
<1> QED BY <1>3, <1>4, <1>5, <1>6, <1>7, <1>8, <1>9, <1>10, <1>11, <1>12 DEF Next, Sender, Reader

LEMMA Invariant == Spec => []Inv
<1>1. Init => Inv
  BY InvInit
<1>2. Inv /\ [Next]_vars => Inv'
  BY InvNext
<1> QED BY <1>1, <1>2, PTL DEF Spec

\* Whatever may go wrong with the pipe: while no packet is spoilt and no read comes back
\* with nothing, read_packet ends with ConnectionClosedError only, and only when it has read
\* every packet that write_packet put out before the other end was closed (packet.py:93-97,
\* 166-180).
THEOREM StopsHonestly == Spec => []StopsForAReason
<1>1. Inv => StopsForAReason
  <2> SUFFICES ASSUME Inv, spoilt = {} PROVE StopsForAReason
    BY DEF StopsForAReason
  <2> QED BY DEF Inv, Told, EndInv
<1> QED BY <1>1, Invariant, PTL

LEMMA Held == Spec /\ fault # "cut" => [](Told /\ Types /\ PlaceInv /\ EndInv)
<1> DEFINE Whole == fault # "cut"
<1>1. Whole /\ [Next]_vars => Whole'
  BY Settled
<1>2. Inv /\ Whole => Told /\ Types /\ PlaceInv /\ EndInv
  BY DEF Inv, Told
<1> HIDE DEF Whole
<1>3. Spec /\ Whole => []Whole
  BY <1>1, PTL DEF Spec
<1>4. Spec /\ Whole => [](Told /\ Types /\ PlaceInv /\ EndInv)
  BY <1>2, <1>3, Invariant, PTL
<1> QED BY <1>4 DEF Whole

\* Unless a write is cut short: whatever is read, packet by packet, is a packet, an id that is
\* given out fits its field, the buffer never grows past the packet it holds, and the pipe
\* never past its capacity (packet.py:106-163, stream.py: next_message_id), whatever the number
\* of threads that write, the width of a field, the payloads and the capacity.
THEOREM TypeCorrect == Spec /\ fault # "cut" => []TypeOK
<1>1. Types /\ PlaceInv => TypeOK
  <2> SUFFICES ASSUME Types, PlaceInv PROVE TypeOK
    OBVIOUS
  <2>1. sent \in Seq(AllPackets)
    <3>1. Sent \subseteq AllPackets
      BY DEF Sent
    <3> QED BY <3>1, Wider DEF Types
  <2> QED BY <2>1 DEF Types, PlaceInv, TypeOK
<1> QED BY <1>1, Held, PTL

-----------------------------------------------------------------------------
(* The promise of the channel.                                             *)

LEMMA SameCardinality == ASSUME NEW S PROVE Chan!Cardinality(S) = Cardinality(S)
BY DEF Chan!Cardinality, Cardinality

LEMMA ReceivedNext ==
  ASSUME Types, PlaceInv, Done + 1 \in DOMAIN sent \ spoilt
  PROVE  Cardinality((1..(Done + 1)) \ spoilt) = Done + 1
<1>1. Done \in Nat /\ spoilt \cap (1..Done) = {}
  BY DEF Types, PlaceInv, Done
<1>2. \A i \in 1..(Done + 1) : i \in 1..Done \/ i = Done + 1
  BY <1>1
<1>3. (1..(Done + 1)) \ spoilt = 1..(Done + 1)
  BY <1>1, <1>2
<1>4. Cardinality(1..(Done + 1)) = Done + 1
  <2> DEFINE m == Done + 1
  <2>1. 1 \in Int /\ m \in Int /\ ~(1 > m)
    BY <1>1
  <2> HIDE DEF m
  <2>2. Cardinality(1..m) = IF 1 > m THEN 0 ELSE m - 1 + 1
    BY <2>1, FS_Interval
  <2>3. m - 1 + 1 = m
    BY <2>1
  <2>4. Cardinality(1..m) = m
    BY <2>1, <2>2, <2>3, Zenon
  <2> QED BY <2>4, Zenon DEF m
<1> QED BY <1>1, <1>3, <1>4

LEMMA LastHasNotArrived ==
  ASSUME Types, PlaceInv, Rest # <<>>
  PROVE  Len(sent) \in DOMAIN sent /\ ~Chan!Arrived(Len(sent))
<1> DEFINE n == Len(sent)
           S == (1..n) \ spoilt
           T == 1..Done
<1>1. n \in DOMAIN sent /\ n \notin T /\ Done \in Nat /\ Done < n /\ n \in Nat /\ spoilt \cap T = {}
  BY LastIsNew DEF Types
<1>2. ASSUME n \notin spoilt PROVE Cardinality(S) > Done
  <2>1. IsFiniteSet(T) /\ Cardinality(T) = Done
    <3>1. IsFiniteSet(1..Done) /\ Cardinality(1..Done) = IF 1 > Done THEN 0 ELSE Done - 1 + 1
      BY <1>1, FS_Interval
    <3> QED BY <1>1, <3>1
  <2>2. IsFiniteSet(T \cup {n}) /\ Cardinality(T \cup {n}) = Done + 1
    BY <1>1, <2>1, FS_AddElement
  <2>3. T \cup {n} \subseteq S
    <3>1. \A i \in T : i \in 1..n
      BY <1>1
    <3>2. n \in 1..n
      BY <1>1
    <3> HIDE DEF T, n
    <3> QED BY <1>1, <1>2, <3>1, <3>2
  <2>4. IsFiniteSet(S)
    <3>1. IsFiniteSet(1..n)
      BY <1>1, FS_Interval
    <3>2. S \in SUBSET (1..n)
      OBVIOUS
    <3> QED BY <3>1, <3>2, FS_Subset
  <2>5. Cardinality(T \cup {n}) <= Cardinality(S)
    BY <2>3, <2>4, FS_Subset
  <2>6. Cardinality(S) \in Nat
    BY <2>4, FS_CardinalityType
  <2> HIDE DEF S, T, n
  <2> QED BY <1>1, <2>2, <2>5, <2>6
<1>3. ~Chan!Arrived(n)
  <2> SUFFICES ASSUME Chan!Arrived(n) PROVE FALSE
    OBVIOUS
  <2>1. n \notin spoilt /\ Cardinality(S) <= Done
    BY SameCardinality DEF Chan!Arrived, Done
  <2>2. Cardinality(S) > Done
    BY <1>2, <2>1
  <2>3. Cardinality(S) \in Nat
    <3>1. IsFiniteSet(1..n)
      BY <1>1, FS_Interval
    <3>2. S \in SUBSET (1..n)
      OBVIOUS
    <3>3. IsFiniteSet(S)
      BY <3>1, <3>2, FS_Subset
    <3> QED BY <3>3, FS_CardinalityType
  <2> HIDE DEF S, n
  <2> QED BY <1>1, <2>1, <2>2, <2>3
<1> QED BY <1>1, <1>3

\* Every step hands a packet over, spoils the one that is being written, has the next of the
\* others read, or is none of the channel's.
LEMMA Promised ==
  ASSUME Told, Types, PlaceInv, EndInv, [Next]_vars
  PROVE  [Chan!ChanNext]_Chan!chanVars
<1> DEFINE Same == UNCHANGED <<sent, spoilt, received, fault>>
<1>1. ASSUME Same PROVE [Chan!ChanNext]_Chan!chanVars
  BY <1>1 DEF Chan!chanVars
<1>2. ASSUME NEW w \in Writers, Begin(w) PROVE Chan!Put
  <2>1. PICK payload \in Payloads, reply \in BOOLEAN :
          LET p == Packet(IF reply THEN 1 ELSE nextId, reply, payload) IN
          /\ Fits(p) /\ sent' = Append(sent, p)
          /\ \/ UNCHANGED spoilt
             \/ fault = "corrupt" /\ spoilt' = spoilt \cup {Len(sent) + 1}
    BY <1>2 DEF Begin
  <2>2. PICK p : p = Packet(IF reply THEN 1 ELSE nextId, reply, payload)
    OBVIOUS
  <2>3. p \in AllPackets /\ sent' = Append(sent, p)
    BY <2>1, <2>2, NewPacket DEF Types, Sent
  <2>4. UNCHANGED <<received, fault>>
    BY <1>2 DEF Begin, readerVars
  <2>5. /\ spoilt' \in {spoilt, spoilt \cup {Len(sent) + 1}}
        /\ spoilt' # spoilt => fault # "none"
    BY <2>1
  <2> QED BY <2>3, <2>4, <2>5 DEF Chan!Put
<1>3. ASSUME fault # "none", Rest # <<>>, spoilt' = spoilt \cup {Len(sent)},
             UNCHANGED <<sent, received, fault>>
      PROVE  Chan!Spoil
  BY <1>3, LastHasNotArrived DEF Chan!Spoil
<1>4. ASSUME NEW w \in Writers, Write(w) \/ Release(w) PROVE Same
  BY <1>4 DEF Write, Release, readerVars
<1>5. ASSUME NEW w \in Writers, WriteShort(w) PROVE Chan!Spoil
  <2>1. out[w] # <<>> /\ spoilt' = spoilt \cup {Len(sent)} /\ UNCHANGED <<sent, received, fault>>
    BY <1>5 DEF WriteShort, readerVars
  <2>2. fault # "none"
    BY <1>5 DEF WriteShort
  <2>3. Rest # <<>>
    BY <2>1, AtWork
  <2> QED BY <1>3, <2>1, <2>2, <2>3
<1>6. ASSUME NEW w \in Writers, WriteFails(w) PROVE Chan!Spoil
  <2>1. out[w] # <<>> /\ spoilt' = spoilt \cup {Len(sent)} /\ UNCHANGED <<sent, received, fault>>
    BY <1>6 DEF WriteFails, readerVars
  <2>2. Rest # <<>> /\ fault # "none"
    BY <1>6, <2>1, AtWork, WriteFailsKeeps
  <2> QED BY <1>3, <2>1, <2>2
<1>7. CASE Close
  <2>1. Same
    BY <1>7 DEF Close, readerVars
  <2> QED BY <1>1, <2>1
<1>8. CASE Crash
  <2>1. fault # "none" /\ UNCHANGED <<sent, received, fault>>
    BY <1>8 DEF Crash, readerVars
  <2>2. CASE \E w \in Writers : out[w] # <<>>
    <3>1. spoilt' = spoilt \cup {Len(sent)}
      BY <1>8, <2>2 DEF Crash
    <3>2. Rest # <<>>
      BY <2>2, AtWork
    <3>3. Chan!Spoil
      BY <1>3, <2>1, <3>1, <3>2
    <3> QED BY <3>3 DEF Chan!ChanNext
  <2>3. CASE ~\E w \in Writers : out[w] # <<>>
    <3>1. spoilt' = spoilt
      BY <1>8, <2>3 DEF Crash
    <3> QED BY <1>1, <2>1, <3>1
  <2> QED BY <2>2, <2>3
<1>9. CASE Read
  <2>1. UNCHANGED <<sent, spoilt, fault>>
    BY <1>9 DEF Read, senderVars
  <2>2. Receives
    BY <1>9, ReadKeeps
  <2>3. CASE received' = received
    BY <1>1, <2>1, <2>3
  <2>4. CASE /\ Done + 1 \in DOMAIN sent \ spoilt
             /\ received' = Append(received, AsRead(sent[Done + 1]))
    <3>1. PICK i : i = Done + 1
      OBVIOUS
    <3>2. /\ i \in DOMAIN sent \ spoilt /\ Cardinality((1..i) \ spoilt) = Len(received) + 1
          /\ received' = Append(received, AsRead(sent[i]))
      BY <2>4, <3>1, ReceivedNext DEF Done
    <3>3. Chan!Take
      BY <2>1, <3>2, SameCardinality DEF Chan!Take
    <3> QED BY <3>3 DEF Chan!ChanNext
  <2> QED BY <2>2, <2>3, <2>4 DEF Receives
<1>10. CASE ReadNothing
  <2>1. Same
    BY <1>10, ReadNothingKeeps DEF ReadNothing, senderVars
  <2> QED BY <1>1, <2>1
<1>11. CASE UNCHANGED vars
  <2>1. Same
    BY <1>11 DEF vars
  <2> QED BY <1>1, <2>1
<1> HIDE DEF Same
<1> QED BY <1>1, <1>2, <1>4, <1>5, <1>6, <1>7, <1>8, <1>9, <1>10, <1>11
        DEF Next, Sender, Reader, Chan!ChanNext

\* Unless a write is cut short: however the pipe divides what is written, and wherever the
\* writing process ends, the other end reads the packets that were put out, whole, in order and
\* as they were, except what is damaged or torn, which read_packet never takes for a packet
\* (packet.py:106-163, __main__.py: StdioTransport); with nothing wrong none is left out before
\* another.
THEOREM Implements == Spec /\ fault # "cut" => ImplementsChannel
<1>1. Init => Chan!ChanInit
  <2> SUFFICES ASSUME Init PROVE Chan!ChanInit
    OBVIOUS
  <2>1. sent = <<>> /\ spoilt = {} /\ received = <<>>
    BY DEF Init
  <2>2. (fault # "none") \in BOOLEAN
    OBVIOUS
  <2> QED BY <2>1, <2>2 DEF Chan!ChanInit
<1>2. (Told /\ Types /\ PlaceInv /\ EndInv) /\ [Next]_vars => [Chan!ChanNext]_Chan!chanVars
  BY Promised
<1> QED BY <1>1, <1>2, Held, PTL DEF Spec, ImplementsChannel, Chan!ChanSpec
=============================================================================
