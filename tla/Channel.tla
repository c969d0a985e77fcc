------------------------------- MODULE Channel -------------------------------
(***************************************************************************)
(* What one direction of the wire promises the connection above it: the     *)
(* packets that were sent, in that order and unaltered, without those that  *)
(* something spoilt on the way; and nothing is spoilt unless something may   *)
(* go wrong.                                                                *)
(***************************************************************************)
EXTENDS Naturals, Sequences, FiniteSets

CONSTANTS
  Packets,      \* what can be sent
  AsRead(_)     \* what the other end takes a packet for

VARIABLES
  sent,       \* every packet that was handed over
  spoilt,     \* the indices of those that will not arrive
  received,   \* what the other end has read
  faulty      \* something may go wrong

chanVars == <<sent, spoilt, received, faulty>>

ChanInit == sent = <<>> /\ spoilt = {} /\ received = <<>> /\ faulty \in BOOLEAN

\* A packet may be spoilt as it is handed over, or later, by the end of its sender.
Put ==
  /\ \E p \in Packets : sent' = Append(sent, p)
  /\ spoilt' \in {spoilt, spoilt \cup {Len(sent) + 1}}
  /\ spoilt' # spoilt => faulty
  /\ UNCHANGED <<received, faulty>>

Arrived(i) == i \notin spoilt /\ Cardinality((1..i) \ spoilt) <= Len(received)

Spoil ==
  /\ faulty
  /\ \E i \in DOMAIN sent : ~Arrived(i) /\ spoilt' = spoilt \cup {i}
  /\ UNCHANGED <<sent, received, faulty>>

Take ==
  /\ \E i \in DOMAIN sent \ spoilt :
       /\ Cardinality((1..i) \ spoilt) = Len(received) + 1
       /\ received' = Append(received, AsRead(sent[i]))
  /\ UNCHANGED <<sent, spoilt, faulty>>

ChanNext == Put \/ Spoil \/ Take
ChanSpec == ChanInit /\ [][ChanNext]_chanVars
=============================================================================
