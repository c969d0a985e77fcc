-------------------------------- MODULE Pool --------------------------------
(***************************************************************************)
(* A pool of variables: class Variables of server.py and the commands       *)
(* pool_add, pool_consume and pool_generate of one test case.  The pool     *)
(* keeps a list it draws an index of; a consumed variable stays in the list *)
(* until everything behind it is consumed too.                              *)
(***************************************************************************)
EXTENDS Naturals, Sequences

CONSTANTS
  MaxAdds,   \* bound: variables issued
  Unissued   \* ids the client consumes though none was issued yet; {} for a
             \* client that consumes only what it was given

ASSUME PoolAssumption == MaxAdds \in Nat /\ Unissued \subseteq Nat \ {0}

VARIABLES last_id, variables, removed, answer, status

vars == <<last_id, variables, removed, answer, status>>

Last == variables[Len(variables)]
Live == {variables[i] : i \in 1..Len(variables)} \ removed

Init ==
  /\ last_id = 0 /\ variables = <<>> /\ removed = {}
  /\ answer = 0 /\ status = "VALID"

\* pool_add
Add ==
  /\ status = "VALID" /\ last_id < MaxAdds
  /\ last_id' = last_id + 1
  /\ variables' = Append(variables, last_id + 1)
  /\ answer' = last_id + 1
  /\ UNCHANGED <<removed, status>>

\* Variables.consume: note v removed, then pop what is removed off the end.
Drop_One(v) ==  \* mutant: pops once where the code loops
  /\ removed' = removed \cup {v}
  /\ variables' = IF variables # <<>> /\ Last = v
                  THEN SubSeq(variables, 1, Len(variables) - 1) ELSE variables
  /\ UNCHANGED last_id

Drop(v) ==
  /\ removed' = removed \cup {v}
  /\ \E n \in 0..Len(variables) :
       /\ variables' = SubSeq(variables, 1, n)
       /\ \A i \in (n + 1)..Len(variables) : variables[i] \in removed'
       /\ n > 0 => variables[n] \notin removed'
  /\ UNCHANGED last_id

\* pool_consume
Consume(v) ==
  /\ status = "VALID"
  /\ Drop(v)
  /\ answer' = 0
  /\ UNCHANGED status

\* What three draws of an index come to: the first variable among them that is
\* still there or, when all three were removed, the last of the list.
Drawn_First(tries, v) ==  \* mutant: does not look at removed
  v = variables[tries[1]]

Drawn(tries, v) ==
  \/ \E k \in 1..3 : /\ v = variables[tries[k]] /\ v \notin removed
                     /\ \A j \in 1..(k - 1) : variables[tries[j]] \in removed
  \/ v = Last /\ \A k \in 1..3 : variables[tries[k]] \in removed

\* pool_generate, with consume or without
Generate ==
  /\ status = "VALID" /\ variables # <<>>
  /\ \E tries \in [1..3 -> 1..Len(variables)] : \E i \in 1..Len(variables) :
       /\ Drawn(tries, variables[i])
       /\ answer' = variables[i]
       /\ Drop(variables[i]) \/ UNCHANGED <<last_id, variables, removed>>
  /\ UNCHANGED status

\* An empty list rejects the test case.
GenerateNone ==
  /\ status = "VALID" /\ variables = <<>>
  /\ status' = "INVALID" /\ answer' = 0
  /\ UNCHANGED <<last_id, variables, removed>>

\* draw_integer finds the test case's data used up.
Overrun ==
  /\ status = "VALID" /\ variables # <<>>
  /\ status' = "OVERRUN" /\ answer' = 0
  /\ UNCHANGED <<last_id, variables, removed>>

Next ==
  \/ Add \/ Generate \/ GenerateNone \/ Overrun
  \/ \E v \in 1..last_id \cup Unissued : Consume(v)

Spec == Init /\ [][Next]_vars

-----------------------------------------------------------------------------
(* Properties.                                                             *)

TypeOK ==
  /\ last_id \in Nat /\ variables \in Seq(Nat \ {0}) /\ removed \subseteq Nat \ {0}
  /\ answer \in Nat /\ status \in {"VALID", "INVALID", "OVERRUN"}

\* Whatever was consumed and in whatever order, the variable at the end of the
\* list is a live one, so that the draw pool_generate falls back on after three
\* removed ones (server.py:149-156) is never of a removed variable, unless the
\* client had consumed the id before it was given out.
LastIsLive == variables # <<>> => Last \notin removed \/ Last \in Unissued

\* The list names every id that is not removed, once, oldest first.
Ordered ==
  /\ \A i \in 1..Len(variables) : variables[i] \in 1..last_id
  /\ \A i, j \in 1..Len(variables) : i < j => variables[i] < variables[j]
Complete == \A v \in 1..last_id : v \in Live \/ v \in removed
Known == removed \subseteq 1..last_id \cup Unissued

PoolInv == TypeOK /\ LastIsLive /\ Ordered /\ Complete /\ Known

\* A client that consumes only what it was given cannot tell the list from a set
\* of live ids (server.py:122-166): ids are issued once, every draw is of a live
\* id, and a test case is rejected for an empty pool only when no id is live.
Abstract == INSTANCE PoolSet WITH issued <- last_id, live <- Live
ImplementsSet == Abstract!SetSpec
=============================================================================
