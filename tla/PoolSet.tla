------------------------------- MODULE PoolSet -------------------------------
(***************************************************************************)
(* What a pool of variables promises a client: a set of live ids.  An id is *)
(* issued once, lives until it is consumed and never again, every draw is a *)
(* live id, and a draw rejects the test case exactly when none is left.     *)
(***************************************************************************)
EXTENDS Naturals

VARIABLES
  issued,   \* how many ids have been given out: they are 1..issued
  live,     \* those not consumed
  answer,   \* the id the last command returned, 0 for none
  status    \* of the test case: it goes on while this is "VALID"

setVars == <<issued, live, answer, status>>

SetInit == issued = 0 /\ live = {} /\ answer = 0 /\ status = "VALID"

SetAdd ==
  /\ issued' = issued + 1
  /\ live' = live \cup {issued + 1}
  /\ answer' = issued + 1
  /\ UNCHANGED status

SetConsume(v) ==
  /\ v \in 1..issued
  /\ live' = live \ {v}
  /\ answer' = 0
  /\ UNCHANGED <<issued, status>>

\* A draw, which may consume what it draws.
SetGenerate(v) ==
  /\ v \in live
  /\ answer' = v
  /\ live' \in {live, live \ {v}}
  /\ UNCHANGED <<issued, status>>

\* No variable to draw, or no data left to draw one with.
SetReject(s) ==
  /\ s = IF live = {} THEN "INVALID" ELSE "OVERRUN"
  /\ status' = s
  /\ answer' = 0
  /\ UNCHANGED <<issued, live>>

SetNext ==
  /\ status = "VALID"
  /\ \/ SetAdd
     \/ \E v \in 1..issued : SetConsume(v)
     \/ \E v \in live : SetGenerate(v)
     \/ \E s \in {"INVALID", "OVERRUN"} : SetReject(s)

SetSpec == SetInit /\ [][SetNext]_setVars
=============================================================================
