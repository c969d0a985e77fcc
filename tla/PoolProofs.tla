----------------------------- MODULE PoolProofs -----------------------------
(***************************************************************************)
(* Proofs about Pool: its inductive invariant PoolInv, and that it          *)
(* implements the set of PoolSet.                                          *)
(***************************************************************************)
EXTENDS Pool, TLAPS

LEMMA PrefixOf ==
  ASSUME NEW S, NEW q \in Seq(S), NEW n \in 0..Len(q)
  PROVE  /\ SubSeq(q, 1, n) \in Seq(S) /\ Len(SubSeq(q, 1, n)) = n
         /\ \A i \in 1..n : SubSeq(q, 1, n)[i] = q[i]
OBVIOUS

\* What Drop does to the set of live ids and to the invariant.
LEMMA DropEffect ==
  ASSUME PoolInv, NEW v \in 1..last_id \cup Unissued, Drop(v)
  PROVE  /\ Live' = Live \ {v} /\ UNCHANGED last_id
         /\ variables' \in Seq(Nat \ {0}) /\ removed' \subseteq Nat \ {0}
         /\ LastIsLive' /\ Ordered' /\ Complete' /\ Known'
<1>1. last_id \in Nat /\ variables \in Seq(Nat \ {0}) /\ removed \subseteq Nat \ {0} /\ v \in Nat \ {0}
  BY PoolAssumption DEF PoolInv, TypeOK
<1>2. PICK n \in 0..Len(variables) :
        /\ variables' = SubSeq(variables, 1, n)
        /\ \A i \in (n + 1)..Len(variables) : variables[i] \in removed'
        /\ n > 0 => variables[n] \notin removed'
  BY DEF Drop
<1>3. removed' = removed \cup {v} /\ last_id' = last_id
  BY DEF Drop
<1>4. /\ variables' \in Seq(Nat \ {0}) /\ Len(variables') = n
      /\ \A i \in 1..n : variables'[i] = variables[i]
  BY <1>1, <1>2, PrefixOf
<1>5. Live' = Live \ {v}
  <2>1. ASSUME NEW x \in Live' PROVE x \in Live \ {v}
    <3>1. PICK i \in 1..n : x = variables'[i] /\ x \notin removed'
      BY <1>4, <2>1 DEF Live
    <3>2. i \in 1..Len(variables) /\ variables[i] = x
      BY <1>1, <1>4, <3>1
    <3> QED BY <1>3, <3>1, <3>2 DEF Live
  <2>2. ASSUME NEW x \in Live \ {v} PROVE x \in Live'
    <3>1. PICK i \in 1..Len(variables) : x = variables[i] /\ x \notin removed'
      BY <1>3, <2>2 DEF Live
    <3>2. i \in 1..n
      BY <1>1, <1>2, <3>1
    <3>3. i \in 1..Len(variables') /\ variables'[i] = x
      BY <1>4, <3>1, <3>2
    <3> QED BY <3>1, <3>3 DEF Live
  <2> QED BY <2>1, <2>2
<1>6. LastIsLive'
  BY <1>1, <1>2, <1>4 DEF LastIsLive, Last
<1>7. Ordered'
  <2>1. \A i \in 1..n : i \in 1..Len(variables) /\ variables'[i] = variables[i]
    BY <1>1, <1>4
  <2> QED BY <1>3, <1>4, <2>1 DEF PoolInv, Ordered
<1>8. Complete' /\ Known'
  <2>1. Complete'
    BY <1>3, <1>5 DEF PoolInv, Complete
  <2>2. Known'
    BY <1>3 DEF PoolInv, Known
  <2> QED BY <2>1, <2>2
<1>9. removed' \subseteq Nat \ {0}
  BY <1>1, <1>3
<1> QED BY <1>3, <1>4, <1>5, <1>6, <1>7, <1>8, <1>9

LEMMA AddEffect ==
  ASSUME PoolInv, Add
  PROVE  PoolInv' /\ (last_id + 1 \notin removed => Live' = Live \cup {last_id + 1})
<1>1. last_id \in Nat /\ variables \in Seq(Nat \ {0}) /\ removed \subseteq Nat \ {0}
  BY DEF PoolInv, TypeOK
<1>2. /\ last_id' = last_id + 1 /\ removed' = removed
      /\ variables' = Append(variables, last_id + 1) /\ answer' = last_id + 1
      /\ status' = status
  BY DEF Add
<1>3. /\ variables' \in Seq(Nat \ {0}) /\ Len(variables') = Len(variables) + 1
      /\ \A i \in 1..Len(variables) : variables'[i] = variables[i]
      /\ variables'[Len(variables) + 1] = last_id + 1
  BY <1>1, <1>2
<1>4. TypeOK'
  BY <1>1, <1>2, <1>3 DEF PoolInv, TypeOK
<1>5. LastIsLive'
  BY <1>1, <1>2, <1>3 DEF LastIsLive, Last, PoolInv, Known
<1>6. Ordered'
  <2>1. \A i \in 1..Len(variables) : variables[i] \in 1..last_id
    BY DEF PoolInv, Ordered
  <2>2. \A i \in 1..Len(variables') : variables'[i] \in 1..last_id'
    BY <1>1, <1>2, <1>3, <2>1
  <2>3. \A i, j \in 1..Len(variables') : i < j => variables'[i] < variables'[j]
    <3> SUFFICES ASSUME NEW i \in 1..Len(variables'), NEW j \in 1..Len(variables'), i < j
                 PROVE  variables'[i] < variables'[j]
      OBVIOUS
    <3>1. CASE j \in 1..Len(variables)
      <4>1. i \in 1..Len(variables) /\ variables'[i] = variables[i] /\ variables'[j] = variables[j]
        BY SMTT(30), <1>1, <1>3, <3>1
      <4> QED BY <3>1, <4>1 DEF PoolInv, Ordered
    <3>2. CASE j = Len(variables) + 1
      <4>1. i \in 1..Len(variables) /\ variables[i] \in 1..last_id
        BY <1>1, <1>3, <2>1, <3>2
      <4> QED BY SMTT(30), <1>1, <1>3, <3>2, <4>1
    <3> QED BY SMTT(30), <1>1, <1>3, <3>1, <3>2
  <2> QED BY <2>2, <2>3 DEF Ordered
<1>7. \A x : x \in Live' <=> (x \in Live \/ (x = last_id + 1 /\ x \notin removed))
  <2>1. ASSUME NEW x \in Live PROVE x \in Live'
    BY <1>1, <1>2, <1>3, <2>1 DEF Live
  <2>2. ASSUME last_id + 1 \notin removed PROVE last_id + 1 \in Live'
    BY <1>1, <1>2, <1>3, <2>2 DEF Live
  <2>3. ASSUME NEW x \in Live', x # last_id + 1 PROVE x \in Live
    <3>1. PICK i \in 1..Len(variables') : x = variables'[i] /\ x \notin removed
      BY <1>2, <2>3 DEF Live
    <3>2. i \in 1..Len(variables)
      BY <1>1, <1>3, <2>3, <3>1
    <3> QED BY <1>3, <3>1, <3>2 DEF Live
  <2>4. ASSUME last_id + 1 \in Live' PROVE last_id + 1 \notin removed
    BY <1>2, <2>4 DEF Live
  <2> QED BY <2>1, <2>2, <2>3, <2>4
<1>8. Complete'
  BY SMTT(30), <1>1, <1>2, <1>7 DEF PoolInv, Complete
<1>9. Known'
  BY <1>1, <1>2 DEF PoolInv, Known
<1> QED BY <1>4, <1>5, <1>6, <1>7, <1>8, <1>9 DEF PoolInv

LEMMA PoolInit == Init => PoolInv
BY DEF Init, PoolInv, TypeOK, LastIsLive, Ordered, Complete, Known

LEMMA PoolNext == PoolInv /\ [Next]_vars => PoolInv'
<1> SUFFICES ASSUME PoolInv, [Next]_vars PROVE PoolInv'
  OBVIOUS
<1>same. ASSUME UNCHANGED <<last_id, variables, removed>>, TypeOK' PROVE PoolInv'
  BY <1>same DEF PoolInv, LastIsLive, Last, Ordered, Complete, Live, Known
<1>1. CASE Add
  BY <1>1, AddEffect
<1>2. CASE Generate
  <2>1. PICK i \in 1..Len(variables) :
          answer' = variables[i] /\ (Drop(variables[i]) \/ UNCHANGED <<last_id, variables, removed>>)
    BY <1>2 DEF Generate
  <2>2. PICK v : v = variables[i] /\ v \in 1..last_id
    BY <2>1 DEF PoolInv, Ordered
  <2>3. status' = status /\ answer' \in Nat
    BY <1>2, <2>1, <2>2 DEF Generate, PoolInv, TypeOK
  <2>4. CASE Drop(v)
    BY <2>3, <2>2, <2>4, DropEffect DEF PoolInv, TypeOK
  <2>5. CASE UNCHANGED <<last_id, variables, removed>>
    BY <1>same, <2>3, <2>5 DEF PoolInv, TypeOK
  <2> QED BY <2>1, <2>2, <2>4, <2>5
<1>3. CASE GenerateNone \/ Overrun
  <2>1. UNCHANGED <<last_id, variables, removed>> /\ answer' = 0 /\ status' \in {"INVALID", "OVERRUN"}
    BY <1>3 DEF GenerateNone, Overrun
  <2>2. TypeOK'
    BY <2>1 DEF PoolInv, TypeOK
  <2> QED BY <1>same, <2>1, <2>2
<1>4. ASSUME NEW v \in 1..last_id \cup Unissued, Consume(v) PROVE PoolInv'
  BY <1>4, DropEffect DEF Consume, PoolInv, TypeOK
<1>5. CASE UNCHANGED vars
  BY <1>5, <1>same DEF vars, PoolInv, TypeOK
<1> QED BY <1>1, <1>2, <1>3, <1>4, <1>5 DEF Next

\* The fallback draw of pool_generate (server.py:149-156) is of a live variable,
\* however many variables the client has and in whatever order it consumes them.
THEOREM LastAlwaysLive == Spec => []LastIsLive
<1>1. PoolInv => LastIsLive
  BY DEF PoolInv
<1> QED BY <1>1, PoolInit, PoolNext, PTL DEF Spec

-----------------------------------------------------------------------------
(* The refinement.                                                         *)

LEMMA SetInitial == Init => Abstract!SetInit
BY DEF Init, Abstract!SetInit, Live

LEMMA SetStep ==
  ASSUME Unissued = {}, PoolInv, [Next]_vars
  PROVE  [Abstract!SetNext]_(Abstract!setVars)
<1> USE DEF Abstract!SetNext, Abstract!setVars
<1> last_id \in Nat /\ variables \in Seq(Nat \ {0})
  BY DEF PoolInv, TypeOK
<1>live. variables # <<>> <=> Live # {}
  BY DEF PoolInv, LastIsLive, Last, Live
<1>1. CASE Add
  <2>1. last_id + 1 \notin removed
    BY DEF PoolInv, Known
  <2> QED BY <1>1, <2>1, AddEffect DEF Add, Abstract!SetAdd
<1>2. CASE Generate
  <2>1. PICK tries \in [1..3 -> 1..Len(variables)], i \in 1..Len(variables) :
          /\ Drawn(tries, variables[i]) /\ answer' = variables[i]
          /\ Drop(variables[i]) \/ UNCHANGED <<last_id, variables, removed>>
    BY <1>2 DEF Generate
  <2>2. PICK v : v = variables[i] /\ v \in 1..last_id
    BY <2>1 DEF PoolInv, Ordered
  <2>3. v \in Live
    <3>1. v \notin removed
      <4>1. CASE variables[i] \notin removed
        BY <2>2, <4>1
      <4>2. CASE variables[i] = Last
        <5>1. variables # <<>>
          BY <1>2 DEF Generate
        <5> QED BY <2>2, <4>2, <5>1 DEF PoolInv, LastIsLive
      <4>3. variables[i] \notin removed \/ variables[i] = Last
        BY <2>1, Zenon DEF Drawn
      <4> QED BY <4>1, <4>2, <4>3
    <3> QED BY <2>2, <3>1 DEF Live
  <2>4. Live' \in {Live, Live \ {v}} /\ last_id' = last_id
    <3>1. CASE Drop(v)
      BY <2>2, <3>1, DropEffect
    <3>2. CASE UNCHANGED <<last_id, variables, removed>>
      BY <3>2 DEF Live
    <3> QED BY <2>1, <2>2, <3>1, <3>2
  <2>5. Abstract!SetGenerate(v)
    BY <1>2, <2>1, <2>2, <2>3, <2>4 DEF Abstract!SetGenerate, Generate
  <2> QED BY <1>2, <2>3, <2>5 DEF Generate
<1>3. CASE GenerateNone \/ Overrun
  <2>1. Live' = Live
    BY <1>3 DEF GenerateNone, Overrun, Live
  <2> QED BY <1>3, <1>live, <2>1 DEF GenerateNone, Overrun, Abstract!SetReject
<1>4. ASSUME NEW v \in 1..last_id, Consume(v) PROVE Abstract!SetNext
  BY <1>4, DropEffect DEF Consume, Abstract!SetConsume
<1>5. CASE UNCHANGED vars
  BY <1>5 DEF vars, Live
<1> QED BY <1>1, <1>2, <1>3, <1>4, <1>5 DEF Next

\* For a client that consumes only what it was given, class Variables is a set
\* of live ids: no draw ever returns a consumed variable, and a draw rejects the
\* test case as invalid exactly when no variable is live.
THEOREM PoolImplementsSet == ASSUME Unissued = {} PROVE Spec => ImplementsSet
<1>1. PoolInv /\ [Next]_vars => [Abstract!SetNext]_(Abstract!setVars)
  BY SetStep
<1>2. Spec => []PoolInv
  BY PoolInit, PoolNext, PTL DEF Spec
<1> QED BY <1>1, <1>2, SetInitial, PTL DEF Spec, ImplementsSet, Abstract!SetSpec
=============================================================================
