----------------------------- MODULE SchemaProofs -----------------------------
(***************************************************************************)
(* Proofs about Schema, for any characters, bounds and nesting: what is     *)
(* drawn for a schema, written down, is what the documentation promises of  *)
(* it, and two values that differ are written differently (SchemaRight).    *)
(*                                                                         *)
(* A schema's values and their encodings are defined by recursion over the  *)
(* schemas inside it, so each recursive function is first shown to exist,   *)
(* level by level: were one not to, a least level would lack it (Least).    *)
(***************************************************************************)
EXTENDS Schema, FiniteSetTheorems, WellFoundedInduction, TLAPS

-----------------------------------------------------------------------------
(* The levels of schemas, and what is below one.                           *)

\* Of any natural numbers one is the least.
LEMMA Least ==
  ASSUME NEW T, T \subseteq Nat, T # {}
  PROVE  \E m \in T : \A k \in T : m <= k
<1> DEFINE R == OpToRel(<, Nat)
<1>1. IsWellFoundedOn(R, Nat)
  BY NatLessThanWellFounded
<1>2. \A x, y \in Nat : y < x => <<y, x>> \in R
  BY DEF OpToRel
<1> HIDE DEF R
<1>3. PICK m \in T : \A k \in T : ~(<<k, m>> \in R)
  BY <1>1, WFMin
<1>4. \A k \in T : ~(k < m)
  BY <1>2, <1>3, Zenon
<1>5. \A k \in T : k \in Nat /\ m \in Nat
  OBVIOUS
<1>6. \A k \in T : m <= k
  BY <1>4, <1>5
<1> QED BY <1>6

LEMMA Wider ==
  ASSUME NEW S, NEW T, S \subseteq T
  PROVE  \A s \in Seq(S) : s \in Seq(T)
OBVIOUS

LEMMA BothIn ==
  ASSUME NEW S, NEW q \in Seq(S), Len(q) = 2
  PROVE  q[1] \in S /\ q[2] \in S
<1>1. DOMAIN q = 1..2
  OBVIOUS
<1>2. 1 \in DOMAIN q /\ 2 \in DOMAIN q
  BY <1>1
<1>3. \A i \in DOMAIN q : q[i] \in S
  OBVIOUS
<1> QED BY <1>2, <1>3, Zenon

\* The compound schemas are those of all the levels, level after level.
LEMMA LevelsType ==
  /\ Len(Levels) \in Nat /\ DOMAIN Levels = 1..Len(Levels) /\ Deepest \in Nat /\ Deepest = 2 * Len(Levels) + 1
  /\ Below(1) = {} /\ Below(Len(Levels) + 1) = Compounds
  /\ \A n \in DOMAIN Levels : Below(n + 1) = Below(n) \cup Levels[n]
<1>1. Len(Levels) \in Nat /\ DOMAIN Levels = 1..Len(Levels)
  BY SchemaAssumption
<1>2. Deepest \in Nat /\ Deepest = 2 * Len(Levels) + 1
  BY <1>1 DEF Deepest
<1>3. Below(1) = {}
  BY DEF Below
<1>4. Below(Len(Levels) + 1) = Compounds
  <2>1. 1..((Len(Levels) + 1) - 1) = DOMAIN Levels
    BY <1>1
  <2> QED BY <2>1, Zenon DEF Below, Compounds, Range
<1>5. \A n \in DOMAIN Levels : Below(n + 1) = Below(n) \cup Levels[n]
  <2> SUFFICES ASSUME NEW n \in DOMAIN Levels PROVE Below(n + 1) = Below(n) \cup Levels[n]
    OBVIOUS
  <2>1. \A m : m \in 1..((n + 1) - 1) <=> m \in 1..(n - 1) \/ m = n
    BY <1>1
  <2> QED BY <2>1, Zenon DEF Below
<1> QED BY <1>1, <1>2, <1>3, <1>4, <1>5

-----------------------------------------------------------------------------
(* The recursive functions are there.                                      *)

\* f is what Nested is said to be, as far as n, and from the atoms A.
NestedUpTo(A, n, f) ==
  f = [k \in 0..n |-> IF k = 0 THEN A ELSE A \cup ({"list", "tuple", "array"} \X Seq(f[k - 1]))]

LEMMA NestedExists == ASSUME NEW A, NEW n \in Nat PROVE \E f : NestedUpTo(A, n, f)
<1> DEFINE T == {k \in Nat : ~\E f : NestedUpTo(A, k, f)}
<1> SUFFICES ASSUME T # {} PROVE FALSE
  OBVIOUS
<1>1. PICK m \in T : \A k \in T : m <= k
  BY Least
<1>2. m \in Nat /\ ~\E f : NestedUpTo(A, m, f)
  OBVIOUS
<1>3. m # 0
  <2> SUFFICES ASSUME m = 0 PROVE FALSE
    OBVIOUS
  <2> DEFINE f == [k \in 0..0 |-> A]
  <2>1. \A k : k \in 0..0 <=> k = 0
    OBVIOUS
  <2>2. NestedUpTo(A, 0, f)
    BY <2>1 DEF NestedUpTo
  <2> QED BY <1>2, <2>2
<1>4. PICK k \in Nat : m = k + 1
  <2>1. m - 1 \in Nat /\ m = (m - 1) + 1
    BY <1>2, <1>3
  <2> QED BY <2>1
<1>5. PICK f : NestedUpTo(A, k, f)
  <2>1. k \notin T
    BY <1>1, <1>4
  <2> QED BY <2>1
<1> DEFINE deeper(S) == A \cup ({"list", "tuple", "array"} \X Seq(S))
           g == [i \in 0..(k + 1) |-> IF i = k + 1 THEN deeper(f[k]) ELSE f[i]]
<1>6. \A i \in 0..k : i \in 0..(k + 1) /\ g[i] = f[i] /\ f[i] = IF i = 0 THEN A ELSE deeper(f[i - 1])
  <2>1. \A i \in 0..k : i \in 0..(k + 1) /\ i # k + 1
    OBVIOUS
  <2>2. \A i \in 0..k : f[i] = IF i = 0 THEN A ELSE deeper(f[i - 1])
    BY <1>5, Zenon DEF NestedUpTo
  <2>3. \A i \in 0..k : g[i] = f[i]
    BY <2>1, Zenon
  <2> QED BY <2>1, <2>2, <2>3
<1>7. \A i \in 0..(k + 1) : g[i] = IF i = 0 THEN A ELSE deeper(g[i - 1])
  <2> SUFFICES ASSUME NEW i \in 0..(k + 1) PROVE g[i] = IF i = 0 THEN A ELSE deeper(g[i - 1])
    OBVIOUS
  <2>1. CASE i = k + 1
    <3>1. i # 0 /\ i - 1 = k /\ k \in 0..k
      BY <2>1
    <3>2. g[i] = deeper(f[k])
      BY <2>1, Zenon
    <3>3. g[k] = f[k]
      BY <1>6, <3>1, Zenon
    <3> HIDE DEF g, deeper
    <3> QED BY <3>1, <3>2, <3>3
  <2>2. CASE i # k + 1
    <3>1. i \in 0..k /\ (i # 0 => i - 1 \in 0..k)
      BY <2>2
    <3> HIDE DEF g, deeper
    <3> QED BY <1>6, <3>1
  <2> QED BY <2>1, <2>2
<1>8. NestedUpTo(A, k + 1, g)
  <2>1. g = [i \in 0..(k + 1) |-> g[i]]
    BY Zenon
  <2> HIDE DEF g
  <2>2. [i \in 0..(k + 1) |-> g[i]] = [i \in 0..(k + 1) |-> IF i = 0 THEN A ELSE deeper(g[i - 1])]
    BY <1>7, Zenon
  <2> QED BY <2>1, <2>2, Zenon DEF NestedUpTo
<1> QED BY <1>2, <1>4, <1>8

\* Nested is what its recursive definition says.
LEMMA NestedDef ==
  \A n \in 0..Deepest :
    Nested[n] = IF n = 0 THEN Atoms ELSE Atoms \cup ({"list", "tuple", "array"} \X Seq(Nested[n - 1]))
<1>1. \E f : NestedUpTo(Atoms, Deepest, f)
  BY NestedExists, LevelsType
<1>2. NestedUpTo(Atoms, Deepest, Nested)
  BY <1>1, Zenon DEF Nested, NestedUpTo
<1> QED BY <1>2, Zenon DEF NestedUpTo

\* So is NaNFree.
LEMMA NaNFreeDef ==
  \A n \in 0..Deepest :
    NaNFree[n] = IF n = 0 THEN Atoms \ NaNs
                 ELSE (Atoms \ NaNs) \cup ({"list", "tuple", "array"} \X Seq(NaNFree[n - 1]))
<1>1. \E f : NestedUpTo(Atoms \ NaNs, Deepest, f)
  BY NestedExists, LevelsType
<1>2. NestedUpTo(Atoms \ NaNs, Deepest, NaNFree)
  BY <1>1, Zenon DEF NaNFree, NestedUpTo
<1> QED BY <1>2, Zenon DEF NestedUpTo

\* A value is as deep as any greater depth.
LEMMA NestedUp ==
  ASSUME NEW n \in 0..Deepest, NEW m \in n..Deepest
  PROVE  Nested[n] \subseteq Nested[m]
<1> DEFINE Step(k) == k + 1 \in 0..Deepest => Nested[k] \subseteq Nested[k + 1]
           deeper(S) == Atoms \cup ({"list", "tuple", "array"} \X Seq(S))
<1>0. \A S, R : S \subseteq R => deeper(S) \subseteq deeper(R)
  <2>1. \A S, R : S \subseteq R => Seq(S) \subseteq Seq(R)
    OBVIOUS
  <2> SUFFICES ASSUME NEW S, NEW R, S \subseteq R PROVE deeper(S) \subseteq deeper(R)
    BY Zenon
  <2>2. Seq(S) \subseteq Seq(R)
    BY <2>1
  <2>3. \A x \in {"list", "tuple", "array"} \X Seq(S) : x \in {"list", "tuple", "array"} \X Seq(R)
    BY <2>2
  <2> QED BY <2>3
<1>1. \A k \in 0..Deepest : Nested[k] = IF k = 0 THEN Atoms ELSE deeper(Nested[k - 1])
  BY NestedDef, Zenon
<1>2. Deepest \in Nat
  BY LevelsType
<1>3. \A k \in Nat : Step(k)
  <2> DEFINE T == {k \in Nat : ~Step(k)}
  <2> SUFFICES ASSUME T # {} PROVE FALSE
    BY Zenon
  <2>1. PICK k \in T : \A j \in T : k <= j
    <3> HIDE DEF Step
    <3> QED BY Least
  <2>2. k \in Nat /\ ~Step(k)
    BY Zenon
  <2>3. k \in 0..Deepest /\ k + 1 \in 0..Deepest /\ ~(Nested[k] \subseteq Nested[k + 1])
    <3>1. k + 1 \in 0..Deepest /\ ~(Nested[k] \subseteq Nested[k + 1])
      BY <2>2, Zenon
    <3>2. k \in 0..Deepest
      BY <1>2, <2>2, <3>1
    <3> QED BY <3>1, <3>2
  <2>4. Nested[k + 1] = deeper(Nested[k])
    <3>1. (k + 1) - 1 = k /\ k + 1 # 0
      BY <2>2
    <3> HIDE DEF deeper
    <3> QED BY <1>1, <2>3, <3>1
  <2>5. CASE k = 0
    <3>1. Nested[k] = Atoms
      BY <1>1, <2>3, <2>5, Zenon
    <3> QED BY <2>3, <2>4, <3>1, Zenon
  <2>6. CASE k # 0
    <3>1. k - 1 \in Nat /\ (k - 1) + 1 = k /\ ~(k <= k - 1)
      BY <2>2, <2>6
    <3>2. Step(k - 1)
      <4>1. k - 1 \notin T
        BY <2>1, <3>1, Zenon
      <4> QED BY <4>1, <3>1, Zenon
    <3>3. Nested[k - 1] \subseteq Nested[k]
      <4> HIDE DEF deeper
      <4> QED BY <3>1, <3>2, <2>3
    <3>4. Nested[k] = deeper(Nested[k - 1])
      BY <1>1, <2>3, <2>6, Zenon
    <3>5. deeper(Nested[k - 1]) \subseteq deeper(Nested[k])
      <4> HIDE DEF deeper
      <4> QED BY <1>0, <3>3, Zenon
    <3> HIDE DEF deeper
    <3> QED BY <2>3, <2>4, <3>4, <3>5, Zenon
  <2> QED BY <2>5, <2>6
<1>4. \A d \in Nat : n + d \in 0..Deepest => Nested[n] \subseteq Nested[n + d]
  <2> DEFINE T == {d \in Nat : ~(n + d \in 0..Deepest => Nested[n] \subseteq Nested[n + d])}
  <2> SUFFICES ASSUME T # {} PROVE FALSE
    BY Zenon
  <2>1. PICK d \in T : \A j \in T : d <= j
    BY Least
  <2>2. d \in Nat /\ n + d \in 0..Deepest /\ ~(Nested[n] \subseteq Nested[n + d])
    BY Zenon
  <2>3. d # 0
    BY <2>2
  <2>4. d - 1 \in Nat /\ ~(d <= d - 1) /\ n + (d - 1) \in 0..Deepest /\ n + (d - 1) \in Nat /\ (n + (d - 1)) + 1 = n + d
    BY <1>2, <2>2, <2>3
  <2>5. Nested[n] \subseteq Nested[n + (d - 1)]
    <3>1. d - 1 \notin T
      BY <2>1, <2>4, Zenon
    <3> QED BY <2>4, <3>1, Zenon
  <2>6. Nested[n + (d - 1)] \subseteq Nested[n + d]
    <3> HIDE DEF T
    <3> QED BY <1>3, <2>2, <2>4
  <2> QED BY <2>2, <2>5, <2>6, Zenon
<1>5. m - n \in Nat /\ n + (m - n) = m /\ m \in 0..Deepest
  BY <1>2
<1> QED BY <1>4, <1>5

-----------------------------------------------------------------------------

\* A schema's parts are of the levels before its own.
LEMMA PartsBelow ==
  ASSUME NEW n \in DOMAIN Levels, NEW s \in Below(n + 1)
  PROVE  /\ WellFormed(s) /\ s \in Compounds /\ Parts(s) # {}
         /\ \A t \in Parts(s) : WellFormed(t) /\ (Parts(t) # {} => t \in Below(n))
<1>1. PICK m \in 1..n : s \in Levels[m]
  <2>1. \A m \in 1..((n + 1) - 1) : m \in 1..n
    BY LevelsType
  <2> QED BY <2>1, Zenon DEF Below
<1>2. m \in DOMAIN Levels
  BY LevelsType
<1>3. Below(m) \subseteq Below(n)
  <2>1. \A k \in 1..(m - 1) : k \in 1..(n - 1)
    BY LevelsType
  <2> QED BY <2>1, Zenon DEF Below
<1>4. WellFormed(s) /\ Parts(s) # {} /\ \A t \in Parts(s) : Known(t, Below(m))
  BY <1>1, <1>2, SchemaAssumption, Zenon
<1>5. s \in Compounds
  BY <1>1, <1>2, Zenon DEF Compounds, Range
<1> QED BY <1>3, <1>4, <1>5, Zenon DEF Known


\* f is what Drawn is said to be on the schemas below level n.
DrawnUpTo(n, f) ==
  f = [s \in Below(n) |-> Strategy(s, [t \in Parts(s) |-> IF Parts(t) = {} THEN Strategy(t, <<>>) ELSE f[t]])]

LEMMA DrawnExists ==
  ASSUME NEW n \in 1..(Len(Levels) + 1)
  PROVE  \E f : DrawnUpTo(n, f)
<1> DEFINE T == {k \in Nat : k + 1 \in 1..(Len(Levels) + 1) /\ ~\E f : DrawnUpTo(k + 1, f)}
<1>0. Len(Levels) \in Nat /\ DOMAIN Levels = 1..Len(Levels)
  BY LevelsType
<1> SUFFICES ASSUME T # {} PROVE FALSE
  <2>1. n - 1 \in Nat /\ (n - 1) + 1 = n
    BY <1>0
  <2> QED BY <2>1
<1>1. PICK m \in T : \A k \in T : m <= k
  BY Least
<1>2. m \in Nat /\ m + 1 \in 1..(Len(Levels) + 1) /\ ~\E f : DrawnUpTo(m + 1, f)
  OBVIOUS
<1>3. m # 0
  <2> SUFFICES ASSUME m = 0 PROVE FALSE
    OBVIOUS
  <2> DEFINE f == [s \in {} |-> {}]
  <2>1. m + 1 = 1
    OBVIOUS
  <2>2. DrawnUpTo(1, f)
    BY LevelsType DEF DrawnUpTo
  <2> QED BY <1>2, <2>1, <2>2
<1>4. m \in DOMAIN Levels /\ m - 1 \in Nat /\ (m - 1) + 1 = m /\ m \in 1..(Len(Levels) + 1) /\ ~(m <= m - 1)
  BY <1>0, <1>2, <1>3
<1>5. PICK f : DrawnUpTo(m, f)
  <2>1. m - 1 \notin T
    BY <1>1, <1>4, Zenon
  <2> QED BY <1>4, <2>1
<1> DEFINE inner(s, h) == [t \in Parts(s) |-> IF Parts(t) = {} THEN Strategy(t, <<>>) ELSE h[t]]
           g == [s \in Below(m + 1) |-> IF s \in Below(m) THEN f[s] ELSE Strategy(s, inner(s, f))]
<1>6. Below(m + 1) = Below(m) \cup Levels[m]
  BY <1>4, LevelsType, Zenon
<1>7. \A s \in Below(m) : f[s] = Strategy(s, inner(s, f)) /\ g[s] = f[s]
  BY <1>5, <1>6, Zenon DEF DrawnUpTo
<1>8. \A s \in Below(m + 1) : g[s] = Strategy(s, inner(s, f))
  BY <1>7, Zenon
<1>9. \A s \in Below(m + 1) : \A t \in Parts(s) : Parts(t) # {} => t \in Below(m)
  BY <1>4, PartsBelow
<1>10. \A s \in Below(m + 1) : inner(s, f) = inner(s, g)
  <2> SUFFICES ASSUME NEW s \in Below(m + 1) PROVE inner(s, f) = inner(s, g)
    BY Zenon
  <2>1. \A t \in Parts(s) :
          (IF Parts(t) = {} THEN Strategy(t, <<>>) ELSE f[t]) = (IF Parts(t) = {} THEN Strategy(t, <<>>) ELSE g[t])
    <3> HIDE DEF g
    <3> QED BY <1>7, <1>9, Zenon
  <2> HIDE DEF g
  <2> QED BY <2>1, Zenon
<1>11. DrawnUpTo(m + 1, g)
  <2>1. g = [s \in Below(m + 1) |-> g[s]]
    BY Zenon
  <2>2. \A s \in Below(m + 1) : g[s] = Strategy(s, inner(s, g))
    <3> HIDE DEF g, inner
    <3> QED BY <1>8, <1>10, Zenon
  <2> HIDE DEF g
  <2>3. [s \in Below(m + 1) |-> g[s]] = [s \in Below(m + 1) |-> Strategy(s, inner(s, g))]
    BY <2>2, Zenon
  <2> QED BY <2>1, <2>3, Zenon DEF DrawnUpTo
<1> QED BY <1>2, <1>11

\* Drawn is what its recursive definition says.
LEMMA DrawnDef ==
  \A s \in Compounds :
    Drawn[s] = Strategy(s, [t \in Parts(s) |-> IF Parts(t) = {} THEN Strategy(t, <<>>) ELSE Drawn[t]])
<1>1. \E f : DrawnUpTo(Len(Levels) + 1, f)
  <2>1. Len(Levels) + 1 \in 1..(Len(Levels) + 1)
    BY LevelsType
  <2> QED BY <2>1, DrawnExists
<1>2. Below(Len(Levels) + 1) = Compounds
  BY LevelsType
<1>3. DrawnUpTo(Len(Levels) + 1, Drawn)
  BY <1>1, <1>2, Zenon DEF Drawn, DrawnUpTo
<1> QED BY <1>2, <1>3, Zenon DEF DrawnUpTo

\* The same of Fitting.
FittingUpTo(n, f) ==
  f = [s \in Below(n) |-> ThatFit(s, [t \in Parts(s) |-> IF Parts(t) = {} THEN ThatFit(t, <<>>) ELSE f[t]])]

LEMMA FittingExists ==
  ASSUME NEW n \in 1..(Len(Levels) + 1)
  PROVE  \E f : FittingUpTo(n, f)
<1> DEFINE T == {k \in Nat : k + 1 \in 1..(Len(Levels) + 1) /\ ~\E f : FittingUpTo(k + 1, f)}
<1>0. Len(Levels) \in Nat /\ DOMAIN Levels = 1..Len(Levels)
  BY LevelsType
<1> SUFFICES ASSUME T # {} PROVE FALSE
  <2>1. n - 1 \in Nat /\ (n - 1) + 1 = n
    BY <1>0
  <2> QED BY <2>1
<1>1. PICK m \in T : \A k \in T : m <= k
  BY Least
<1>2. m \in Nat /\ m + 1 \in 1..(Len(Levels) + 1) /\ ~\E f : FittingUpTo(m + 1, f)
  OBVIOUS
<1>3. m # 0
  <2> SUFFICES ASSUME m = 0 PROVE FALSE
    OBVIOUS
  <2> DEFINE f == [s \in {} |-> {}]
  <2>1. m + 1 = 1
    OBVIOUS
  <2>2. FittingUpTo(1, f)
    BY LevelsType DEF FittingUpTo
  <2> QED BY <1>2, <2>1, <2>2
<1>4. m \in DOMAIN Levels /\ m - 1 \in Nat /\ (m - 1) + 1 = m /\ m \in 1..(Len(Levels) + 1) /\ ~(m <= m - 1)
  BY <1>0, <1>2, <1>3
<1>5. PICK f : FittingUpTo(m, f)
  <2>1. m - 1 \notin T
    BY <1>1, <1>4, Zenon
  <2> QED BY <1>4, <2>1
<1> DEFINE inner(s, h) == [t \in Parts(s) |-> IF Parts(t) = {} THEN ThatFit(t, <<>>) ELSE h[t]]
           g == [s \in Below(m + 1) |-> IF s \in Below(m) THEN f[s] ELSE ThatFit(s, inner(s, f))]
<1>6. Below(m + 1) = Below(m) \cup Levels[m]
  BY <1>4, LevelsType, Zenon
<1>7. \A s \in Below(m) : f[s] = ThatFit(s, inner(s, f)) /\ g[s] = f[s]
  BY <1>5, <1>6, Zenon DEF FittingUpTo
<1>8. \A s \in Below(m + 1) : g[s] = ThatFit(s, inner(s, f))
  BY <1>7, Zenon
<1>9. \A s \in Below(m + 1) : \A t \in Parts(s) : Parts(t) # {} => t \in Below(m)
  BY <1>4, PartsBelow
<1>10. \A s \in Below(m + 1) : inner(s, f) = inner(s, g)
  <2> SUFFICES ASSUME NEW s \in Below(m + 1) PROVE inner(s, f) = inner(s, g)
    BY Zenon
  <2>1. \A t \in Parts(s) :
          (IF Parts(t) = {} THEN ThatFit(t, <<>>) ELSE f[t]) = (IF Parts(t) = {} THEN ThatFit(t, <<>>) ELSE g[t])
    <3> HIDE DEF g
    <3> QED BY <1>7, <1>9, Zenon
  <2> HIDE DEF g
  <2> QED BY <2>1, Zenon
<1>11. FittingUpTo(m + 1, g)
  <2>1. g = [s \in Below(m + 1) |-> g[s]]
    BY Zenon
  <2>2. \A s \in Below(m + 1) : g[s] = ThatFit(s, inner(s, g))
    <3> HIDE DEF g, inner
    <3> QED BY <1>8, <1>10, Zenon
  <2> HIDE DEF g
  <2>3. [s \in Below(m + 1) |-> g[s]] = [s \in Below(m + 1) |-> ThatFit(s, inner(s, g))]
    BY <2>2, Zenon
  <2> QED BY <2>1, <2>3, Zenon DEF FittingUpTo
<1> QED BY <1>2, <1>11

LEMMA FittingDef ==
  \A s \in Compounds :
    Fitting[s] = ThatFit(s, [t \in Parts(s) |-> IF Parts(t) = {} THEN ThatFit(t, <<>>) ELSE Fitting[t]])
<1>1. \E f : FittingUpTo(Len(Levels) + 1, f)
  <2>1. Len(Levels) + 1 \in 1..(Len(Levels) + 1)
    BY LevelsType
  <2> QED BY <2>1, FittingExists
<1>2. Below(Len(Levels) + 1) = Compounds
  BY LevelsType
<1>3. FittingUpTo(Len(Levels) + 1, Fitting)
  BY <1>1, <1>2, Zenon DEF Fitting, FittingUpTo
<1> QED BY <1>2, <1>3, Zenon DEF FittingUpTo

\* The tag of a value tells whether there are values in it.
LEMMA AtomTag == \A v \in Atoms : v[1] \notin {"list", "tuple", "array"}
BY DEF Atoms, Plain

LEMMA NestedItems ==
  ASSUME NEW n \in 0..Deepest, NEW v \in Nested[n], v[1] \in {"list", "tuple", "array"}
  PROVE  n # 0 /\ n - 1 \in 0..Deepest /\ v[2] \in Seq(Nested[n - 1]) /\ v = <<v[1], v[2]>>
<1>1. v \notin Atoms
  BY AtomTag, Zenon
<1>2. Nested[n] = IF n = 0 THEN Atoms ELSE Atoms \cup ({"list", "tuple", "array"} \X Seq(Nested[n - 1]))
  BY NestedDef, Zenon
<1>3. n # 0 /\ v \in {"list", "tuple", "array"} \X Seq(Nested[n - 1])
  BY <1>1, <1>2, Zenon
<1>4. n - 1 \in 0..Deepest
  BY <1>3, LevelsType
<1> QED BY <1>3, <1>4

\* What a value is on the wire depends only on what its items are.
LEMMA EncodeSame ==
  ASSUME NEW n \in 0..Deepest, NEW v \in Nested[n], NEW f, NEW g,
         n # 0 => \A x \in Nested[n - 1] : f[x] = g[x]
  PROVE  Encode(v, f) = Encode(v, g)
<1>1. CASE v[1] \in {"list", "tuple"}
  <2>1. n # 0 /\ v[2] \in Seq(Nested[n - 1])
    BY <1>1, NestedItems
  <2>2. \A i \in DOMAIN v[2] : v[2][i] \in Nested[n - 1]
    BY <2>1
  <2>3. [i \in DOMAIN v[2] |-> f[v[2][i]]] = [i \in DOMAIN v[2] |-> g[v[2][i]]]
    BY <2>1, <2>2, Zenon
  <2> QED BY <1>1, <2>3 DEF Encode
<1>2. CASE v[1] \notin {"list", "tuple"}
  BY <1>2 DEF Encode
<1> QED BY <1>1, <1>2, Zenon

EncodeUpTo(n, f) == f = [v \in Nested[n] |-> Encode(v, f)]

LEMMA EncodeExists ==
  ASSUME NEW n \in 0..Deepest
  PROVE  \E f : EncodeUpTo(n, f)
<1> DEFINE T == {k \in Nat : k \in 0..Deepest /\ ~\E f : EncodeUpTo(k, f)}
<1>0. Deepest \in Nat
  BY LevelsType
<1> SUFFICES ASSUME T # {} PROVE FALSE
  BY <1>0
<1>1. PICK m \in T : \A k \in T : m <= k
  BY Least
<1>2. m \in Nat /\ m \in 0..Deepest /\ ~\E f : EncodeUpTo(m, f)
  OBVIOUS
<1>3. m # 0
  <2> SUFFICES ASSUME m = 0 PROVE FALSE
    OBVIOUS
  <2> DEFINE g == [v \in Nested[m] |-> Encode(v, <<>>)]
  <2>1. \A v \in Nested[m] : Encode(v, <<>>) = Encode(v, g)
    <3> HIDE DEF g
    <3> QED BY <1>2, EncodeSame
  <2>2. g = [v \in Nested[m] |-> Encode(v, g)]
    <3>1. [v \in Nested[m] |-> Encode(v, <<>>)] = [v \in Nested[m] |-> Encode(v, g)]
      <4> HIDE DEF g
      <4> QED BY <2>1, Zenon
    <3> QED BY <3>1, Zenon
  <2> QED BY <1>2, <2>2, Zenon DEF EncodeUpTo
<1>4. m - 1 \in Nat /\ m - 1 \in 0..Deepest /\ (m - 1) + 1 = m /\ ~(m <= m - 1) /\ m \in (m - 1)..Deepest
  BY <1>0, <1>2, <1>3
<1>5. PICK f : EncodeUpTo(m - 1, f)
  <2>1. m - 1 \notin T
    BY <1>1, <1>4, Zenon
  <2> QED BY <1>4, <2>1
<1> DEFINE g == [v \in Nested[m] |-> Encode(v, f)]
<1>6. Nested[m - 1] \subseteq Nested[m]
  BY <1>4, NestedUp, Zenon
<1>7. \A v \in Nested[m - 1] : f[v] = g[v]
  BY <1>5, <1>6, Zenon DEF EncodeUpTo
<1>8. \A v \in Nested[m] : Encode(v, f) = Encode(v, g)
  <2> HIDE DEF g
  <2> QED BY <1>2, <1>7, EncodeSame
<1>9. g = [v \in Nested[m] |-> Encode(v, g)]
  <2>1. [v \in Nested[m] |-> Encode(v, f)] = [v \in Nested[m] |-> Encode(v, g)]
    <3> HIDE DEF g
    <3> QED BY <1>8, Zenon
  <2> QED BY <2>1, Zenon
<1> QED BY <1>2, <1>9, Zenon DEF EncodeUpTo

LEMMA EncodeDef == \A v \in Values : _encode_value[v] = Encode(v, _encode_value)
<1>1. \E f : EncodeUpTo(Deepest, f)
  <2>1. Deepest \in 0..Deepest
    BY LevelsType
  <2> QED BY <2>1, EncodeExists
<1>2. EncodeUpTo(Deepest, _encode_value)
  BY <1>1, Zenon DEF _encode_value, EncodeUpTo, Values
<1> QED BY <1>2, Zenon DEF EncodeUpTo, Values

-----------------------------------------------------------------------------
(* What is drawn for a schema with none inside.                            *)

Strings == {"str"} \X Seq(Nat)
Fractions == {"fraction"} \X Int \X Int
Complexes == {"complex"} \X Plain \X Plain

LEMMA AtomsIn ==
  ASSUME NEW k \in 0..Deepest
  PROVE  Atoms \subseteq Nested[k] /\ Nested[k] \subseteq Values /\ (k # 0 => Nested[k - 1] \subseteq Nested[k])
<1>1. Deepest \in Nat /\ Deepest \in k..Deepest
  BY LevelsType
<1>2. Atoms \subseteq Nested[k]
  BY NestedDef, Zenon
<1>3. Nested[k] \subseteq Values
  BY <1>1, NestedUp, Zenon DEF Values
<1>4. k # 0 => k - 1 \in 0..Deepest /\ k \in (k - 1)..Deepest
  BY <1>1
<1> QED BY <1>2, <1>3, <1>4, NestedUp, Zenon

LEMMA Deeper ==
  ASSUME NEW k \in 0..Deepest, k + 1 \in 0..Deepest, NEW q \in Seq(Nested[k]), NEW tag \in {"list", "tuple", "array"}
  PROVE  <<tag, q>> \in Nested[k + 1] /\ <<tag, q>> \in Values
<1>1. k + 1 # 0 /\ (k + 1) - 1 = k
  BY LevelsType
<1>2. Nested[k + 1] = Atoms \cup ({"list", "tuple", "array"} \X Seq(Nested[k]))
  BY <1>1, NestedDef, Zenon
<1>3. <<tag, q>> \in {"list", "tuple", "array"} \X Seq(Nested[k])
  OBVIOUS
<1> QED BY <1>2, <1>3, AtomsIn, Zenon

\* A plain value is passed on as it is.
LEMMA EncodedPlain == \A v \in Plain : _encode_value[v] = v /\ v \in Values
<1>1. \A v \in Plain : v \in Atoms /\ v[1] \notin {"str", "list", "tuple", "fraction", "complex"}
  BY DEF Plain, Atoms
<1>2. 0 \in 0..Deepest
  BY LevelsType
<1> QED BY <1>1, <1>2, AtomsIn, EncodeDef DEF Encode

LEMMA EncodedString ==
  \A v \in Strings : v \in Values /\ _encode_value[v] = <<"tag91", v[2]>> /\ v = <<"str", v[2]>> /\ v[2] \in Seq(Nat)
<1>1. \A v \in Strings : v \in Atoms /\ v[1] = "str" /\ v = <<"str", v[2]>> /\ v[2] \in Seq(Nat)
  BY DEF Strings, Atoms
<1>2. 0 \in 0..Deepest
  BY LevelsType
<1> QED BY <1>1, <1>2, AtomsIn, EncodeDef DEF Encode

LEMMA EncodedFraction ==
  \A v \in Fractions : /\ v \in Values /\ _encode_value[v] = <<"array", <<<<"int", v[2]>>, <<"int", v[3]>>>>>>
                       /\ v = <<"fraction", v[2], v[3]>> /\ v[2] \in Int /\ v[3] \in Int
<1>1. \A v \in Fractions : /\ v \in Atoms /\ v[1] = "fraction" /\ v = <<"fraction", v[2], v[3]>>
                           /\ v[2] \in Int /\ v[3] \in Int
  BY DEF Fractions, Atoms
<1>2. 0 \in 0..Deepest
  BY LevelsType
<1> QED BY <1>1, <1>2, AtomsIn, EncodeDef DEF Encode

LEMMA EncodedComplex ==
  \A v \in Complexes : /\ v \in Values /\ _encode_value[v] = <<"array", <<v[2], v[3]>>>>
                       /\ v = <<"complex", v[2], v[3]>> /\ v[2] \in Plain /\ v[3] \in Plain
<1>1. \A v \in Complexes : /\ v \in Atoms /\ v[1] = "complex" /\ v = <<"complex", v[2], v[3]>>
                           /\ v[2] \in Plain /\ v[3] \in Plain
  BY DEF Complexes, Atoms
<1>2. 0 \in 0..Deepest
  BY LevelsType
<1> QED BY <1>1, <1>2, AtomsIn, EncodeDef DEF Encode

\* A NaN is still there when what holds it is written down (ValueFree).
LEMMA FreeAtoms == \A n \in 0..Deepest : \A v \in Atoms \ NaNs : v \in NaNFree[n]
BY NaNFreeDef, Zenon

LEMMA FreeItems ==
  ASSUME NEW n \in 0..Deepest, NEW v \in NaNFree[n], v[1] \in {"list", "tuple", "array"}
  PROVE  n # 0 /\ n - 1 \in 0..Deepest /\ v[2] \in Seq(NaNFree[n - 1])
<1>1. v \notin Atoms
  BY AtomTag, Zenon
<1>2. NaNFree[n] = IF n = 0 THEN Atoms \ NaNs
                   ELSE (Atoms \ NaNs) \cup ({"list", "tuple", "array"} \X Seq(NaNFree[n - 1]))
  BY NaNFreeDef, Zenon
<1>3. n # 0 /\ v \in {"list", "tuple", "array"} \X Seq(NaNFree[n - 1])
  BY <1>1, <1>2, Zenon
<1>4. n - 1 \in 0..Deepest
  BY <1>3, LevelsType
<1> QED BY <1>3, <1>4

\* An atom is free of NaN if what is written for it is.
LEMMA AtomFree ==
  ASSUME NEW v \in Atoms, NEW m \in 0..Deepest, v \in NaNFree[m] \/ _encode_value[v] \in NaNFree[m]
  PROVE  v \notin NaNs
<1> SUFFICES ASSUME v \in NaNs PROVE FALSE
  OBVIOUS
<1>0. \A n \in 0..Deepest : <<"nan">> \notin NaNFree[n] /\ v \notin NaNFree[n]
  <2> SUFFICES ASSUME NEW n \in 0..Deepest, NEW x \in {<<"nan">>, v} PROVE x \notin NaNFree[n]
    OBVIOUS
  <2>1. x \in NaNs /\ x[1] \notin {"list", "tuple", "array"}
    BY AtomTag DEF NaNs
  <2>2. x \notin {"list", "tuple", "array"} \X Seq(NaNFree[n - 1])
    BY <2>1
  <2> QED BY <2>1, <2>2, NaNFreeDef, Zenon
<1>1. CASE v = <<"nan">>
  <2>1. v \in Plain
    BY <1>1 DEF Plain
  <2> QED BY <1>0, <2>1, EncodedPlain, Zenon
<1>2. CASE v # <<"nan">>
  <2>1. v \in Complexes /\ (v[2] = <<"nan">> \/ v[3] = <<"nan">>)
    BY <1>2 DEF NaNs, Complexes, Plain
  <2> DEFINE q == <<v[2], v[3]>>
             w == <<"array", q>>
  <2>2. _encode_value[v] = w
    BY <2>1, EncodedComplex, Zenon
  <2>3. w \in NaNFree[m]
    BY <1>0, <2>2, Zenon
  <2>4. w[1] \in {"list", "tuple", "array"} /\ w[2] = q /\ Len(q) = 2
    OBVIOUS
  <2>5. m - 1 \in 0..Deepest /\ q \in Seq(NaNFree[m - 1])
    <3> HIDE DEF q
    <3> QED BY <2>3, <2>4, FreeItems
  <2>6. v[2] \in NaNFree[m - 1] /\ v[3] \in NaNFree[m - 1]
    <3>1. q[1] \in NaNFree[m - 1] /\ q[2] \in NaNFree[m - 1]
      <4> HIDE DEF q
      <4> QED BY <2>4, <2>5, BothIn, Zenon
    <3> QED BY <3>1
  <2> QED BY <1>0, <2>1, <2>5, <2>6, Zenon
<1> QED BY <1>1, <1>2

\* So is any value.
LEMMA ValueFree ==
  ASSUME NEW n \in 0..Deepest
  PROVE  \A v \in Nested[n] : \A m \in 0..Deepest :
           v \in NaNFree[m] \/ _encode_value[v] \in NaNFree[m] => v \in NaNFree[n]
<1> DEFINE Free(k) == \A v \in Nested[k] : \A m \in 0..Deepest :
                        v \in NaNFree[m] \/ _encode_value[v] \in NaNFree[m] => v \in NaNFree[k]
           T == {k \in Nat : k \in 0..Deepest /\ ~Free(k)}
<1>0. Deepest \in Nat /\ n \in Nat
  BY LevelsType
<1> SUFFICES ASSUME T # {} PROVE FALSE
  <2> HIDE DEF Free
  <2>1. n \notin T
    OBVIOUS
  <2>2. Free(n)
    BY <1>0, <2>1, Zenon
  <2> QED BY <2>2, Zenon DEF Free
<1>1. PICK k \in T : \A j \in T : k <= j
  <2> HIDE DEF Free
  <2> QED BY Least
<1>2. k \in Nat /\ k \in 0..Deepest /\ ~Free(k)
  BY Zenon
<1>3. k # 0 => k - 1 \in 0..Deepest /\ Free(k - 1)
  <2>1. k # 0 => k - 1 \in Nat /\ k - 1 \in 0..Deepest /\ ~(k <= k - 1)
    BY <1>0, <1>2
  <2> HIDE DEF Free
  <2> QED BY <1>1, <2>1, Zenon
<1>4. PICK v \in Nested[k], m \in 0..Deepest :
        (v \in NaNFree[m] \/ _encode_value[v] \in NaNFree[m]) /\ v \notin NaNFree[k]
  BY <1>2, Zenon
<1>5. CASE v[1] \in {"list", "tuple", "array"}
  <2>1. k # 0 /\ v[2] \in Seq(Nested[k - 1]) /\ v = <<v[1], v[2]>>
    BY <1>2, <1>5, NestedItems
  <2>2. Free(k - 1) /\ Nested[k - 1] \subseteq Values /\ v \in Values
    <3> HIDE DEF Free
    <3> QED BY <1>2, <1>3, <2>1, AtomsIn, Zenon
  <2>3. \A i \in DOMAIN v[2] : v[2][i] \in Nested[k - 1]
    BY <2>1
  <2>4. \A i \in DOMAIN v[2] : v[2][i] \in NaNFree[k - 1]
    <3>1. CASE v \in NaNFree[m]
      <4>1. m - 1 \in 0..Deepest /\ v[2] \in Seq(NaNFree[m - 1])
        BY <1>5, <3>1, FreeItems
      <4>2. \A i \in DOMAIN v[2] : v[2][i] \in NaNFree[m - 1]
        BY <4>1
      <4> QED BY <2>2, <2>3, <4>1, <4>2, Zenon
    <3>2. CASE _encode_value[v] \in NaNFree[m] /\ v[1] # "array"
      <4> DEFINE w == [i \in DOMAIN v[2] |-> _encode_value[v[2][i]]]
      <4>1. _encode_value[v] = <<"array", w>>
        <5>1. _encode_value[v] = Encode(v, _encode_value)
          BY <2>2, EncodeDef, Zenon
        <5> QED BY <1>5, <3>2, <5>1 DEF Encode
      <4>2. m - 1 \in 0..Deepest /\ w \in Seq(NaNFree[m - 1])
        <5>1. _encode_value[v][1] = "array" /\ _encode_value[v][2] = w
          <6> HIDE DEF w
          <6> QED BY <4>1
        <5> HIDE DEF w
        <5> QED BY <3>2, <5>1, FreeItems
      <4>3. \A i \in DOMAIN w : w[i] \in NaNFree[m - 1]
        <5> HIDE DEF w
        <5> QED BY <4>2
      <4>4. \A i \in DOMAIN v[2] : _encode_value[v[2][i]] \in NaNFree[m - 1]
        BY <4>3, Zenon
      <4> QED BY <2>2, <2>3, <4>2, <4>4, Zenon
    <3>3. CASE _encode_value[v] \in NaNFree[m] /\ v[1] = "array"
      <4>1. _encode_value[v] = Encode(v, _encode_value)
        BY <2>2, EncodeDef, Zenon
      <4>2. _encode_value[v] = v
        BY <3>3, <4>1 DEF Encode
      <4> QED BY <3>1, <3>3, <4>2, Zenon
    <3> QED BY <1>4, <3>1, <3>2, <3>3, Zenon
  <2>5. v[2] \in Seq(NaNFree[k - 1])
    BY <2>1, <2>4
  <2>6. v \in {"list", "tuple", "array"} \X Seq(NaNFree[k - 1])
    BY <1>5, <2>1, <2>5
  <2>7. NaNFree[k] = (Atoms \ NaNs) \cup ({"list", "tuple", "array"} \X Seq(NaNFree[k - 1]))
    BY <1>2, <2>1, NaNFreeDef, Zenon
  <2> QED BY <1>4, <2>6, <2>7, Zenon
<1>6. CASE v[1] \notin {"list", "tuple", "array"}
  <2>1. v \in Atoms
    <3>1. v \notin {"list", "tuple", "array"} \X Seq(Nested[k - 1])
      BY <1>6
    <3> QED BY <1>2, <3>1, NestedDef, Zenon
  <2>2. v \notin NaNs
    BY <1>4, <2>1, AtomFree, Zenon
  <2> QED BY <1>2, <1>4, <2>1, <2>2, FreeAtoms, Zenon
<1> QED BY <1>5, <1>6

\* Atoms that are no NaN are distinct if each is there once.
LEMMA DistinctAtoms ==
  ASSUME NEW q, \A i \in DOMAIN q : q[i] \in Atoms \ NaNs
  PROVE  Distinct(q) <=> \A i, j \in DOMAIN q : q[i] = q[j] => i = j
<1>1. Deepest \in 0..Deepest
  BY LevelsType
<1>2. \A i \in DOMAIN q : ~HoldsNaN(q[i])
  BY <1>1, FreeAtoms, Zenon DEF HoldsNaN
<1> QED BY <1>2, Zenon DEF Distinct

\* Values no two of which are equal are told apart by their encodings.
LEMMA DistinctKept ==
  ASSUME NEW q, NEW w, DOMAIN w = DOMAIN q,
         \A i \in DOMAIN q : q[i] \in Values /\ w[i] = _encode_value[q[i]],
         \A i, j \in DOMAIN q : _encode_value[q[i]] = _encode_value[q[j]] => q[i] = q[j],
         Distinct(q)
  PROVE  Distinct(w)
<1> SUFFICES ASSUME NEW i \in DOMAIN q, NEW j \in DOMAIN q, w[i] = w[j], i # j PROVE HoldsNaN(w[i])
  BY Zenon DEF Distinct
<1>1. HoldsNaN(q[i])
  BY Zenon DEF Distinct
<1>2. Deepest \in 0..Deepest
  BY LevelsType
<1> QED BY <1>1, <1>2, ValueFree, Zenon DEF HoldsNaN, Values

\* What is drawn is of one kind, and its encoding tells it from the others.
LEMMA LeafRight ==
  ASSUME NEW D, NEW k \in 1..Deepest,
         D \subseteq Plain \/ D \subseteq Strings \/ D \subseteq Fractions \/ D \subseteq Complexes
  PROVE  /\ \A v \in D : v \in Nested[k] /\ _encode_value[v] \in Nested[k]
         /\ \A v, x \in D : _encode_value[v] = _encode_value[x] => v = x
<1>0. k \in 0..Deepest /\ k # 0 /\ k - 1 \in 0..Deepest /\ (k - 1) + 1 = k /\ Atoms \subseteq Nested[k] /\ Atoms \subseteq Nested[k - 1]
  <2>1. k \in 0..Deepest /\ k # 0 /\ k - 1 \in 0..Deepest /\ (k - 1) + 1 = k
    BY LevelsType
  <2> QED BY <2>1, AtomsIn, Zenon
<1>1. CASE D \subseteq Plain
  <2>1. Plain \subseteq Atoms
    BY DEF Atoms
  <2> QED BY <1>0, <1>1, <2>1, EncodedPlain, Zenon
<1>2. CASE D \subseteq Strings
  <2>1. \A v \in D : v \in Atoms /\ _encode_value[v] \in Atoms
    <3>1. \A q \in Seq(Nat) : <<"str", q>> \in Atoms /\ <<"tag91", q>> \in Atoms
      BY DEF Atoms
    <3> QED BY ZenonT(60), <1>2, <3>1, EncodedString
  <2>2. \A v, x \in D : _encode_value[v] = _encode_value[x] => v = x
    <3> SUFFICES ASSUME NEW v \in D, NEW x \in D, _encode_value[v] = _encode_value[x] PROVE v = x
      BY Zenon
    <3>1. <<"tag91", v[2]>> = <<"tag91", x[2]>> /\ v = <<"str", v[2]>> /\ x = <<"str", x[2]>>
      BY <1>2, EncodedString, Zenon
    <3> QED BY <3>1
  <2> QED BY <1>0, <2>1, <2>2
<1>3. CASE D \subseteq Fractions
  <2>1. \A v \in D : v \in Atoms
    BY <1>3 DEF Fractions, Atoms
  <2>2. \A v \in D : _encode_value[v] \in Nested[k]
    <3> SUFFICES ASSUME NEW v \in D PROVE _encode_value[v] \in Nested[k]
      OBVIOUS
    <3> DEFINE q == <<<<"int", v[2]>>, <<"int", v[3]>>>>
    <3>1. _encode_value[v] = <<"array", q>> /\ v[2] \in Int /\ v[3] \in Int
      BY <1>3, EncodedFraction
    <3>2. q \in Seq(Atoms)
      BY <3>1 DEF Atoms, Plain
    <3>3. q \in Seq(Nested[k - 1])
      <4> HIDE DEF q
      <4> QED BY <1>0, <3>2
    <3> HIDE DEF q
    <3> QED BY <1>0, <3>1, <3>3, Deeper
  <2>3. \A v, x \in D : _encode_value[v] = _encode_value[x] => v = x
    <3> SUFFICES ASSUME NEW v \in D, NEW x \in D, _encode_value[v] = _encode_value[x] PROVE v = x
      BY Zenon
    <3>1. /\ <<"array", <<<<"int", v[2]>>, <<"int", v[3]>>>>>> = <<"array", <<<<"int", x[2]>>, <<"int", x[3]>>>>>>
          /\ v = <<"fraction", v[2], v[3]>> /\ x = <<"fraction", x[2], x[3]>>
      BY <1>3, EncodedFraction, Zenon
    <3> QED BY <3>1
  <2> QED BY <1>0, <2>1, <2>2, <2>3
<1>4. CASE D \subseteq Complexes
  <2>1. \A v \in D : v \in Atoms
    BY <1>4 DEF Complexes, Atoms
  <2>2. \A v \in D : _encode_value[v] \in Nested[k]
    <3> SUFFICES ASSUME NEW v \in D PROVE _encode_value[v] \in Nested[k]
      OBVIOUS
    <3> DEFINE q == <<v[2], v[3]>>
    <3>1. _encode_value[v] = <<"array", q>> /\ v[2] \in Plain /\ v[3] \in Plain
      BY <1>4, EncodedComplex
    <3>2. q \in Seq(Atoms)
      <4>1. Plain \subseteq Atoms
        BY DEF Atoms
      <4> QED BY <3>1, <4>1
    <3>3. q \in Seq(Nested[k - 1])
      <4> HIDE DEF q
      <4> QED BY <1>0, <3>2
    <3> HIDE DEF q
    <3> QED BY <1>0, <3>1, <3>3, Deeper
  <2>3. \A v, x \in D : _encode_value[v] = _encode_value[x] => v = x
    <3> SUFFICES ASSUME NEW v \in D, NEW x \in D, _encode_value[v] = _encode_value[x] PROVE v = x
      BY Zenon
    <3>1. /\ <<"array", <<v[2], v[3]>>>> = <<"array", <<x[2], x[3]>>>>
          /\ v = <<"complex", v[2], v[3]>> /\ x = <<"complex", x[2], x[3]>>
      BY <1>4, EncodedComplex, Zenon
    <3> QED BY <3>1
  <2> QED BY <1>0, <2>1, <2>2, <2>3
<1> QED BY <1>1, <1>2, <1>3, <1>4, Zenon

Bounds == Int \cup {None}
Caps == Nat \cup {None}

\* None is no number and no truth value.
LEMMA NoneIs == None \notin Int /\ None \notin Nat /\ None \notin BOOLEAN
BY SchemaAssumption

LEMMA SpanWithin ==
  ASSUME NEW lo \in Bounds, NEW hi \in Bounds, NEW x
  PROVE  x \in Span(lo, hi) => x \in Int /\ Within(x, lo, hi)
BY SchemaAssumption DEF Span, Within, Bounds

LEMMA SizesWithin ==
  ASSUME NEW least \in Nat, NEW most \in Caps, NEW n
  PROVE  n \in Sizes(least, most) => n \in Nat /\ Within(n, least, most)
BY SchemaAssumption DEF Sizes, Within, Caps

LEMMA CollectionsIn ==
  ASSUME NEW E, NEW least \in Nat, NEW most \in Caps, NEW q \in Collections(E, least, most)
  PROVE  q \in Seq(E) /\ Len(q) \in Nat /\ Within(Len(q), least, most)
<1>1. PICK n \in Sizes(least, most) : q \in [1..n -> E]
  BY Zenon DEF Collections
<1>2. n \in Nat /\ Within(n, least, most)
  BY SizesWithin
<1>3. q \in Seq(E) /\ Len(q) = n
  BY <1>1, <1>2
<1> QED BY <1>2, <1>3

LEMMA CharactersIn ==
  ASSUME NEW s, Get(s, "include_characters", None) \in {None} \cup SUBSET DOMAIN Category
  PROVE  characters(s) \subseteq DOMAIN Category
BY DEF characters

\* The characters drawn from are those every filter lets through.
LEMMA CharactersPermitted == ASSUME NEW s PROVE \A c \in characters(s) : Permitted(c, s)
<1> DEFINE given == Get(s, "include_characters", None)
           banned == Get(s, "exclude_characters", None)
           cats == Get(s, "categories", None)
           notCats == Get(s, "exclude_categories", None)
           codec == Get(s, "codec", None)
           allowed == {c \in DOMAIN Category :
                         /\ Within(c, Get(s, "min_codepoint", None), Get(s, "max_codepoint", None))
                         /\ codec # None => c \in Encodable
                         /\ cats # None => Category[c] \in cats
                         /\ notCats # None => Category[c] \notin notCats}
           include == IF given = None THEN {} ELSE given
           exclude == IF banned = None THEN {} ELSE banned
<1> SUFFICES ASSUME NEW c \in characters(s) PROVE Permitted(c, s)
  BY Zenon
<1>1. c \in (allowed \cup include) \ exclude
  BY DEF characters
<1>2. /\ given # None => given = s.include_characters
      /\ banned # None => banned = s.exclude_characters
      /\ cats # None => cats = s.categories
      /\ notCats # None => notCats = s.exclude_categories
  BY Zenon DEF Get
<1>3. banned # None => c \notin s.exclude_characters
  BY <1>1, <1>2, Zenon
<1>4. \/ given # None /\ c \in s.include_characters
      \/ /\ Within(c, Get(s, "min_codepoint", None), Get(s, "max_codepoint", None))
         /\ codec # None => c \in Encodable
         /\ cats # None => Category[c] \in s.categories
         /\ notCats # None => Category[c] \notin s.exclude_categories
  BY <1>1, <1>2, Zenon
<1> QED BY <1>3, <1>4, Zenon DEF Permitted

\* The three forms of a float that is drawn.
FloatIn(v, lo, hi, nan, infinity, exMin, exMax) ==
  \/ \E x \in Int : v = <<"float", x>> /\ x \in Span(lo, hi) /\ Within(x, lo, hi) /\ (exMin => x # lo) /\ (exMax => x # hi)
  \/ v = <<"nan">> /\ nan # FALSE /\ lo = None /\ hi = None
  \/ \E side \in {-1, 1} : v = <<"inf", side>> /\ infinity # FALSE /\ (IF side = 1 THEN hi ELSE lo) = None

LEMMA FloatsIn ==
  ASSUME NEW lo \in Bounds, NEW hi \in Bounds, NEW nan, NEW infinity, NEW exMin, NEW exMax,
         NEW v \in floats(lo, hi, nan, infinity, exMin, exMax)
  PROVE  FloatIn(v, lo, hi, nan, infinity, exMin, exMax)
<1>1. CASE \E x \in Span(lo, hi) \ ((IF exMin THEN {lo} ELSE {}) \cup (IF exMax THEN {hi} ELSE {})) : v = <<"float", x>>
  <2>1. PICK x \in Span(lo, hi) : /\ x \notin (IF exMin THEN {lo} ELSE {}) \cup (IF exMax THEN {hi} ELSE {})
                                  /\ v = <<"float", x>>
    BY <1>1, Zenon
  <2>2. (exMin => x # lo) /\ (exMax => x # hi)
    BY <2>1, Zenon
  <2>3. x \in Int /\ Within(x, lo, hi)
    BY SpanWithin
  <2> QED BY <2>1, <2>2, <2>3, Zenon DEF FloatIn
<1>2. CASE v = <<"nan">> /\ nan # FALSE /\ {lo, hi} = {None}
  <2>1. lo = None /\ hi = None
    BY <1>2
  <2> QED BY <1>2, <2>1, Zenon DEF FloatIn
<1>3. CASE infinity # FALSE /\ \E side \in (IF lo = None THEN {-1} ELSE {}) \cup (IF hi = None THEN {1} ELSE {}) : v = <<"inf", side>>
  <2>1. PICK side \in (IF lo = None THEN {-1} ELSE {}) \cup (IF hi = None THEN {1} ELSE {}) : v = <<"inf", side>>
    BY <1>3, Zenon
  <2>2. side \in {-1, 1} /\ (IF side = 1 THEN hi ELSE lo) = None
    <3>1. CASE lo = None
      BY <2>1, <3>1
    <3>2. CASE lo # None
      BY <2>1, <3>2
    <3> QED BY <3>1, <3>2
  <2> QED BY <1>3, <2>1, <2>2, Zenon DEF FloatIn
<1>4. \/ \E x \in Span(lo, hi) \ ((IF exMin THEN {lo} ELSE {}) \cup (IF exMax THEN {hi} ELSE {})) : v = <<"float", x>>
      \/ v = <<"nan">> /\ nan # FALSE /\ {lo, hi} = {None}
      \/ infinity # FALSE /\ \E side \in (IF lo = None THEN {-1} ELSE {}) \cup (IF hi = None THEN {1} ELSE {}) : v = <<"inf", side>>
  BY DEF floats
<1> QED BY <1>1, <1>2, <1>3, <1>4, Zenon

LEMMA FractionsIn ==
  ASSUME NEW lo, NEW hi, NEW most \in (Nat \ {0}) \cup {None}, NEW v \in fractions(lo, hi, most)
  PROVE  \E n \in Int, d \in {1, 2} : /\ v = <<"fraction", n, d>> /\ Within(d, None, most)
                                       /\ (lo = None \/ n >= lo * d) /\ (hi = None \/ n <= hi * d)
<1>1. PICK n \in -Reach..Reach, d \in {1, 2} : v = <<"fraction", n, d>>
  BY DEF fractions
<1>2. v[2] = n /\ v[3] = d
  BY <1>1
<1>3. /\ v[3] = 2 => v[2] % 2 = 1 /\ most # 1
      /\ (lo = None \/ v[2] >= lo * v[3]) /\ (hi = None \/ v[2] <= hi * v[3])
  <2> DEFINE all == {<<"fraction", i, j>> : i \in -Reach..Reach, j \in {1, 2}}
  <2>1. v \in {f \in all : /\ f[3] = 2 => f[2] % 2 = 1 /\ most # 1
                          /\ (lo = None \/ f[2] >= lo * f[3]) /\ (hi = None \/ f[2] <= hi * f[3])}
    BY DEF fractions
  <2> HIDE DEF all
  <2> QED BY <2>1, Zenon
<1>4. n \in Int /\ Within(d, None, most)
  BY <1>2, <1>3 DEF Within
<1>5. (lo = None \/ n >= lo * d) /\ (hi = None \/ n <= hi * d)
  BY <1>2, <1>3, Zenon
<1> QED BY <1>1, <1>4, <1>5

\* What a part of a complex number may be.
PartIn(x, least, most, nan, infinity) ==
  \/ x[1] = "float"
  \/ x[1] = "nan" /\ nan # FALSE /\ least = 0 /\ most = None
  \/ x[1] = "inf" /\ infinity # FALSE /\ most = None

LEMMA ComplexIn ==
  ASSUME NEW least, NEW most, NEW nan, NEW infinity, NEW v \in complex(least, most, nan, infinity)
  PROVE  /\ v \in Complexes /\ PartIn(v[2], least, most, nan, infinity) /\ PartIn(v[3], least, most, nan, infinity)
         /\ v[2][1] = "float" /\ v[3][1] = "float" => OfMagnitude(v[2][2], v[3][2], least, most)
<1> DEFINE nans == IF nan # FALSE /\ <<least, most>> = <<0, None>> THEN {<<"nan">>} ELSE {}
           infinities == IF infinity # FALSE /\ most = None THEN {"inf"} \X {-1, 1} ELSE {}
           parts == ({"float"} \X Span(None, None)) \cup nans \cup infinities
<1>1. /\ v \in {"complex"} \X parts \X parts
      /\ v[2][1] = "float" /\ v[3][1] = "float" => OfMagnitude(v[2][2], v[3][2], least, most)
  BY Zenon DEF complex
<1>2. \A x \in parts : x \in Plain /\ PartIn(x, least, most, nan, infinity)
  <2> SUFFICES ASSUME NEW x \in parts PROVE x \in Plain /\ PartIn(x, least, most, nan, infinity)
    OBVIOUS
  <2>1. CASE x \in {"float"} \X Span(None, None)
    <3>1. \A i \in Span(None, None) : i \in Int
      BY SpanWithin DEF Bounds
    <3> QED BY <2>1, <3>1 DEF Plain, PartIn
  <2>2. CASE x \in nans
    <3>1. x = <<"nan">> /\ nan # FALSE /\ least = 0 /\ most = None
      BY <2>2
    <3> QED BY <3>1 DEF Plain, PartIn
  <2>3. CASE x \in infinities
    <3>1. x \in {"inf"} \X {-1, 1} /\ infinity # FALSE /\ most = None
      BY <2>3, Zenon
    <3> QED BY <3>1 DEF Plain, PartIn
  <2> HIDE DEF nans, infinities
  <2> QED BY <2>1, <2>2, <2>3
<1> HIDE DEF parts
<1>3. v[2] \in parts /\ v[3] \in parts /\ v = <<"complex", v[2], v[3]>>
  BY <1>1
<1>4. v \in Complexes
  BY <1>2, <1>3 DEF Complexes
<1> QED BY <1>1, <1>2, <1>3, <1>4, Zenon

\* The types of schema with none inside.
Leaves == {"constant", "boolean", "integer", "float", "fraction", "complex", "string", "binary", "regex"} \cup Formats

LEMMA BoundsOf ==
  ASSUME NEW s, WellFormed(s)
  PROVE  /\ Get(s, "min_value", None) \in Bounds /\ Get(s, "max_value", None) \in Bounds
         /\ Get(s, "min_size", 0) \in Nat /\ Get(s, "max_size", None) \in Caps
         /\ Get(s, "max_denominator", None) \in (Nat \ {0}) \cup {None}
         /\ Get(s, "exclude_min", FALSE) \in BOOLEAN /\ Get(s, "exclude_max", FALSE) \in BOOLEAN
         /\ Get(s, "unique", FALSE) \in BOOLEAN /\ Get(s, "fullmatch", FALSE) \in BOOLEAN
         /\ characters(s) \subseteq DOMAIN Category
         /\ s.type = "regex" /\ Get(s, "alphabet", None) # None => characters(s.alphabet) \subseteq DOMAIN Category
         /\ Get(s, "min_magnitude", 0) \in Nat /\ Get(s, "max_magnitude", None) \in Caps
         /\ s.type = "constant" => s.value \in Plain
<1>1. /\ Get(s, "min_value", None) \in Bounds /\ Get(s, "max_value", None) \in Bounds
      /\ Get(s, "min_size", 0) \in Nat /\ Get(s, "max_size", None) \in Caps
      /\ Get(s, "max_denominator", None) \in (Nat \ {0}) \cup {None}
      /\ Get(s, "min_magnitude", 0) \in Nat /\ Get(s, "max_magnitude", None) \in Caps
      /\ s.type = "constant" => s.value \in Plain
  BY Zenon DEF WellFormed, Bounds, Caps
<1>2. /\ Get(s, "exclude_min", FALSE) \in BOOLEAN /\ Get(s, "exclude_max", FALSE) \in BOOLEAN
      /\ Get(s, "unique", FALSE) \in BOOLEAN /\ Get(s, "fullmatch", FALSE) \in BOOLEAN
  BY Zenon DEF WellFormed
<1>3. characters(s) \subseteq DOMAIN Category
  BY CharactersIn, Zenon DEF WellFormed
<1>4. s.type = "regex" /\ Get(s, "alphabet", None) # None => characters(s.alphabet) \subseteq DOMAIN Category
  BY CharactersIn, Zenon DEF WellFormed
<1> QED BY <1>1, <1>2, <1>3, <1>4

\* The numbers: what is drawn, and that it fits on the wire.
LEMMA NumbersFit ==
  ASSUME NEW s, NEW drawn, NEW fitting, WellFormed(s),
         s.type \in {"constant", "boolean", "integer", "float", "binary"}
  PROVE  Strategy(s, drawn) \subseteq Plain /\ \A v \in Strategy(s, drawn) : Fit(v, s, fitting)
<1>1. CASE s.type = "constant"
  <2>1. Strategy(s, drawn) = {s.value} /\ (\A v : Fit(v, s, fitting) <=> v = s.value)
    BY <1>1 DEF Strategy, Fit, Formats
  <2> QED BY <1>1, <2>1, BoundsOf, Zenon
<1>2. CASE s.type = "boolean"
  <2> DEFINE p == Get(s, "p", "half")
             drawable == CASE p = "zero" -> {FALSE} [] p = "one" -> {TRUE} [] OTHER -> BOOLEAN
  <2>1. /\ Strategy(s, drawn) = {<<"bool", b>> : b \in drawable}
        /\ \A v : Fit(v, s, fitting) <=>
                     v[1] = "bool" /\ (p = "zero" => v[2] = FALSE) /\ (p = "one" => v[2] = TRUE)
    BY <1>2 DEF Strategy, Fit, Formats
  <2>2. \A b \in drawable : b \in BOOLEAN /\ (p = "zero" => b = FALSE) /\ (p = "one" => b = TRUE)
    <3> HIDE DEF p
    <3>1. "zero" # "one"
      OBVIOUS
    <3>2. CASE p = "zero"
      BY <3>1, <3>2
    <3>3. CASE p = "one"
      BY <3>1, <3>3
    <3>4. CASE p # "zero" /\ p # "one"
      BY <3>4
    <3> QED BY <3>2, <3>3, <3>4
  <2> HIDE DEF p, drawable
  <2> SUFFICES ASSUME NEW b \in drawable, NEW v, v = <<"bool", b>> PROVE v \in Plain /\ Fit(v, s, fitting)
    BY <2>1
  <2>3. v[1] = "bool" /\ v[2] = b /\ v \in Plain
    BY <2>2 DEF Plain
  <2> QED BY <2>1, <2>2, <2>3, Zenon
<1>3. CASE s.type = "integer"
  <2> DEFINE lo == Get(s, "min_value", None)
             hi == Get(s, "max_value", None)
  <2>1. /\ Strategy(s, drawn) = integers(lo, hi)
        /\ \A v : Fit(v, s, fitting) <=> v[1] = "int" /\ Within(v[2], lo, hi)
    BY <1>3 DEF Strategy, Fit, Formats
  <2>2. lo \in Bounds /\ hi \in Bounds
    BY BoundsOf
  <2> HIDE DEF lo, hi
  <2> SUFFICES ASSUME NEW v \in integers(lo, hi) PROVE v \in Plain /\ v[1] = "int" /\ Within(v[2], lo, hi)
    BY <2>1
  <2>3. PICK x \in Span(lo, hi) : v = <<"int", x>>
    BY DEF integers
  <2>4. x \in Int /\ Within(x, lo, hi)
    BY <2>2, SpanWithin
  <2> QED BY <2>3, <2>4 DEF Plain
<1>4. CASE s.type = "float"
  <2> DEFINE lo == Get(s, "min_value", None)
             hi == Get(s, "max_value", None)
             nan == Get(s, "allow_nan", None)
             infinity == Get(s, "allow_infinity", None)
             exMin == Get(s, "exclude_min", FALSE)
             exMax == Get(s, "exclude_max", FALSE)
  <2>1. Strategy(s, drawn) = floats(lo, hi, nan, infinity, exMin, exMax)
    BY <1>4 DEF Strategy, Formats
  <2>2. \A v : Fit(v, s, fitting) <=>
                 \/ /\ v[1] = "float" /\ Within(v[2], lo, hi)
                    /\ exMin => v[2] # s.min_value
                    /\ exMax => v[2] # s.max_value
                 \/ v[1] = "nan" /\ nan # FALSE /\ lo = None /\ hi = None
                 \/ v[1] = "inf" /\ infinity # FALSE /\ Get(s, IF v[2] = 1 THEN "max_value" ELSE "min_value", None) = None
    BY <1>4 DEF Fit, Formats
  <2>3. lo \in Bounds /\ hi \in Bounds /\ exMin \in BOOLEAN /\ exMax \in BOOLEAN
    BY BoundsOf
  <2>4. \A v \in Strategy(s, drawn) : FloatIn(v, lo, hi, nan, infinity, exMin, exMax)
    <3> HIDE DEF lo, hi, nan, infinity, exMin, exMax
    <3> QED BY <2>1, <2>3, FloatsIn
  <2>5. ASSUME NEW x \in Int, exMin => x # lo, exMax => x # hi, Strategy(s, drawn) # {}
        PROVE  (exMin => x # s.min_value) /\ (exMax => x # s.max_value)
    <3>1. (exMin => lo # None) /\ (exMax => hi # None)
      BY <2>1, <2>5 DEF floats
    <3>2. (lo # None => lo = s.min_value) /\ (hi # None => hi = s.max_value)
      BY DEF Get
    <3> HIDE DEF lo, hi, exMin, exMax
    <3> QED BY <2>5, <3>1, <3>2, Zenon
  <2> SUFFICES ASSUME NEW v \in Strategy(s, drawn) PROVE v \in Plain /\ Fit(v, s, fitting)
    BY Zenon
  <2>6. CASE \E x \in Int : v = <<"float", x>> /\ Within(x, lo, hi) /\ (exMin => x # lo) /\ (exMax => x # hi)
    <3>1. PICK x \in Int : v = <<"float", x>> /\ Within(x, lo, hi) /\ (exMin => x # lo) /\ (exMax => x # hi)
      BY <2>6, Zenon
    <3>2. (exMin => x # s.min_value) /\ (exMax => x # s.max_value)
      BY <2>5, <3>1, Zenon
    <3>3. v[1] = "float" /\ v[2] = x /\ v \in Plain
      BY <3>1 DEF Plain
    <3> HIDE DEF lo, hi, nan, infinity, exMin, exMax
    <3> QED BY <2>2, <3>1, <3>2, <3>3, Zenon
  <2>7. CASE v = <<"nan">> /\ nan # FALSE /\ lo = None /\ hi = None
    <3>1. v[1] = "nan" /\ v \in Plain
      BY <2>7 DEF Plain
    <3> HIDE DEF lo, hi, nan, infinity, exMin, exMax
    <3> QED BY <2>2, <2>7, <3>1, Zenon
  <2>8. CASE \E side \in {-1, 1} : v = <<"inf", side>> /\ infinity # FALSE /\ (IF side = 1 THEN hi ELSE lo) = None
    <3>1. PICK side \in {-1, 1} : v = <<"inf", side>> /\ infinity # FALSE /\ (IF side = 1 THEN hi ELSE lo) = None
      BY <2>8, Zenon
    <3>2. v[1] = "inf" /\ v[2] = side /\ v \in Plain
      BY <3>1 DEF Plain
    <3>3. Get(s, IF v[2] = 1 THEN "max_value" ELSE "min_value", None) = None
      BY <3>1, <3>2, Zenon
    <3> HIDE DEF lo, hi, nan, infinity, exMin, exMax
    <3> QED BY <2>2, <3>1, <3>2, <3>3, Zenon
  <2> QED BY <2>4, <2>6, <2>7, <2>8, Zenon DEF FloatIn
<1>5. CASE s.type = "binary"
  <2> DEFINE least == Get(s, "min_size", 0)
             most == Get(s, "max_size", None)
  <2>1. /\ Strategy(s, drawn) = binary(least, most)
        /\ \A v : Fit(v, s, fitting) <=> v[1] = "bytes" /\ Within(v[2], least, most)
    BY <1>5 DEF Strategy, Fit, Formats
  <2>2. least \in Nat /\ most \in Caps
    BY BoundsOf
  <2> HIDE DEF least, most
  <2> SUFFICES ASSUME NEW v \in binary(least, most) PROVE v \in Plain /\ v[1] = "bytes" /\ Within(v[2], least, most)
    BY <2>1
  <2>3. PICK x \in Sizes(least, most) : v = <<"bytes", x>>
    BY DEF binary
  <2>4. x \in Int /\ Within(x, least, most)
    BY <2>2, SizesWithin
  <2> QED BY <2>3, <2>4 DEF Plain
<1> QED BY <1>1, <1>2, <1>3, <1>4, <1>5

\* The strings, fractions and complex numbers: how they are written fits.
LEMMA WrittenFit ==
  ASSUME NEW s, NEW drawn, NEW fitting, WellFormed(s),
         s.type \in {"fraction", "complex", "string", "regex"} \cup Formats
  PROVE  /\ \/ Strategy(s, drawn) \subseteq Strings \/ Strategy(s, drawn) \subseteq Fractions
            \/ Strategy(s, drawn) \subseteq Complexes
         /\ \A v \in Strategy(s, drawn) : Fit(_encode_value[v], s, fitting)
<1>1. CASE s.type = "fraction"
  <2> DEFINE lo == Get(s, "min_value", None)
             hi == Get(s, "max_value", None)
             most == Get(s, "max_denominator", None)
  <2>1. /\ Strategy(s, drawn) = fractions(lo, hi, most)
        /\ \A w : Fit(w, s, fitting) <=>
                    /\ w[1] = "array" /\ Len(w[2]) = 2 /\ \A i \in 1..2 : w[2][i][1] = "int"
                    /\ w[2][2][2] > 0 /\ Within(w[2][2][2], None, most)
                    /\ lo # None => w[2][1][2] >= s.min_value * w[2][2][2]
                    /\ hi # None => w[2][1][2] <= s.max_value * w[2][2][2]
    BY <1>1 DEF Strategy, Fit, Formats
  <2>2. most \in (Nat \ {0}) \cup {None} /\ (lo # None => lo = s.min_value) /\ (hi # None => hi = s.max_value)
    BY BoundsOf DEF Get
  <2> HIDE DEF lo, hi, most
  <2> SUFFICES ASSUME NEW v \in fractions(lo, hi, most) PROVE v \in Fractions /\ Fit(_encode_value[v], s, fitting)
    BY <2>1
  <2>3. PICK n \in Int, d \in {1, 2} : /\ v = <<"fraction", n, d>> /\ Within(d, None, most)
                                       /\ (lo = None \/ n >= lo * d) /\ (hi = None \/ n <= hi * d)
    BY <2>2, FractionsIn
  <2>4. v \in Fractions /\ v[2] = n /\ v[3] = d
    BY <2>3 DEF Fractions
  <2>5. _encode_value[v] = <<"array", <<<<"int", n>>, <<"int", d>>>>>>
    BY <2>4, EncodedFraction, Zenon
  <2>6. \A w : w = <<"array", <<<<"int", n>>, <<"int", d>>>>>> =>
                 /\ w[1] = "array" /\ Len(w[2]) = 2 /\ (\A i \in 1..2 : w[2][i][1] = "int")
                 /\ w[2][2][2] = d /\ w[2][1][2] = n
    OBVIOUS
  <2>7. d > 0
    OBVIOUS
  <2>8. (lo # None => n >= s.min_value * d) /\ (hi # None => n <= s.max_value * d)
    BY <2>2, <2>3, Zenon
  <2> QED BY ZenonT(60), <2>1, <2>3, <2>4, <2>5, <2>6, <2>7, <2>8
<1>2. CASE s.type = "complex"
  <2> DEFINE least == Get(s, "min_magnitude", 0)
             most == Get(s, "max_magnitude", None)
             nan == Get(s, "allow_nan", None)
             infinity == Get(s, "allow_infinity", None)
  <2>1. /\ Strategy(s, drawn) = complex(least, most, nan, infinity)
        /\ \A w : Fit(w, s, fitting) <=>
                    /\ w[1] = "array" /\ Len(w[2]) = 2
                    /\ \A i \in 1..2 : PartIn(w[2][i], least, most, nan, infinity)
                    /\ w[2][1][1] = "float" /\ w[2][2][1] = "float" =>
                         OfMagnitude(w[2][1][2], w[2][2][2], least, most)
    BY <1>2 DEF Strategy, Fit, Formats, PartIn
  <2> HIDE DEF least, most, nan, infinity
  <2> SUFFICES ASSUME NEW v \in complex(least, most, nan, infinity) PROVE v \in Complexes /\ Fit(_encode_value[v], s, fitting)
    BY <2>1
  <2>2. /\ v \in Complexes /\ PartIn(v[2], least, most, nan, infinity) /\ PartIn(v[3], least, most, nan, infinity)
        /\ v[2][1] = "float" /\ v[3][1] = "float" => OfMagnitude(v[2][2], v[3][2], least, most)
    BY ComplexIn
  <2> DEFINE q == <<v[2], v[3]>>
             w == <<"array", q>>
  <2>3. _encode_value[v] = w
    BY <2>2, EncodedComplex, Zenon
  <2>4. w[1] = "array" /\ w[2] = q /\ Len(q) = 2 /\ q[1] = v[2] /\ q[2] = v[3]
    OBVIOUS
  <2>5. \A i \in 1..2 : i = 1 \/ i = 2
    OBVIOUS
  <2> HIDE DEF q, w
  <2>6. \A i \in 1..2 : PartIn(w[2][i], least, most, nan, infinity)
    BY <2>2, <2>4, <2>5, Zenon
  <2>7. w[2][1][1] = "float" /\ w[2][2][1] = "float" => OfMagnitude(w[2][1][2], w[2][2][2], least, most)
    BY <2>2, <2>4, Zenon
  <2>8. Fit(w, s, fitting)
    BY <2>1, <2>4, <2>6, <2>7, Zenon
  <2> QED BY <2>2, <2>3, <2>8, Zenon
<1>3. CASE s.type = "string"
  <2> DEFINE least == Get(s, "min_size", 0)
             most == Get(s, "max_size", None)
  <2>1. /\ Strategy(s, drawn) = text(characters(s), least, most)
        /\ \A w : Fit(w, s, fitting) <=>
                    w[1] = "tag91" /\ Within(Len(w[2]), least, most) /\ \A i \in DOMAIN w[2] : Permitted(w[2][i], s)
    BY <1>3 DEF Strategy, Fit, Formats
  <2>2. least \in Nat /\ most \in Caps /\ characters(s) \subseteq Nat
    BY BoundsOf, SchemaAssumption
  <2> HIDE DEF least, most
  <2> SUFFICES ASSUME NEW v \in text(characters(s), least, most) PROVE v \in Strings /\ Fit(_encode_value[v], s, fitting)
    BY <2>1
  <2>3. PICK q \in Collections(characters(s), least, most) : v = <<"str", q>>
    BY DEF text
  <2>4. q \in Seq(characters(s)) /\ Within(Len(q), least, most)
    BY <2>2, CollectionsIn
  <2>5. v \in Strings /\ v[2] = q
    <3>1. q \in Seq(Nat)
      BY <2>2, <2>4, Wider, Zenon
    <3> QED BY <2>3, <3>1 DEF Strings
  <2>6. _encode_value[v] = <<"tag91", q>>
    BY <2>5, EncodedString, Zenon
  <2>7. \A i \in DOMAIN q : Permitted(q[i], s)
    <3>1. \A i \in DOMAIN q : q[i] \in characters(s)
      BY <2>4
    <3> QED BY <3>1, CharactersPermitted, Zenon
  <2>8. \A w : w = <<"tag91", q>> => w[1] = "tag91" /\ w[2] = q
    OBVIOUS
  <2> QED BY <2>1, <2>4, <2>5, <2>6, <2>7, <2>8, Zenon
<1>4. CASE s.type = "regex"
  <2> DEFINE full == Get(s, "fullmatch", FALSE)
             given == Get(s, "alphabet", None)
             alphabet == IF given = None THEN DOMAIN Category ELSE characters(s.alphabet)
  <2>1. /\ Strategy(s, drawn) = from_regex(s.pattern, full, alphabet)
        /\ \A w : Fit(w, s, fitting) <=>
                    /\ w[1] = "tag91" /\ Matches(w[2], s.pattern, full)
                    /\ given # None => \A i \in DOMAIN w[2] : Permitted(w[2][i], s.alphabet)
    BY <1>4 DEF Strategy, Fit, Formats
  <2>2. alphabet \subseteq Nat /\ full \in BOOLEAN
    BY <1>4, BoundsOf, SchemaAssumption
  <2>3. given # None => \A c \in alphabet : Permitted(c, s.alphabet)
    BY CharactersPermitted, Zenon
  <2> HIDE DEF full, given, alphabet
  <2> SUFFICES ASSUME NEW v \in from_regex(s.pattern, full, alphabet)
               PROVE  v \in Strings /\ Fit(_encode_value[v], s, fitting)
    BY <2>1
  <2>4. PICK q \in Collections(alphabet, 0, None) : v = <<"str", q>> /\ Matches(q, s.pattern, full)
    BY Zenon DEF from_regex
  <2>5. q \in Seq(alphabet)
    BY <2>2, CollectionsIn DEF Caps
  <2>6. v \in Strings /\ v[2] = q
    <3>1. q \in Seq(Nat)
      BY <2>2, <2>5, Wider, Zenon
    <3> QED BY <2>4, <3>1 DEF Strings
  <2>7. _encode_value[v] = <<"tag91", q>>
    BY <2>6, EncodedString, Zenon
  <2>8. \A w : w = <<"tag91", q>> => w[1] = "tag91" /\ w[2] = q
    OBVIOUS
  <2>9. given # None => \A i \in DOMAIN q : Permitted(q[i], s.alphabet)
    <3>1. \A i \in DOMAIN q : q[i] \in alphabet
      BY <2>5
    <3> QED BY <2>3, <3>1, Zenon
  <2> QED BY <2>1, <2>4, <2>6, <2>7, <2>8, <2>9, Zenon
<1>5. CASE s.type \in Formats
  <2>1. Strategy(s, drawn) = formats(s.type) /\ (\A w : Fit(w, s, fitting) <=> w[1] = "tag91")
    BY ZenonT(60), <1>5 DEF Strategy, Fit, Formats
  <2> SUFFICES ASSUME NEW v \in formats(s.type) PROVE v \in Strings /\ Fit(_encode_value[v], s, fitting)
    BY <2>1
  <2>2. v = <<"str", <<1>>>>
    BY DEF formats, Formatted
  <2>3. v \in Strings
    BY <2>2 DEF Strings
  <2> QED BY <2>1, <2>3, EncodedString
<1> QED BY <1>1, <1>2, <1>3, <1>4, <1>5

-----------------------------------------------------------------------------
(* What is drawn for a schema with others inside.                          *)

\* What is drawn, D, is at most k deep, as is its encoding, which fits and tells
\* the values apart.
Right(D, F, k) ==
  /\ \A v \in D : v \in Nested[k] /\ _encode_value[v] \in Nested[k] /\ _encode_value[v] \in F
  /\ \A v, x \in D : _encode_value[v] = _encode_value[x] => v = x

Encodings(q) == [i \in DOMAIN q |-> _encode_value[q[i]]]

LEMMA EncodedItems ==
  ASSUME NEW k \in 0..Deepest, k + 1 \in 0..Deepest, NEW tag \in {"list", "tuple"}, NEW q \in Seq(Nested[k]),
         \A i \in DOMAIN q : _encode_value[q[i]] \in Nested[k]
  PROVE  /\ <<tag, q>> \in Nested[k + 1] /\ _encode_value[<<tag, q>>] = <<"array", Encodings(q)>>
         /\ _encode_value[<<tag, q>>] \in Nested[k + 1] /\ _encode_value[<<tag, q>>] \in Values
         /\ Encodings(q) \in Seq(Nested[k]) /\ Len(Encodings(q)) = Len(q) /\ DOMAIN Encodings(q) = DOMAIN q
         /\ \A i \in DOMAIN q : Encodings(q)[i] = _encode_value[q[i]]
<1>1. <<tag, q>> \in Nested[k + 1] /\ <<tag, q>> \in Values
  BY Deeper
<1>2. _encode_value[<<tag, q>>] = <<"array", Encodings(q)>>
  <2>1. _encode_value[<<tag, q>>] = Encode(<<tag, q>>, _encode_value)
    BY <1>1, EncodeDef, Zenon
  <2>2. <<tag, q>>[1] = tag /\ <<tag, q>>[2] = q
    OBVIOUS
  <2>3. Encode(<<tag, q>>, _encode_value) = <<"array", [i \in DOMAIN q |-> _encode_value[q[i]]]>>
    BY <2>2 DEF Encode
  <2> QED BY <2>1, <2>3 DEF Encodings
<1>3. Len(q) \in Nat /\ DOMAIN q = 1..Len(q)
  OBVIOUS
<1>4. /\ Encodings(q) \in Seq(Nested[k]) /\ Len(Encodings(q)) = Len(q) /\ DOMAIN Encodings(q) = DOMAIN q
      /\ \A i \in DOMAIN q : Encodings(q)[i] = _encode_value[q[i]]
  BY <1>3 DEF Encodings
<1>5. _encode_value[<<tag, q>>] \in Nested[k + 1] /\ _encode_value[<<tag, q>>] \in Values
  <2>1. "array" \in {"list", "tuple", "array"}
    OBVIOUS
  <2> HIDE DEF Encodings
  <2> QED BY <1>2, <1>4, <2>1, Deeper
<1> QED BY <1>1, <1>2, <1>4, <1>5, Zenon

\* Sequences are told apart by their encodings if their items are.
LEMMA ItemsTold ==
  ASSUME NEW k \in 0..Deepest, k + 1 \in 0..Deepest, NEW tag \in {"list", "tuple"},
         NEW q \in Seq(Nested[k]), NEW p \in Seq(Nested[k]),
         \A i \in DOMAIN q : _encode_value[q[i]] \in Nested[k],
         \A i \in DOMAIN p : _encode_value[p[i]] \in Nested[k],
         Len(q) = Len(p) => \A i \in DOMAIN q : _encode_value[q[i]] = _encode_value[p[i]] => q[i] = p[i],
         _encode_value[<<tag, q>>] = _encode_value[<<tag, p>>]
  PROVE  q = p
<1>1. /\ _encode_value[<<tag, q>>] = <<"array", Encodings(q)>> /\ Len(Encodings(q)) = Len(q)
      /\ \A i \in DOMAIN q : Encodings(q)[i] = _encode_value[q[i]]
  BY EncodedItems
<1>2. /\ _encode_value[<<tag, p>>] = <<"array", Encodings(p)>> /\ Len(Encodings(p)) = Len(p)
      /\ \A i \in DOMAIN p : Encodings(p)[i] = _encode_value[p[i]]
  BY EncodedItems
<1>3. Encodings(q) = Encodings(p)
  <2>1. <<"array", Encodings(q)>> = <<"array", Encodings(p)>>
    BY <1>1, <1>2, Zenon
  <2> QED BY <2>1
<1>4. Len(q) = Len(p) /\ DOMAIN q = DOMAIN p
  BY <1>1, <1>2, <1>3
<1>5. \A i \in DOMAIN q : q[i] = p[i]
  BY ZenonT(60), <1>1, <1>2, <1>3, <1>4
<1>6. q = [i \in DOMAIN q |-> q[i]] /\ p = [i \in DOMAIN p |-> p[i]]
  OBVIOUS
<1> QED BY <1>4, <1>5, <1>6, Zenon

\* One lemma for each type of schema with others inside: if the parts are right, it is.
LEMMA ListRight ==
  ASSUME NEW s, NEW drawn, NEW fitting, NEW k \in 0..Deepest, k + 1 \in 0..Deepest, WellFormed(s), s.type = "list",
         Right(drawn[s.elements], fitting[s.elements], k)
  PROVE  Right(Strategy(s, drawn), ThatFit(s, fitting), k + 1)
<1> DEFINE least == Get(s, "min_size", 0)
           most == Get(s, "max_size", None)
           unique == Get(s, "unique", FALSE)
           E == drawn[s.elements]
           F == fitting[s.elements]
<1>1. /\ Strategy(s, drawn) = lists(E, least, most, unique)
      /\ \A w : Fit(w, s, fitting) <=>
                  /\ w[1] = "array" /\ Within(Len(w[2]), least, most) /\ \A i \in DOMAIN w[2] : w[2][i] \in F
                  /\ unique => Distinct(w[2])
  BY DEF Strategy, Fit, Formats
<1>2. least \in Nat /\ most \in Caps
  BY BoundsOf
<1>3. Right(E, F, k)
  OBVIOUS
<1> HIDE DEF least, most, unique, E, F
<1>4. \A v \in lists(E, least, most, unique) :
        \E q \in Seq(Nested[k]) : /\ v = <<"list", q>> /\ Within(Len(q), least, most) /\ (unique => Distinct(q))
                                  /\ \A i \in DOMAIN q : q[i] \in E
  <2> SUFFICES ASSUME NEW v \in lists(E, least, most, unique)
               PROVE \E q \in Seq(Nested[k]) : /\ v = <<"list", q>> /\ Within(Len(q), least, most)
                                               /\ (unique => Distinct(q)) /\ \A i \in DOMAIN q : q[i] \in E
    BY Zenon
  <2>1. PICK q \in Collections(E, least, most) : v = <<"list", q>> /\ (unique => Distinct(q))
    BY Zenon DEF lists
  <2>2. q \in Seq(E) /\ Within(Len(q), least, most)
    BY <1>2, CollectionsIn, Zenon
  <2>3. E \subseteq Nested[k]
    BY <1>3, Zenon DEF Right
  <2>4. q \in Seq(Nested[k])
    BY <2>2, <2>3, Wider, Zenon
  <2>5. \A i \in DOMAIN q : q[i] \in E
    BY <2>2
  <2> QED BY <2>1, <2>2, <2>4, <2>5, Zenon
<1>5. ASSUME NEW q \in Seq(Nested[k]), \A i \in DOMAIN q : q[i] \in E
      PROVE  /\ \A i \in DOMAIN q : _encode_value[q[i]] \in Nested[k] /\ _encode_value[q[i]] \in F
             /\ \A i, j \in DOMAIN q : _encode_value[q[i]] = _encode_value[q[j]] => q[i] = q[j]
  BY <1>3, <1>5, Zenon DEF Right
<1>6. ASSUME NEW v \in lists(E, least, most, unique)
      PROVE  /\ v \in Nested[k + 1] /\ _encode_value[v] \in Nested[k + 1]
             /\ _encode_value[v] \in ThatFit(s, fitting)
  <2>1. PICK q \in Seq(Nested[k]) : /\ v = <<"list", q>> /\ Within(Len(q), least, most) /\ (unique => Distinct(q))
                                    /\ \A i \in DOMAIN q : q[i] \in E
    BY <1>4, Zenon
  <2>2. /\ v \in Nested[k + 1] /\ _encode_value[v] = <<"array", Encodings(q)>>
        /\ _encode_value[v] \in Nested[k + 1] /\ _encode_value[v] \in Values
        /\ Len(Encodings(q)) = Len(q) /\ DOMAIN Encodings(q) = DOMAIN q
        /\ \A i \in DOMAIN q : Encodings(q)[i] = _encode_value[q[i]]
    <3>1. "list" \in {"list", "tuple"}
      OBVIOUS
    <3> QED BY <1>5, <2>1, <3>1, EncodedItems
  <2>3. \A i \in DOMAIN Encodings(q) : Encodings(q)[i] \in F
    BY <1>5, <2>1, <2>2, Zenon
  <2>4. unique => Distinct(Encodings(q))
    <3> SUFFICES ASSUME unique PROVE Distinct(Encodings(q))
      BY Zenon
    <3>1. \A i \in DOMAIN q : q[i] \in Values
      <4>1. \A i \in DOMAIN q : q[i] \in Nested[k]
        BY <2>1
      <4> QED BY <4>1, AtomsIn, Zenon
    <3>2. \A i, j \in DOMAIN q : _encode_value[q[i]] = _encode_value[q[j]] => q[i] = q[j]
      BY <1>5, <2>1, Zenon
    <3>3. Distinct(q)
      BY <2>1, Zenon
    <3> QED BY <2>2, <3>1, <3>2, <3>3, DistinctKept, Zenon
  <2>5. \A w : w = <<"array", Encodings(q)>> => w[1] = "array" /\ w[2] = Encodings(q)
    OBVIOUS
  <2>6. Fit(_encode_value[v], s, fitting)
    BY <1>1, <2>1, <2>2, <2>3, <2>4, <2>5, Zenon
  <2> QED BY <2>2, <2>6, Zenon DEF ThatFit
<1>7. ASSUME NEW v \in lists(E, least, most, unique), NEW x \in lists(E, least, most, unique),
             _encode_value[v] = _encode_value[x]
      PROVE  v = x
  <2>1. PICK q \in Seq(Nested[k]) : v = <<"list", q>> /\ \A i \in DOMAIN q : q[i] \in E
    BY <1>4, Zenon
  <2>2. PICK p \in Seq(Nested[k]) : x = <<"list", p>> /\ \A i \in DOMAIN p : p[i] \in E
    BY <1>4, Zenon
  <2>3. Len(q) = Len(p) => \A i \in DOMAIN q : _encode_value[q[i]] = _encode_value[p[i]] => q[i] = p[i]
    <3>1. Len(q) = Len(p) => DOMAIN q = DOMAIN p
      OBVIOUS
    <3> QED BY <1>3, <2>1, <2>2, <3>1, Zenon DEF Right
  <2>4. q = p
    <3>1. "list" \in {"list", "tuple"}
      OBVIOUS
    <3> QED BY <1>5, <1>7, <2>1, <2>2, <2>3, <3>1, ItemsTold, Zenon
  <2> QED BY <2>1, <2>2, <2>4, Zenon
<1> QED BY ZenonT(60), <1>1, <1>6, <1>7 DEF Right

LEMMA TupleRight ==
  ASSUME NEW s, NEW drawn, NEW fitting, NEW k \in 0..Deepest, k + 1 \in 0..Deepest, WellFormed(s), s.type = "tuple",
         \A t \in Parts(s) : Right(drawn[t], fitting[t], k)
  PROVE  Right(Strategy(s, drawn), ThatFit(s, fitting), k + 1)
<1> DEFINE parts == s.elements
           D(i) == drawn[s.elements[i]]
           F(i) == fitting[s.elements[i]]
           d == [i \in DOMAIN parts |-> D(i)]
<1>0. parts \in Seq(Parts(s)) /\ Parts(s) = Range(parts)
  BY DEF WellFormed, Parts, Formats
<1>1. /\ Strategy(s, drawn) = tuples(d)
      /\ \A w : Fit(w, s, fitting) <=>
                  w[1] = "array" /\ Len(w[2]) = Len(parts) /\ \A i \in DOMAIN w[2] : w[2][i] \in F(i)
  BY DEF Strategy, Fit, Formats
<1>2. \A i \in DOMAIN parts : Right(D(i), F(i), k)
  BY <1>0, Zenon DEF Range
<1>3. Len(parts) \in Nat /\ DOMAIN parts = 1..Len(parts)
  BY <1>0
<1> HIDE DEF parts, D, F
<1>d. DOMAIN d = DOMAIN parts /\ \A i \in DOMAIN parts : d[i] = D(i)
  BY Zenon
<1> HIDE DEF d
<1>4. \A v \in tuples(d) :
        \E q \in Seq(Nested[k]) : v = <<"tuple", q>> /\ Len(q) = Len(parts) /\ \A i \in DOMAIN q : q[i] \in D(i)
  <2> SUFFICES ASSUME NEW v \in tuples(d)
               PROVE  \E q \in Seq(Nested[k]) : v = <<"tuple", q>> /\ Len(q) = Len(parts) /\ \A i \in DOMAIN q : q[i] \in D(i)
    BY Zenon
  <2>2. PICK q \in [DOMAIN d -> UNION Range(d)] : v = <<"tuple", q>> /\ \A i \in DOMAIN d : q[i] \in d[i]
    BY Zenon DEF tuples
  <2>3. \A i \in DOMAIN parts : q[i] \in D(i)
    BY <1>d, <2>2, Zenon
  <2>4. \A i \in DOMAIN parts : q[i] \in Nested[k]
    BY <1>2, <2>3, Zenon DEF Right
  <2>5. q = [i \in 1..Len(parts) |-> q[i]]
    BY <1>3, <1>d, <2>2, Zenon
  <2>6. q \in Seq(Nested[k]) /\ Len(q) = Len(parts) /\ DOMAIN q = DOMAIN parts
    BY <1>3, <2>4, <2>5
  <2> QED BY <2>2, <2>3, <2>6, Zenon
<1>5. ASSUME NEW q \in Seq(Nested[k]), Len(q) = Len(parts), \A i \in DOMAIN q : q[i] \in D(i)
      PROVE  /\ DOMAIN q = DOMAIN parts
             /\ \A i \in DOMAIN q : _encode_value[q[i]] \in Nested[k] /\ _encode_value[q[i]] \in F(i)
  <2>1. DOMAIN q = DOMAIN parts
    BY <1>3, <1>5
  <2> QED BY <1>2, <1>5, <2>1, Zenon DEF Right
<1>6. ASSUME NEW v \in tuples(d)
      PROVE  /\ v \in Nested[k + 1] /\ _encode_value[v] \in Nested[k + 1]
             /\ _encode_value[v] \in ThatFit(s, fitting)
  <2>1. PICK q \in Seq(Nested[k]) : v = <<"tuple", q>> /\ Len(q) = Len(parts) /\ \A i \in DOMAIN q : q[i] \in D(i)
    BY <1>4, Zenon
  <2>2. \A i \in DOMAIN q : _encode_value[q[i]] \in Nested[k] /\ _encode_value[q[i]] \in F(i)
    BY <1>5, <2>1, Zenon
  <2>3. /\ v \in Nested[k + 1] /\ _encode_value[v] = <<"array", Encodings(q)>>
        /\ _encode_value[v] \in Nested[k + 1] /\ _encode_value[v] \in Values
        /\ Len(Encodings(q)) = Len(q) /\ DOMAIN Encodings(q) = DOMAIN q
        /\ \A i \in DOMAIN q : Encodings(q)[i] = _encode_value[q[i]]
    <3>1. "tuple" \in {"list", "tuple"}
      OBVIOUS
    <3> QED BY <2>1, <2>2, <3>1, EncodedItems
  <2>4. \A i \in DOMAIN Encodings(q) : Encodings(q)[i] \in F(i)
    BY <2>2, <2>3, Zenon
  <2>5. \A w : w = <<"array", Encodings(q)>> => w[1] = "array" /\ w[2] = Encodings(q)
    OBVIOUS
  <2>6. Fit(_encode_value[v], s, fitting)
    BY <1>1, <2>1, <2>3, <2>4, <2>5, Zenon
  <2> QED BY <2>3, <2>6, Zenon DEF ThatFit
<1>7. ASSUME NEW v \in tuples(d), NEW x \in tuples(d),
             _encode_value[v] = _encode_value[x]
      PROVE  v = x
  <2>1. PICK q \in Seq(Nested[k]) : v = <<"tuple", q>> /\ Len(q) = Len(parts) /\ \A i \in DOMAIN q : q[i] \in D(i)
    BY <1>4, Zenon
  <2>2. PICK p \in Seq(Nested[k]) : x = <<"tuple", p>> /\ Len(p) = Len(parts) /\ \A i \in DOMAIN p : p[i] \in D(i)
    BY <1>4, Zenon
  <2>3. DOMAIN q = DOMAIN parts /\ DOMAIN p = DOMAIN parts
    BY <1>5, <2>1, <2>2, Zenon
  <2>4. \A i \in DOMAIN q : _encode_value[q[i]] = _encode_value[p[i]] => q[i] = p[i]
    BY <1>2, <2>1, <2>2, <2>3, Zenon DEF Right
  <2>5. /\ \A i \in DOMAIN q : _encode_value[q[i]] \in Nested[k]
        /\ \A i \in DOMAIN p : _encode_value[p[i]] \in Nested[k]
    BY <1>5, <2>1, <2>2, Zenon
  <2>6. q = p
    <3>1. "tuple" \in {"list", "tuple"} /\ _encode_value[<<"tuple", q>>] = _encode_value[<<"tuple", p>>]
      BY <1>7, <2>1, <2>2
    <3> QED BY <2>4, <2>5, <3>1, ItemsTold
  <2> QED BY <2>1, <2>2, <2>6, Zenon
<1>8. Right(tuples(d), ThatFit(s, fitting), k + 1)
  BY <1>6, <1>7, Zenon DEF Right
<1>9. Strategy(s, drawn) = tuples(d)
  BY <1>1 DEF d
<1> QED BY <1>8, <1>9, Zenon

\* The pair of two values, and of two encodings.
LEMMA PairRight ==
  ASSUME NEW k \in 0..Deepest, k + 1 \in 0..Deepest, NEW x \in Nested[k], NEW y \in Nested[k],
         _encode_value[x] \in Nested[k], _encode_value[y] \in Nested[k]
  PROVE  /\ <<"tuple", <<x, y>>>> \in Nested[k + 1]
         /\ _encode_value[<<"tuple", <<x, y>>>>] = <<"array", <<_encode_value[x], _encode_value[y]>>>>
         /\ _encode_value[<<"tuple", <<x, y>>>>] \in Nested[k + 1]
         /\ _encode_value[<<"tuple", <<x, y>>>>] \in Values
<1> DEFINE q == <<x, y>>
<1>1. q \in Seq(Nested[k]) /\ DOMAIN q = 1..2 /\ q[1] = x /\ q[2] = y
  <2>1. \A S : x \in S /\ y \in S => <<x, y>> \in Seq(S)
    OBVIOUS
  <2>2. DOMAIN q = 1..2 /\ q[1] = x /\ q[2] = y
    OBVIOUS
  <2> QED BY <2>1, <2>2
<1>2. \A i \in 1..2 : i = 1 \/ i = 2
  OBVIOUS
<1> HIDE DEF q
<1>3. \A i \in DOMAIN q : _encode_value[q[i]] \in Nested[k]
  BY <1>1, <1>2, Zenon
<1>4. "tuple" \in {"list", "tuple"}
  OBVIOUS
<1>5. /\ <<"tuple", q>> \in Nested[k + 1] /\ _encode_value[<<"tuple", q>>] = <<"array", Encodings(q)>>
      /\ _encode_value[<<"tuple", q>>] \in Nested[k + 1] /\ _encode_value[<<"tuple", q>>] \in Values
  BY <1>1, <1>3, <1>4, EncodedItems
<1>6. Encodings(q) = <<_encode_value[x], _encode_value[y]>>
  <2>1. Encodings(q) = [i \in 1..2 |-> _encode_value[q[i]]]
    BY <1>1, Zenon DEF Encodings
  <2> QED BY <1>1, <2>1
<1> QED BY <1>5, <1>6 DEF q

LEMMA OneOfRight ==
  ASSUME NEW s, NEW drawn, NEW fitting, NEW k \in 0..Deepest, k + 1 \in 0..Deepest, WellFormed(s), s.type = "one_of",
         \A t \in Parts(s) : Right(drawn[t], fitting[t], k)
  PROVE  Right(Strategy(s, drawn), ThatFit(s, fitting), k + 1)
<1> DEFINE parts == s.generators
           D(i) == drawn[s.generators[i]]
           F(i) == fitting[s.generators[i]]
           S == Strategy(s, drawn)
<1>0. parts \in Seq(Parts(s)) /\ Parts(s) = Range(parts)
  BY DEF WellFormed, Parts, Formats
<1>1. /\ S = UNION {{<<"tuple", <<<<"int", i - 1>>, v>>>> : v \in D(i)} : i \in DOMAIN parts}
      /\ \A w : Fit(w, s, fitting) <=>
                  /\ w[1] = "array" /\ Len(w[2]) = 2 /\ w[2][1][1] = "int" /\ w[2][1][2] + 1 \in DOMAIN parts
                  /\ w[2][2] \in F(w[2][1][2] + 1)
  BY DEF Strategy, Fit, Formats
<1>2. \A i \in DOMAIN parts : Right(D(i), F(i), k)
  BY <1>0, Zenon DEF Range
<1>3. Len(parts) \in Nat /\ DOMAIN parts = 1..Len(parts) /\ \A i \in DOMAIN parts : i \in Int /\ i - 1 \in Int /\ (i - 1) + 1 = i
  BY <1>0
<1> HIDE DEF parts, D, F, S
<1>4. \A x \in S : \E i \in DOMAIN parts : \E v \in D(i) : x = <<"tuple", <<<<"int", i - 1>>, v>>>>
  BY <1>1
<1>5. ASSUME NEW i \in DOMAIN parts, NEW v \in D(i)
      PROVE  LET x == <<"tuple", <<<<"int", i - 1>>, v>>>>
             IN  /\ x \in Nested[k + 1] /\ _encode_value[x] = <<"array", <<<<"int", i - 1>>, _encode_value[v]>>>>
                 /\ _encode_value[x] \in Nested[k + 1] /\ _encode_value[x] \in Values
  <2>1. <<"int", i - 1>> \in Plain
    BY <1>3 DEF Plain
  <2>2. <<"int", i - 1>> \in Nested[k] /\ _encode_value[<<"int", i - 1>>] = <<"int", i - 1>>
    <3>1. Plain \subseteq Atoms
      BY DEF Atoms
    <3> QED BY <2>1, <3>1, AtomsIn, EncodedPlain, Zenon
  <2>3. v \in Nested[k] /\ _encode_value[v] \in Nested[k]
    BY <1>2, Zenon DEF Right
  <2> QED BY <2>2, <2>3, PairRight
<1>6. ASSUME NEW x \in S
      PROVE  x \in Nested[k + 1] /\ _encode_value[x] \in Nested[k + 1] /\ _encode_value[x] \in ThatFit(s, fitting)
  <2>0. PICK i \in DOMAIN parts : \E v \in D(i) : x = <<"tuple", <<<<"int", i - 1>>, v>>>>
    BY <1>4, Zenon
  <2>1. PICK v \in D(i) : x = <<"tuple", <<<<"int", i - 1>>, v>>>>
    BY <2>0, Zenon
  <2>2. /\ x \in Nested[k + 1] /\ _encode_value[x] = <<"array", <<<<"int", i - 1>>, _encode_value[v]>>>>
        /\ _encode_value[x] \in Nested[k + 1] /\ _encode_value[x] \in Values
    BY <1>5, <2>1, Zenon
  <2>3. _encode_value[v] \in F(i)
    BY <1>2, <2>1, Zenon DEF Right
  <2>4. \A w, y : w = <<"array", <<<<"int", i - 1>>, y>>>> =>
                    /\ w[1] = "array" /\ Len(w[2]) = 2 /\ w[2][1][1] = "int" /\ w[2][1][2] = i - 1 /\ w[2][2] = y
    OBVIOUS
  <2>5. Fit(_encode_value[x], s, fitting)
    <3> DEFINE w == _encode_value[x]
    <3>1. w[1] = "array" /\ Len(w[2]) = 2 /\ w[2][1][1] = "int" /\ w[2][1][2] = i - 1 /\ w[2][2] = _encode_value[v]
      BY ZenonT(60), <2>2, <2>4
    <3>2. w[2][1][2] + 1 = i
      BY <1>3, <3>1
    <3> HIDE DEF w
    <3>3. Fit(w, s, fitting)
      BY <1>1, <2>3, <3>1, <3>2
    <3> QED BY <3>3 DEF w
  <2> QED BY <2>2, <2>5, Zenon DEF ThatFit
<1>7. ASSUME NEW x \in S, NEW y \in S, _encode_value[x] = _encode_value[y]
      PROVE  x = y
  <2>0. PICK i \in DOMAIN parts : \E v \in D(i) : x = <<"tuple", <<<<"int", i - 1>>, v>>>>
    BY <1>4, Zenon
  <2>1. PICK v \in D(i) : x = <<"tuple", <<<<"int", i - 1>>, v>>>>
    BY <2>0, Zenon
  <2>a. PICK j \in DOMAIN parts : \E u \in D(j) : y = <<"tuple", <<<<"int", j - 1>>, u>>>>
    BY <1>4, Zenon
  <2>2. PICK u \in D(j) : y = <<"tuple", <<<<"int", j - 1>>, u>>>>
    BY <2>a, Zenon
  <2>3. <<"array", <<<<"int", i - 1>>, _encode_value[v]>>>> = <<"array", <<<<"int", j - 1>>, _encode_value[u]>>>>
    BY ZenonT(60), <1>5, <1>7, <2>1, <2>2
  <2>4. i - 1 = j - 1 /\ _encode_value[v] = _encode_value[u]
    BY <2>3
  <2>5. i = j
    BY <1>3, <2>4
  <2>6. v = u
    BY <1>2, <2>1, <2>2, <2>4, <2>5, Zenon DEF Right
  <2> QED BY <2>1, <2>2, <2>5, <2>6, Zenon
<1> QED BY <1>6, <1>7, Zenon DEF Right, S

\* Collections of what is told apart are told apart.
LEMMA CollectionsRight ==
  ASSUME NEW k \in 0..Deepest, k + 1 \in 0..Deepest, NEW E, NEW F, Right(E, F, k),
         NEW least \in Nat, NEW most \in Caps
  PROVE  /\ \A q \in Collections(E, least, most) :
              /\ q \in Seq(Nested[k]) /\ Within(Len(q), least, most)
              /\ <<"list", q>> \in Nested[k + 1] /\ _encode_value[<<"list", q>>] = <<"array", Encodings(q)>>
              /\ _encode_value[<<"list", q>>] \in Nested[k + 1] /\ _encode_value[<<"list", q>>] \in Values
              /\ Len(Encodings(q)) = Len(q) /\ DOMAIN Encodings(q) = DOMAIN q
              /\ \A i \in DOMAIN q : q[i] \in E /\ Encodings(q)[i] = _encode_value[q[i]]
         /\ \A q, p \in Collections(E, least, most) :
              _encode_value[<<"list", q>>] = _encode_value[<<"list", p>>] => q = p
<1>1. "list" \in {"list", "tuple"}
  OBVIOUS
<1>2. ASSUME NEW q \in Collections(E, least, most)
      PROVE  /\ q \in Seq(Nested[k]) /\ Within(Len(q), least, most)
             /\ \A i \in DOMAIN q : q[i] \in E /\ _encode_value[q[i]] \in Nested[k]
  <2>1. q \in Seq(E) /\ Within(Len(q), least, most)
    BY CollectionsIn
  <2>2. E \subseteq Nested[k]
    BY Zenon DEF Right
  <2>3. q \in Seq(Nested[k])
    BY <2>1, <2>2, Wider, Zenon
  <2>4. \A i \in DOMAIN q : q[i] \in E
    BY <2>1
  <2> QED BY <2>1, <2>3, <2>4, Zenon DEF Right
<1>3. ASSUME NEW q \in Collections(E, least, most)
      PROVE  /\ <<"list", q>> \in Nested[k + 1] /\ _encode_value[<<"list", q>>] = <<"array", Encodings(q)>>
             /\ _encode_value[<<"list", q>>] \in Nested[k + 1] /\ _encode_value[<<"list", q>>] \in Values
             /\ Len(Encodings(q)) = Len(q) /\ DOMAIN Encodings(q) = DOMAIN q
             /\ \A i \in DOMAIN q : Encodings(q)[i] = _encode_value[q[i]]
  <2>1. q \in Seq(Nested[k]) /\ \A i \in DOMAIN q : _encode_value[q[i]] \in Nested[k]
    BY <1>2, Zenon
  <2> QED BY <1>1, <2>1, EncodedItems
<1>4. ASSUME NEW q \in Collections(E, least, most), NEW p \in Collections(E, least, most),
             _encode_value[<<"list", q>>] = _encode_value[<<"list", p>>]
      PROVE  q = p
  <2>1. /\ q \in Seq(Nested[k]) /\ (\A i \in DOMAIN q : q[i] \in E /\ _encode_value[q[i]] \in Nested[k])
        /\ p \in Seq(Nested[k]) /\ (\A i \in DOMAIN p : p[i] \in E /\ _encode_value[p[i]] \in Nested[k])
    BY <1>2, Zenon
  <2>2. Len(q) = Len(p) => \A i \in DOMAIN q : _encode_value[q[i]] = _encode_value[p[i]] => q[i] = p[i]
    <3>1. Len(q) = Len(p) => DOMAIN q = DOMAIN p
      BY <2>1
    <3> QED BY <2>1, <3>1, Zenon DEF Right
  <2> QED BY <1>1, <1>4, <2>1, <2>2, ItemsTold, Zenon
<1> QED BY <1>2, <1>3, <1>4, Zenon

LEMMA DictRight ==
  ASSUME NEW s, NEW drawn, NEW fitting, NEW k \in 0..Deepest, k + 1 \in 0..Deepest, k + 2 \in 0..Deepest,
         WellFormed(s), s.type = "dict",
         Right(drawn[s.keys], fitting[s.keys], k), Right(drawn[s.values], fitting[s.values], k)
  PROVE  Right(Strategy(s, drawn), ThatFit(s, fitting), k + 2)
<1> DEFINE least == Get(s, "min_size", 0)
           most == Get(s, "max_size", None)
           K == drawn[s.keys]
           V == drawn[s.values]
           FK == fitting[s.keys]
           FV == fitting[s.values]
           P == {<<"tuple", kv>> : kv \in K \X V}
           S == Strategy(s, drawn)
           pair(w) == w[1] = "array" /\ Len(w[2]) = 2 /\ w[2][1] \in FK /\ w[2][2] \in FV
           FP == {w \in Values : pair(w)}
           once(e) == Distinct([i \in DOMAIN e |-> e[i][2][1]])
<1>1. /\ S = {<<"list", q>> : q \in {e \in Collections(P, least, most) : once(e)}}
      /\ \A w : Fit(w, s, fitting) <=>
                  /\ w[1] = "array" /\ Within(Len(w[2]), least, most)
                  /\ \A i \in DOMAIN w[2] : pair(w[2][i])
                  /\ once(w[2])
  BY DEF Strategy, Fit, Formats, dictionaries
<1>2. least \in Nat /\ most \in Caps
  BY BoundsOf
<1>3. Right(K, FK, k) /\ Right(V, FV, k)
  OBVIOUS
<1>4. \A w : pair(w) <=> w[1] = "array" /\ Len(w[2]) = 2 /\ w[2][1] \in FK /\ w[2][2] \in FV
  OBVIOUS
<1>5. \A v \in P : \E x \in K, y \in V : v = <<"tuple", <<x, y>>>>
  OBVIOUS
<1> HIDE DEF least, most, K, V, FK, FV, S, P
<1>6. ASSUME NEW x \in K, NEW y \in V
      PROVE  LET v == <<"tuple", <<x, y>>>>
             IN  /\ v \in Nested[k + 1] /\ _encode_value[v] = <<"array", <<_encode_value[x], _encode_value[y]>>>>
                 /\ _encode_value[v] \in Nested[k + 1] /\ _encode_value[v] \in Values
  <2>1. x \in Nested[k] /\ y \in Nested[k] /\ _encode_value[x] \in Nested[k] /\ _encode_value[y] \in Nested[k]
    BY <1>3, Zenon DEF Right
  <2> QED BY <2>1, PairRight
<1>7. ASSUME NEW v \in P
      PROVE  /\ v \in Nested[k + 1] /\ _encode_value[v] \in Nested[k + 1] /\ _encode_value[v] \in FP
             /\ v[2][1] \in K /\ _encode_value[v][2][1] = _encode_value[v[2][1]]
  <2>1. PICK x \in K, y \in V : v = <<"tuple", <<x, y>>>>
    BY <1>5
  <2>2. /\ v \in Nested[k + 1] /\ _encode_value[v] = <<"array", <<_encode_value[x], _encode_value[y]>>>>
        /\ _encode_value[v] \in Nested[k + 1] /\ _encode_value[v] \in Values
    BY <1>6, <2>1, Zenon
  <2>3. _encode_value[x] \in FK /\ _encode_value[y] \in FV
    BY <1>3, Zenon DEF Right
  <2>4. \A w, a, b : w = <<"array", <<a, b>>>> => w[1] = "array" /\ Len(w[2]) = 2 /\ w[2][1] = a /\ w[2][2] = b
    OBVIOUS
  <2>5. pair(_encode_value[v]) /\ _encode_value[v][2][1] = _encode_value[x]
    <3>1. /\ _encode_value[v][1] = "array" /\ Len(_encode_value[v][2]) = 2
          /\ _encode_value[v][2][1] = _encode_value[x] /\ _encode_value[v][2][2] = _encode_value[y]
      BY <2>2, <2>4
    <3> QED BY <2>3, <3>1
  <2>6. v[2][1] = x
    BY <2>1
  <2>7. _encode_value[v] \in FP
    <3> HIDE DEF pair
    <3> QED BY <2>2, <2>5, Zenon
  <2> HIDE DEF pair, FP
  <2> QED BY <2>2, <2>5, <2>6, <2>7
<1>8. ASSUME NEW v \in P, NEW u \in P, _encode_value[v] = _encode_value[u]
      PROVE  v = u
  <2>1. PICK x \in K, y \in V : v = <<"tuple", <<x, y>>>>
    BY <1>5
  <2>2. PICK a \in K, b \in V : u = <<"tuple", <<a, b>>>>
    BY <1>5
  <2>3. <<"array", <<_encode_value[x], _encode_value[y]>>>> = <<"array", <<_encode_value[a], _encode_value[b]>>>>
    BY ZenonT(60), <1>6, <1>8, <2>1, <2>2
  <2>4. _encode_value[x] = _encode_value[a] /\ _encode_value[y] = _encode_value[b]
    BY <2>3
  <2>5. x = a /\ y = b
    BY <1>3, <2>4, Zenon DEF Right
  <2> QED BY <2>1, <2>2, <2>5, Zenon
<1>9. Right(P, FP, k + 1)
  <2> HIDE DEF FP
  <2> QED BY <1>7, <1>8, Zenon DEF Right
<1>10. k + 1 \in 0..Deepest /\ (k + 1) + 1 \in 0..Deepest /\ (k + 1) + 1 = k + 2
  BY LevelsType
<1>11. /\ \A q \in Collections(P, least, most) :
            /\ q \in Seq(Nested[k + 1]) /\ Within(Len(q), least, most)
            /\ <<"list", q>> \in Nested[k + 2] /\ _encode_value[<<"list", q>>] = <<"array", Encodings(q)>>
            /\ _encode_value[<<"list", q>>] \in Nested[k + 2] /\ _encode_value[<<"list", q>>] \in Values
            /\ Len(Encodings(q)) = Len(q) /\ DOMAIN Encodings(q) = DOMAIN q
            /\ \A i \in DOMAIN q : q[i] \in P /\ Encodings(q)[i] = _encode_value[q[i]]
       /\ \A q, p \in Collections(P, least, most) :
            _encode_value[<<"list", q>>] = _encode_value[<<"list", p>>] => q = p
  <2> HIDE DEF FP, pair
  <2>1. ASSUME NEW m \in 0..Deepest, m + 1 \in 0..Deepest, Right(P, FP, m)
        PROVE /\ \A q \in Collections(P, least, most) :
                   /\ q \in Seq(Nested[m]) /\ Within(Len(q), least, most)
                   /\ <<"list", q>> \in Nested[m + 1] /\ _encode_value[<<"list", q>>] = <<"array", Encodings(q)>>
                   /\ _encode_value[<<"list", q>>] \in Nested[m + 1] /\ _encode_value[<<"list", q>>] \in Values
                   /\ Len(Encodings(q)) = Len(q) /\ DOMAIN Encodings(q) = DOMAIN q
                   /\ \A i \in DOMAIN q : q[i] \in P /\ Encodings(q)[i] = _encode_value[q[i]]
              /\ \A q, p \in Collections(P, least, most) :
                   _encode_value[<<"list", q>>] = _encode_value[<<"list", p>>] => q = p
    BY <1>2, <2>1, CollectionsRight, Zenon
  <2> QED BY <1>9, <1>10, <2>1, Zenon
<1>12. \A v \in S : \E q \in Collections(P, least, most) : v = <<"list", q>> /\ once(q)
  BY ZenonT(60), <1>1
<1>13. ASSUME NEW v \in S
       PROVE  v \in Nested[k + 2] /\ _encode_value[v] \in Nested[k + 2] /\ _encode_value[v] \in ThatFit(s, fitting)
  <2>1. PICK q \in Collections(P, least, most) : v = <<"list", q>> /\ once(q)
    BY <1>12, Zenon
  <2>2. /\ Within(Len(q), least, most) /\ v \in Nested[k + 2] /\ _encode_value[v] = <<"array", Encodings(q)>>
        /\ _encode_value[v] \in Nested[k + 2] /\ _encode_value[v] \in Values
        /\ Len(Encodings(q)) = Len(q) /\ DOMAIN Encodings(q) = DOMAIN q
        /\ \A i \in DOMAIN q : q[i] \in P /\ Encodings(q)[i] = _encode_value[q[i]]
    BY <1>11, <2>1, Zenon
  <2>3. \A i \in DOMAIN Encodings(q) : pair(Encodings(q)[i])
    <3> HIDE DEF pair
    <3> QED BY <1>7, <2>2, Zenon
  <2>4. once(Encodings(q))
    <3> DEFINE keys == [i \in DOMAIN q |-> q[i][2][1]]
               written == [i \in DOMAIN Encodings(q) |-> Encodings(q)[i][2][1]]
    <3>1. DOMAIN keys = DOMAIN q /\ DOMAIN written = DOMAIN keys
      BY <2>2, Zenon
    <3>2. \A i \in DOMAIN q : keys[i] = q[i][2][1] /\ written[i] = Encodings(q)[i][2][1]
      BY <2>2, Zenon
    <3> HIDE DEF keys, written
    <3>3. \A i \in DOMAIN q : keys[i] \in K /\ written[i] = _encode_value[keys[i]]
      <4> HIDE DEF FP, pair
      <4> QED BY ZenonT(60), <1>7, <2>2, <3>2
    <3>4. K \subseteq Values /\ \A x, y \in K : _encode_value[x] = _encode_value[y] => x = y
      BY <1>3, AtomsIn, Zenon DEF Right
    <3>5. Distinct(keys)
      BY <2>1, Zenon DEF keys
    <3>6. Distinct(written)
      BY <3>1, <3>3, <3>4, <3>5, DistinctKept, Zenon
    <3> QED BY <3>6, Zenon DEF written
  <2>5. \A w : w = <<"array", Encodings(q)>> => w[1] = "array" /\ w[2] = Encodings(q)
    OBVIOUS
  <2>6. Fit(_encode_value[v], s, fitting)
    <3> HIDE DEF pair, once
    <3> QED BY <1>1, <2>2, <2>3, <2>4, <2>5, Zenon
  <2> QED BY <2>2, <2>6, Zenon DEF ThatFit
<1>14. ASSUME NEW v \in S, NEW x \in S, _encode_value[v] = _encode_value[x]
       PROVE  v = x
  <2>1. PICK q \in Collections(P, least, most) : v = <<"list", q>>
    BY <1>12, Zenon
  <2>2. PICK p \in Collections(P, least, most) : x = <<"list", p>>
    BY <1>12, Zenon
  <2>3. q = p
    BY <1>11, <1>14, <2>1, <2>2, Zenon
  <2> QED BY <2>1, <2>2, <2>3, Zenon
<1>15. Right(S, ThatFit(s, fitting), k + 2)
  BY <1>13, <1>14, Zenon DEF Right
<1> QED BY <1>15 DEF S

-----------------------------------------------------------------------------
(* Every schema, from the inside out.                                      *)

\* Right at a depth is right at a greater one.
LEMMA RightDeeper ==
  ASSUME NEW D, NEW F, NEW k \in 0..Deepest, NEW m \in k..Deepest, Right(D, F, k)
  PROVE  Right(D, F, m)
BY NestedUp, Zenon DEF Right

LEMMA PlainRight ==
  ASSUME NEW s, WellFormed(s), Parts(s) = {}
  PROVE  Right(Strategy(s, <<>>), ThatFit(s, <<>>), 1)
<1> DEFINE S == Strategy(s, <<>>)
<1>0. 1 \in 0..Deepest /\ 1 \in 1..Deepest /\ 0 \in 0..Deepest /\ 0 + 1 \in 0..Deepest /\ 0 + 1 = 1
  BY LevelsType
<1>1. ASSUME S \subseteq Plain \/ S \subseteq Strings \/ S \subseteq Fractions \/ S \subseteq Complexes,
             \A v \in S : Fit(_encode_value[v], s, <<>>)
      PROVE  Right(S, ThatFit(s, <<>>), 1)
  <2> HIDE DEF S
  <2>1. /\ \A v \in S : v \in Nested[1] /\ _encode_value[v] \in Nested[1]
        /\ \A v, x \in S : _encode_value[v] = _encode_value[x] => v = x
    BY <1>0, <1>1, LeafRight
  <2>2. Nested[1] \subseteq Values
    BY <1>0, AtomsIn, Zenon
  <2> QED BY <1>1, <2>1, <2>2, Zenon DEF Right, ThatFit
<1>2. CASE s.type \in {"constant", "boolean", "integer", "float", "binary"}
  <2>1. S \subseteq Plain /\ \A v \in S : Fit(_encode_value[v], s, <<>>)
    <3>1. S \subseteq Plain /\ \A v \in S : Fit(v, s, <<>>)
      BY <1>2, NumbersFit
    <3>2. \A v \in S : _encode_value[v] = v
      BY <3>1, EncodedPlain, Zenon
    <3> QED BY <3>1, <3>2, Zenon
  <2> QED BY <1>1, <2>1, Zenon
<1>3. CASE s.type \in {"fraction", "complex", "string", "regex"} \cup Formats
  <2>1. /\ S \subseteq Strings \/ S \subseteq Fractions \/ S \subseteq Complexes
        /\ \A v \in S : Fit(_encode_value[v], s, <<>>)
    BY <1>3, WrittenFit
  <2> QED BY <1>1, <2>1, Zenon
<1>4. CASE s.type = "tuple"
  <2>1. \A k \in 0..Deepest : k + 1 \in 0..Deepest => Right(S, ThatFit(s, <<>>), k + 1)
    BY <1>4, TupleRight
  <2> QED BY <1>0, <2>1
<1>5. CASE s.type = "one_of"
  <2>1. \A k \in 0..Deepest : k + 1 \in 0..Deepest => Right(S, ThatFit(s, <<>>), k + 1)
    BY <1>5, OneOfRight
  <2> QED BY <1>0, <2>1
<1>6. CASE s.type \notin {"constant", "boolean", "integer", "float", "binary", "fraction", "complex", "string", "regex",
                          "tuple", "one_of"} \cup Formats
  <2>1. s.type \notin {"list", "dict"}
    BY DEF Parts
  <2>2. S = {}
    BY <1>6, <2>1 DEF Strategy, Formats
  <2> QED BY <2>2 DEF Right
<1> QED BY <1>2, <1>3, <1>4, <1>5, <1>6

\* One more level.
LEMMA CompoundRight ==
  ASSUME NEW s, NEW drawn, NEW fitting, NEW k \in 0..Deepest, k + 1 \in 0..Deepest, k + 2 \in 0..Deepest,
         WellFormed(s), Parts(s) # {}, \A t \in Parts(s) : Right(drawn[t], fitting[t], k)
  PROVE  Right(Strategy(s, drawn), ThatFit(s, fitting), k + 2)
<1> DEFINE S == Strategy(s, drawn)
           F == ThatFit(s, fitting)
<1>1. s.type \in {"list", "dict", "tuple", "one_of"}
  BY DEF Parts
<1>2. Right(S, F, k + 1) => Right(S, F, k + 2)
  <2>1. k + 2 \in (k + 1)..Deepest
    BY LevelsType
  <2> QED BY <2>1, RightDeeper, Zenon
<1>3. CASE s.type = "list"
  <2>1. s.elements \in Parts(s)
    BY <1>3 DEF Parts
  <2> QED BY <1>2, <1>3, <2>1, ListRight
<1>4. CASE s.type = "dict"
  <2>1. s.keys \in Parts(s) /\ s.values \in Parts(s)
    BY <1>4 DEF Parts
  <2> QED BY <1>4, <2>1, DictRight
<1>5. CASE s.type = "tuple"
  BY <1>2, <1>5, TupleRight
<1>6. CASE s.type = "one_of"
  BY <1>2, <1>6, OneOfRight
<1> QED BY <1>1, <1>3, <1>4, <1>5, <1>6

\* Every level, by there being no least one that is wrong.
LEMMA BelowRight ==
  ASSUME NEW n \in 1..(Len(Levels) + 1)
  PROVE  \A s \in Below(n) : Right(Drawn[s], Fitting[s], 2 * n - 1)
<1> DEFINE A(m) == \A s \in Below(m) : Right(Drawn[s], Fitting[s], 2 * m - 1)
           T == {m \in Nat : m + 1 \in 1..(Len(Levels) + 1) /\ ~A(m + 1)}
<1>0. Len(Levels) \in Nat /\ DOMAIN Levels = 1..Len(Levels)
  BY LevelsType
<1> SUFFICES ASSUME T # {} PROVE FALSE
  <2>1. n - 1 \in Nat /\ (n - 1) + 1 = n
    BY <1>0
  <2> HIDE DEF A
  <2> QED BY <2>1 DEF A
<1>1. PICK m \in T : \A j \in T : m <= j
  BY Least
<1>2. m \in Nat /\ m + 1 \in 1..(Len(Levels) + 1) /\ ~A(m + 1)
  OBVIOUS
<1>3. m # 0
  <2> SUFFICES ASSUME m = 0 PROVE FALSE
    OBVIOUS
  <2>1. m + 1 = 1
    OBVIOUS
  <2>2. A(m + 1)
    BY <2>1, LevelsType
  <2> QED BY <1>2, <2>2
<1>4. m \in DOMAIN Levels /\ m - 1 \in Nat /\ (m - 1) + 1 = m /\ m \in 1..(Len(Levels) + 1) /\ ~(m <= m - 1)
  BY <1>0, <1>2, <1>3
<1>5. A(m)
  <2>1. m - 1 \notin T
    BY <1>1, <1>4, Zenon
  <2> HIDE DEF A
  <2> QED BY <1>4, <2>1
<1>6. /\ 2 * m - 1 \in 0..Deepest /\ (2 * m - 1) + 1 \in 0..Deepest /\ (2 * m - 1) + 2 \in 0..Deepest
      /\ (2 * m - 1) + 2 = 2 * (m + 1) - 1 /\ 1 \in 0..Deepest /\ 2 * m - 1 \in 1..Deepest
  <2>1. m \in Int /\ 1 <= m /\ m <= Len(Levels) /\ Len(Levels) \in Int
    BY <1>0, <1>4
  <2>2. \A a, b \in Int : 1 <= a /\ a <= b =>
          /\ 2 * a - 1 \in 0..(2 * b + 1) /\ (2 * a - 1) + 1 \in 0..(2 * b + 1) /\ (2 * a - 1) + 2 \in 0..(2 * b + 1)
          /\ (2 * a - 1) + 2 = 2 * (a + 1) - 1 /\ 1 \in 0..(2 * b + 1) /\ 2 * a - 1 \in 1..(2 * b + 1)
    OBVIOUS
  <2>3. Deepest = 2 * Len(Levels) + 1
    BY LevelsType, Zenon
  <2> HIDE DEF A
  <2> QED BY <2>1, <2>2, <2>3
<1>7. ASSUME NEW s \in Below(m + 1)
      PROVE  Right(Drawn[s], Fitting[s], 2 * (m + 1) - 1)
  <2> DEFINE drawn == [t \in Parts(s) |-> IF Parts(t) = {} THEN Strategy(t, <<>>) ELSE Drawn[t]]
             fitting == [t \in Parts(s) |-> IF Parts(t) = {} THEN ThatFit(t, <<>>) ELSE Fitting[t]]
  <2>1. /\ WellFormed(s) /\ s \in Compounds /\ Parts(s) # {}
        /\ \A t \in Parts(s) : WellFormed(t) /\ (Parts(t) # {} => t \in Below(m))
    BY <1>4, PartsBelow
  <2>3. Drawn[s] = Strategy(s, drawn) /\ Fitting[s] = ThatFit(s, fitting)
    BY <2>1, DrawnDef, FittingDef, Zenon
  <2>4. \A t \in Parts(s) : Right(drawn[t], fitting[t], 2 * m - 1)
    <3> SUFFICES ASSUME NEW t \in Parts(s) PROVE Right(drawn[t], fitting[t], 2 * m - 1)
      BY Zenon
    <3>1. CASE Parts(t) = {}
      <4>1. drawn[t] = Strategy(t, <<>>) /\ fitting[t] = ThatFit(t, <<>>)
        BY <3>1, Zenon
      <4>2. Right(drawn[t], fitting[t], 1)
        BY <2>1, <3>1, <4>1, PlainRight, Zenon
      <4> HIDE DEF drawn, fitting
      <4> QED BY <1>6, <4>2, RightDeeper, Zenon
    <3>2. CASE Parts(t) # {}
      <4>1. drawn[t] = Drawn[t] /\ fitting[t] = Fitting[t]
        BY <3>2, Zenon
      <4> QED BY <1>5, <2>1, <3>2, <4>1, Zenon
    <3> QED BY <3>1, <3>2, Zenon
  <2> HIDE DEF drawn, fitting
  <2>5. Right(Strategy(s, drawn), ThatFit(s, fitting), (2 * m - 1) + 2)
    <3> HIDE DEF A, T
    <3> QED BY <1>6, <2>1, <2>4, CompoundRight
  <2> QED BY <1>6, <2>3, <2>5, Zenon
<1> QED BY <1>2, <1>7, Zenon

\* What is drawn for a schema, written down, fits it, and no two values are
\* written alike.
THEOREM SchemaRight ==
  ASSUME NEW s, Known(s, Compounds)
  PROVE  /\ \A v \in _from_schema(s) : v \in Values /\ _encode_value[v] \in Values /\ Fits(_encode_value[v], s)
         /\ \A v, x \in _from_schema(s) : _encode_value[v] = _encode_value[x] => v = x
<1>0. 1 \in 0..Deepest /\ Deepest \in 0..Deepest /\ 2 * (Len(Levels) + 1) - 1 = Deepest
  BY LevelsType
<1>1. CASE Parts(s) = {}
  <2>1. Right(_from_schema(s), ThatFit(s, <<>>), 1)
    BY <1>1, PlainRight, Zenon DEF Known, _from_schema
  <2>2. Nested[1] \subseteq Values
    BY <1>0, AtomsIn, Zenon
  <2> QED BY <1>1, <2>1, <2>2, Zenon DEF Right, Fits
<1>2. CASE Parts(s) # {}
  <2>1. s \in Compounds /\ Compounds = Below(Len(Levels) + 1) /\ Len(Levels) + 1 \in 1..(Len(Levels) + 1)
    BY <1>2, LevelsType DEF Known
  <2>2. Right(Drawn[s], Fitting[s], Deepest)
    BY <1>0, <2>1, BelowRight
  <2> QED BY <1>2, <2>2, Zenon DEF Right, Fits, _from_schema, Values
<1> QED BY <1>1, <1>2
=============================================================================
