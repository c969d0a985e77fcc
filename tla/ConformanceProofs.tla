--------------------------- MODULE ConformanceProofs ---------------------------
(***************************************************************************)
(* Proofs about Conformance, for any bounds and any categories of           *)
(* characters: a client is sent what its schema promises (AnswersFit); a    *)
(* right library passes (NoFalseAlarm); and one that passes wrote nothing   *)
(* wrong that a validator looks at (NoFlawPasses).                         *)
(*                                                                         *)
(* The invariant says what the two metrics files hold, line by line.  The   *)
(* rest is one test at a time: what the binary writes for the parameters    *)
(* (...Metrics), that the validator lets all of it pass (...Right), and     *)
(* that what it lets pass of a library that drops a parameter is the same   *)
(* (...Legal); MetricsRight and MetricsLegal put the tests together.        *)
(***************************************************************************)
EXTENDS Conformance, SchemaProofs, TLAPS

-----------------------------------------------------------------------------
(* The inductive invariant: what the two metrics files hold.               *)

\* A test as run_conformance_tests draws it.
Typed(t) ==
  /\ t.kind \in Kinds /\ t.mode \in modes(t.kind) /\ t.params \in params_strategy(t.kind)
  /\ t.skip \in BOOLEAN /\ (t.kind = "origin" => ~t.skip)

\* Of a test case with a line of each, the binary wrote what it could draw, or
\* nothing if it was discarded; one that leaves the line out falls behind.
Aligned ==
  \A i \in DOMAIN lines : IF served[i].status \in Discarded THEN lines[i] = None ELSE lines[i] \in Written
Behind ==
  /\ \A i \in DOMAIN lines : lines[i] \in Written
  /\ \/ Len(lines) < Len(served)
     \/ Len(lines) = Len(served) /\ \A i \in DOMAIN served : served[i].status \notin Discarded

Lines == Written \cup {None}
ServerLines == [calls : Calls, status : {"VALID"} \cup Discarded]
Filed ==
  /\ lines \in Seq(Lines) /\ served \in Seq(ServerLines)
  /\ test.kind = "error" => lines = <<>>
  /\ ~Metered => served = <<>> /\ \A i \in DOMAIN lines : lines[i] \in Written
  /\ Metered => IF flaw = "unlined" THEN Behind ELSE Len(lines) = Len(served) /\ Aligned

\* The exit codes Judge chooses from.
Codes == IF flaw = "exit" \/ Written = {} THEN {1} ELSE IF Foreign THEN {0, 1} ELSE {0}
Judged ==
  /\ Written # {} /\ test.kind # "error" => lines # <<>> \/ served # <<>>
  /\ \E code \in Codes : verdict = Verdict(code)

ConformanceInv ==
  /\ phase \in {"start", "answered", "running", "judged"}
  /\ phase = "start" => lines = <<>> /\ served = <<>>
  /\ phase = "answered" => question \in Asked /\ answer \in Answers(question)
  /\ phase \in {"running", "judged"} => Typed(test) /\ flaw \in Flaws(test) /\ Filed
  /\ phase = "judged" => Judged

LEMMA ConformanceInit == Init => ConformanceInv
BY DEF Init, ConformanceInv

LEMMA GenerateStep == ConformanceInv /\ Generate => ConformanceInv'
BY DEF ConformanceInv, Generate

LEMMA RunTestStep == ConformanceInv /\ RunTest => ConformanceInv'
<1> SUFFICES ASSUME ConformanceInv, RunTest PROVE ConformanceInv'
  OBVIOUS
<1>1. phase' = "running" /\ lines' = <<>> /\ served' = <<>> /\ flaw' \in Flaws(test')
  BY DEF ConformanceInv, RunTest
<1>2. Typed(test')
  BY DEF RunTest, Typed
<1>3. Filed'
  BY <1>1 DEF Filed, Aligned, Behind
<1> QED BY <1>1, <1>2, <1>3 DEF ConformanceInv

LEMMA TestCaseStep ==
  ASSUME NEW status \in {"VALID"} \cup Discarded
  PROVE  ConformanceInv /\ TestCase(status) => ConformanceInv'
<1> SUFFICES ASSUME ConformanceInv, TestCase(status) PROVE ConformanceInv'
  OBVIOUS
<1>1. /\ phase = "running" /\ phase' = "running" /\ test' = test /\ flaw' = flaw /\ test.kind # "error"
      /\ Typed(test) /\ flaw \in Flaws(test) /\ Filed
  BY DEF ConformanceInv, TestCase
<1>2. Written' = Written /\ Metered' = Metered /\ Calls' = Calls
  BY <1>1 DEF Written, Metered, Calls
<1>3. Lines' = Lines /\ ServerLines' = ServerLines
  BY <1>2, Zenon DEF Lines, ServerLines
<1>4. lines \in Seq(Lines) /\ served \in Seq(ServerLines)
  BY <1>1 DEF Filed
<1>5. \/ status \in Discarded /\ Metered /\ flaw = "unlined" /\ lines' = lines
      \/ status \in Discarded /\ Metered /\ flaw # "unlined" /\ lines' = Append(lines, None)
      \/ status \notin Discarded /\ \E m \in Written : lines' = Append(lines, m)
  BY DEF TestCase
<1>6. \/ ~Metered /\ served' = served
      \/ Metered /\ \E n \in Calls : served' = Append(served, [calls |-> n, status |-> status])
  BY DEF TestCase
<1>7. Filed'
  <2> DEFINE line == [calls |-> CHOOSE n \in Calls : served' = Append(served, [calls |-> n, status |-> status]),
                      status |-> status]
  <2>1. Metered => line \in ServerLines /\ line.status = status /\ served' = Append(served, line)
    BY <1>6 DEF ServerLines
  <2> HIDE DEF line
  <2>2. CASE ~Metered
    <3>1. PICK m \in Written : lines' = Append(lines, m)
      BY <1>5, <2>2
    <3>2. m \in Lines
      BY <3>1 DEF Lines
    <3>3. \A i \in DOMAIN lines : lines[i] \in Written
      BY <1>1, <2>2 DEF Filed
    <3>4. lines' \in Seq(Lines) /\ \A i \in DOMAIN lines' : lines'[i] \in Written
      BY <1>4, <3>1, <3>2, <3>3
    <3> QED BY <1>1, <1>2, <1>3, <1>6, <2>2, <3>4 DEF Filed
  <2>3. CASE Metered /\ flaw = "unlined"
    <3>1. Behind
      BY <1>1, <2>3 DEF Filed
    <3>2. CASE status \in Discarded
      <4>1. lines' = lines /\ served' = Append(served, line)
        BY <1>5, <2>1, <2>3, <3>2
      <4>2. Len(served') = Len(served) + 1 /\ served' \in Seq(ServerLines) /\ Len(served) \in Nat /\ Len(lines) \in Nat
        BY <1>4, <2>1, <2>3, <4>1
      <4>3. Behind'
        BY <1>2, <3>1, <4>1, <4>2 DEF Behind
      <4> QED BY <1>1, <1>2, <1>3, <1>4, <2>3, <4>1, <4>2, <4>3 DEF Filed
    <3>3. CASE status \notin Discarded
      <4>1. PICK m \in Written : lines' = Append(lines, m)
        BY <1>5, <3>3
      <4>2. served' = Append(served, line) /\ line \in ServerLines /\ line.status \notin Discarded
        BY <2>1, <2>3, <3>3
      <4>3. m \in Lines
        BY <4>1 DEF Lines
      <4>4. /\ Len(served') = Len(served) + 1 /\ served' \in Seq(ServerLines) /\ Len(served) \in Nat /\ Len(lines) \in Nat
            /\ Len(lines') = Len(lines) + 1 /\ lines' \in Seq(Lines)
        BY <1>4, <4>1, <4>2, <4>3
      <4>5. \A i \in DOMAIN lines' : lines'[i] \in Written
        BY <1>4, <3>1, <4>1 DEF Behind
      <4>6. (\A i \in DOMAIN served : served[i].status \notin Discarded) => \A i \in DOMAIN served' : served'[i].status \notin Discarded
        BY <1>4, <4>2
      <4>7. Behind'
        BY <1>2, <3>1, <4>4, <4>5, <4>6 DEF Behind
      <4> QED BY <1>1, <1>2, <1>3, <2>3, <4>4, <4>7 DEF Filed
    <3> QED BY <3>2, <3>3
  <2>4. CASE Metered /\ flaw # "unlined"
    <3>1. Len(lines) = Len(served) /\ Aligned
      BY <1>1, <2>4 DEF Filed
    <3>2. PICK m : lines' = Append(lines, m) /\ (IF status \in Discarded THEN m = None ELSE m \in Written)
      BY <1>5, <2>4
    <3>3. m \in Lines
      BY <3>2 DEF Lines
    <3>4. served' = Append(served, line) /\ line \in ServerLines /\ line.status = status
      BY <2>1, <2>4
    <3>5. /\ Len(served') = Len(served) + 1 /\ served' \in Seq(ServerLines)
          /\ Len(lines') = Len(lines) + 1 /\ lines' \in Seq(Lines)
      BY <1>4, <3>2, <3>3, <3>4
    <3>6. Aligned'
      <4> SUFFICES ASSUME NEW i \in DOMAIN lines'
                   PROVE  IF served'[i].status \in Discarded THEN lines'[i] = None ELSE lines'[i] \in Written
        BY <1>2 DEF Aligned
      <4>1. CASE i \in DOMAIN lines
        <5>1. lines'[i] = lines[i] /\ served'[i] = served[i]
          BY <1>4, <3>1, <3>2, <3>4, <4>1
        <5> QED BY <3>1, <4>1, <5>1 DEF Aligned
      <4>2. CASE i = Len(lines) + 1
        <5>1. lines'[i] = m /\ served'[i] = line
          BY <1>4, <3>1, <3>2, <3>4, <4>2
        <5> QED BY <3>2, <3>4, <5>1
      <4> QED BY <1>4, <3>2, <4>1, <4>2
    <3> QED BY <1>1, <1>2, <1>3, <2>4, <3>1, <3>5, <3>6 DEF Filed
  <2> QED BY <2>2, <2>3, <2>4
<1>8. Typed(test)' /\ (flaw \in Flaws(test))'
  BY <1>1 DEF Typed, Flaws
<1> QED BY <1>1, <1>7, <1>8 DEF ConformanceInv

LEMMA JudgeStep == ConformanceInv /\ Judge => ConformanceInv'
<1> SUFFICES ASSUME ConformanceInv, Judge PROVE ConformanceInv'
  OBVIOUS
<1>1. /\ phase = "running" /\ phase' = "judged" /\ test' = test /\ flaw' = flaw /\ lines' = lines /\ served' = served
      /\ Typed(test) /\ flaw \in Flaws(test) /\ Filed
  BY DEF ConformanceInv, Judge
<1>2. Written' = Written /\ Metered' = Metered /\ Calls' = Calls
  BY <1>1 DEF Written, Metered, Calls
<1>3. Filed'
  BY <1>1, <1>2 DEF Filed, Lines, ServerLines, Aligned, Behind
<1>4. Codes' = Codes
  BY <1>1, <1>2 DEF Codes, Foreign
<1>5. \A code \in Codes : Verdict(code)' = Verdict(code)
  BY <1>1 DEF Verdict, validate, ValidateOrigin, interesting_test_cases, Origin, Unpaired, Paired, Kept
<1>6. Judged'
  BY <1>1, <1>2, <1>4, <1>5 DEF Judge, Judged, Codes
<1>7. Typed(test)' /\ (flaw \in Flaws(test))'
  BY <1>1 DEF Typed, Flaws
<1> QED BY <1>1, <1>3, <1>6, <1>7 DEF ConformanceInv

LEMMA ConformanceNext == ConformanceInv /\ [Next]_vars => ConformanceInv'
<1> SUFFICES ASSUME ConformanceInv, [Next]_vars PROVE ConformanceInv'
  OBVIOUS
<1>1. CASE Generate \/ RunTest \/ Judge
  BY <1>1, GenerateStep, RunTestStep, JudgeStep
<1>2. ASSUME NEW status \in {"VALID"} \cup Discarded, TestCase(status) PROVE ConformanceInv'
  BY <1>2, TestCaseStep
<1>3. CASE UNCHANGED vars
  <2>1. /\ phase' = phase /\ question' = question /\ answer' = answer /\ test' = test /\ flaw' = flaw
        /\ lines' = lines /\ served' = served /\ verdict' = verdict
    BY <1>3 DEF vars
  <2>2. Written' = Written /\ Metered' = Metered /\ Calls' = Calls
    BY <2>1 DEF Written, Metered, Calls
  <2>3. Filed' = Filed
    BY <2>1, <2>2 DEF Filed, Lines, ServerLines, Aligned, Behind
  <2>4. Codes' = Codes
    BY <2>1, <2>2 DEF Codes, Foreign
  <2>5. \A code \in Codes : Verdict(code)' = Verdict(code)
    BY <2>1 DEF Verdict, validate, ValidateOrigin, interesting_test_cases, Origin, Unpaired, Paired, Kept
  <2>6. Judged' = Judged
    BY <2>1, <2>2, <2>4, <2>5 DEF Judged
  <2>7. Typed(test)' = Typed(test) /\ (flaw \in Flaws(test))' = (flaw \in Flaws(test))
    BY <2>1 DEF Typed, Flaws
  <2>8. (question \in Asked /\ answer \in Answers(question))' = (question \in Asked /\ answer \in Answers(question))
    BY <2>1
  <2> QED BY <2>1, <2>3, <2>6, <2>7, <2>8 DEF ConformanceInv
<1> QED BY <1>1, <1>2, <1>3 DEF Next

\* What a client is sent for a schema it asks for, at any depth, is what the
\* documentation of the schema says (schema.py:29-151).
THEOREM AnswersFit == Spec => []AnswerFits
<1>1. ConformanceInv => AnswerFits
  <2> SUFFICES ASSUME ConformanceInv, phase = "answered" PROVE Fits(answer, question)
    BY DEF AnswerFits
  <2>1. question \in Asked /\ answer \in Answers(question)
    BY DEF ConformanceInv
  <2>2. Known(question, Compounds)
    BY <2>1, SentAssumption
  <2> QED BY <2>1, <2>2, SchemaRight, Zenon DEF Answers
<1> QED BY <1>1, ConformanceInit, ConformanceNext, PTL DEF Spec

-----------------------------------------------------------------------------
(* What each test draws from its parameters, and what the binary writes.   *)

LEMMA NumberDrawn ==
  ASSUME NEW lo \in Bounds, NEW hi \in Bounds
  PROVE  LET s == [type |-> "integer", min_value |-> lo, max_value |-> hi]
         IN  /\ Parts(s) = {} /\ (\A d : Strategy(s, d) = integers(lo, hi)) /\ integers(lo, hi) \subseteq Plain
             /\ _from_schema(s) = integers(lo, hi)
<1> DEFINE s == [type |-> "integer", min_value |-> lo, max_value |-> hi]
<1>1. Parts(s) = {}
  BY DEF Parts
<1>2. \A d : Strategy(s, d) = integers(lo, hi)
  BY DEF Strategy, Get, Formats
<1>3. integers(lo, hi) \subseteq Plain
  BY SpanWithin DEF integers, Plain
<1> QED BY <1>1, <1>2, <1>3 DEF _from_schema

\* Only one mode filters.
LEMMA AllMetrics ==
  ASSUME NEW kind, NEW mode, mode # "filter_even", NEW p
  PROVE  Metrics(kind, mode, p) = {Metric(kind, mode, p, w) : w \in Answers(SchemaOf(kind, p))}
<1> DEFINE M == {Metric(kind, mode, p, w) : w \in Answers(SchemaOf(kind, p))}
<1>1. Metrics(kind, mode, p) = {m \in M : mode = "filter_even" => m % 2 = 0}
  BY DEF Metrics
<1> HIDE DEF M
<1>2. {m \in M : mode = "filter_even" => m % 2 = 0} = M
  OBVIOUS
<1> QED BY <1>1, <1>2 DEF M

\* A plain answer is the metric.
LEMMA PlainMetrics ==
  ASSUME NEW kind, kind \notin {"text", "list", "sampled_from", "one_of", "dict"},
         NEW mode, mode # "filter_even", NEW p, _from_schema(SchemaOf(kind, p)) \subseteq Plain
  PROVE  Metrics(kind, mode, p) = _from_schema(SchemaOf(kind, p))
<1> DEFINE D == _from_schema(SchemaOf(kind, p))
<1>1. \A w : Metric(kind, mode, p, w) = w
  BY DEF Metric
<1>2. Answers(SchemaOf(kind, p)) = D
  <2>1. \A v \in D : _encode_value[v] = v
    BY EncodedPlain, Zenon
  <2>2. Answers(SchemaOf(kind, p)) = {_encode_value[v] : v \in D}
    BY DEF Answers
  <2> HIDE DEF D
  <2> QED BY <2>1, <2>2
<1>3. Metrics(kind, mode, p) = {Metric(kind, mode, p, w) : w \in D}
  BY <1>2, AllMetrics
<1> HIDE DEF D
<1>4. {Metric(kind, mode, p, w) : w \in D} = D
  BY <1>1
<1> QED BY SMTT(30), <1>3, <1>4 DEF D

LEMMA IntegerMetrics ==
  ASSUME NEW mode, mode # "filter_even", NEW p, {"min_value", "max_value"} \subseteq DOMAIN p,
         p.min_value \in Bounds, p.max_value \in Bounds
  PROVE  Metrics("integer", mode, p) = integers(p.min_value, p.max_value)
<1>1. SchemaOf("integer", p) = [type |-> "integer", min_value |-> p.min_value, max_value |-> p.max_value]
  BY DEF SchemaOf, Get
<1> QED BY <1>1, NumberDrawn, PlainMetrics

LEMMA OriginMetrics ==
  ASSUME NEW mode, mode # "filter_even"
  PROVE  Metrics("origin", mode, [none |-> None]) = integers(0, 2)
<1>1. SchemaOf("origin", [none |-> None]) = [type |-> "integer", min_value |-> 0, max_value |-> 2]
  BY DEF SchemaOf, Get
<1>2. 0 \in Bounds /\ 2 \in Bounds
  BY DEF Bounds
<1> QED BY <1>1, <1>2, NumberDrawn, PlainMetrics

LEMMA BooleanMetrics ==
  ASSUME NEW kind \in {"boolean", "error"}, NEW mode, mode # "filter_even", NEW p
  PROVE  Metrics(kind, mode, p) = {<<"bool", b>> : b \in BOOLEAN}
<1> DEFINE s == [type |-> "boolean"]
<1>1. SchemaOf(kind, p) = s
  BY DEF SchemaOf
<1>2. Parts(s) = {} /\ Strategy(s, <<>>) = {<<"bool", b>> : b \in BOOLEAN}
  BY DEF Parts, Strategy, Get, Formats
<1>3. {<<"bool", b>> : b \in BOOLEAN} \subseteq Plain
  BY DEF Plain
<1> QED BY <1>1, <1>2, <1>3, PlainMetrics DEF _from_schema

LEMMA BinaryMetrics ==
  ASSUME NEW mode, mode # "filter_even", NEW p, DOMAIN p = {"min_size", "max_size"},
         p.min_size \in Nat, p.max_size \in Caps
  PROVE  Metrics("binary", mode, p) = binary(p.min_size, p.max_size)
<1> DEFINE s == Joined(p, [type |-> "binary"])
<1>1. SchemaOf("binary", p) = s
  BY DEF SchemaOf
<1>2. /\ DOMAIN s = {"min_size", "max_size", "type"}
      /\ s.type = "binary" /\ s.min_size = p.min_size /\ s.max_size = p.max_size
  BY DEF Joined
<1> HIDE DEF s
<1>3. Parts(s) = {} /\ Strategy(s, <<>>) = binary(p.min_size, p.max_size)
  BY <1>2 DEF Parts, Strategy, Get, Formats
<1>4. binary(p.min_size, p.max_size) \subseteq Plain
  BY SizesWithin DEF binary, Plain
<1> QED BY <1>1, <1>3, <1>4, PlainMetrics DEF _from_schema

LEMMA SampledMetrics ==
  ASSUME NEW mode, mode # "filter_even", NEW p, p.options \in Seq(Int), p.options # <<>>
  PROVE  Metrics("sampled_from", mode, p) = Range(p.options)
<1> DEFINE n == Len(p.options) - 1
<1>1. SchemaOf("sampled_from", p) = [type |-> "integer", min_value |-> 0, max_value |-> n]
  BY DEF SchemaOf
<1>2. 0 \in Bounds /\ n \in Bounds /\ n \in Nat /\ n + 1 = Len(p.options) /\ DOMAIN p.options = 1..(n + 1)
  BY DEF Bounds
<1> HIDE DEF n
<1>3. _from_schema(SchemaOf("sampled_from", p)) = integers(0, n) /\ integers(0, n) \subseteq Plain
  BY <1>1, <1>2, NumberDrawn
<1>4. Answers(SchemaOf("sampled_from", p)) = integers(0, n)
  <2>1. \A v \in integers(0, n) : _encode_value[v] = v
    BY <1>3, EncodedPlain, Zenon
  <2>2. Answers(SchemaOf("sampled_from", p)) = {_encode_value[v] : v \in integers(0, n)}
    BY <1>3 DEF Answers
  <2> QED BY ZenonT(60), <2>1, <2>2
<1>5. integers(0, n) = {<<"int", i>> : i \in 0..n}
  BY <1>2, NoneIs DEF integers, Span
<1>6. \A w : Metric("sampled_from", mode, p, w) = p.options[w[2] + 1]
  BY DEF Metric
<1>7. Metrics("sampled_from", mode, p) = {p.options[w[2] + 1] : w \in integers(0, n)}
  <2>1. Metrics("sampled_from", mode, p) = {Metric("sampled_from", mode, p, w) : w \in integers(0, n)}
    BY <1>4, AllMetrics
  <2> QED BY <1>6, <2>1
<1>8. Metrics("sampled_from", mode, p) = {p.options[i + 1] : i \in 0..n}
  <2>1. \A w \in integers(0, n) : \E i \in 0..n : w[2] + 1 = i + 1
    BY <1>5
  <2>2. \A i \in 0..n : \E w \in integers(0, n) : w[2] + 1 = i + 1
    <3> SUFFICES ASSUME NEW i \in 0..n PROVE \E w \in integers(0, n) : w[2] + 1 = i + 1
      BY Zenon
    <3>1. <<"int", i>> \in integers(0, n)
      BY <1>5
    <3> QED BY <3>1
  <2> QED BY <1>7, <2>1, <2>2
<1>9. \A j : j \in 1..(n + 1) <=> \E i \in 0..n : j = i + 1
  <2>1. \A j \in 1..(n + 1) : j - 1 \in 0..n /\ j = (j - 1) + 1
    BY <1>2
  <2>2. \A i \in 0..n : i + 1 \in 1..(n + 1)
    BY <1>2
  <2> QED BY <2>1, <2>2, Zenon
<1>10. {p.options[i + 1] : i \in 0..n} = {p.options[j] : j \in 1..(n + 1)}
  BY <1>9, Zenon
<1> QED BY <1>2, <1>8, <1>10 DEF Range

LEMMA NumberParams ==
  ASSUME NEW lo \in Int, NEW hi \in Int, NEW p \in _integer_params_strategy(lo, hi)
  PROVE  /\ DOMAIN p = {"min_value", "max_value"}
         /\ p.min_value \in lo..hi /\ p.max_value \in p.min_value..hi
<1>1. lo # None /\ hi # None
  BY NoneIs
<1>2. PICK a \in lo..hi : \E b \in a..hi : p = [min_value |-> a, max_value |-> b]
  BY <1>1 DEF _integer_params_strategy
<1>3. PICK b \in a..hi : p = [min_value |-> a, max_value |-> b]
  BY <1>2
<1> QED BY <1>3

\* Bounds of its language's integers, or none at all.
Ranged(p) ==
  \/ p.min_value \in Int /\ p.max_value \in Int /\ p.min_value <= p.max_value
  \/ p.min_value = None /\ p.max_value = None

LEMMA NativeParams ==
  ASSUME NEW p \in NativeOrNot
  PROVE  DOMAIN p = {"min_value", "max_value"} /\ Ranged(p) /\ p.min_value \in Bounds /\ p.max_value \in Bounds
<1>1. -Native \in Int /\ Native \in Int
  BY ConformanceAssumption, SchemaAssumption
<1>2. CASE p \in _integer_params_strategy(-Native, Native)
  <2>1. DOMAIN p = {"min_value", "max_value"} /\ p.min_value \in -Native..Native /\ p.max_value \in p.min_value..Native
    BY <1>1, <1>2, NumberParams
  <2> QED BY <1>1, <2>1 DEF Ranged, Bounds
<1>3. CASE p \in _integer_params_strategy(None, None)
  <2>1. p = [min_value |-> None, max_value |-> None]
    BY <1>3 DEF _integer_params_strategy
  <2> QED BY <2>1 DEF Ranged, Bounds
<1> QED BY <1>2, <1>3 DEF NativeOrNot

LEMMA SizesDrawn ==
  ASSUME NEW p \in SizeParams
  PROVE  /\ DOMAIN p = {"min_size", "max_size"} /\ p.min_size \in 0..LargestSize
         /\ p.max_size = None \/ p.max_size \in p.min_size..LargestSize
         /\ p.min_size \in Nat /\ p.max_size \in Caps /\ Sizes(p.min_size, p.max_size) # {}
         /\ p.min_size \in Sizes(p.min_size, p.max_size)
<1>0. LargestSize \in Nat /\ Longest \in Nat
  BY ConformanceAssumption, SchemaAssumption
<1>a. PICK a \in 0..LargestSize : \E b \in Maybe(a..LargestSize) : p = [min_size |-> a, max_size |-> b]
  BY DEF SizeParams
<1>1. PICK b \in Maybe(a..LargestSize) : p = [min_size |-> a, max_size |-> b]
  BY <1>a
<1>2. b = None \/ b \in a..LargestSize
  BY DEF Maybe
<1>3. a \in Nat /\ b \in Caps
  BY <1>0, <1>2 DEF Caps
<1>4. a \in Sizes(a, b)
  BY <1>0, <1>2, <1>3 DEF Sizes
<1> QED BY <1>1, <1>2, <1>3, <1>4

\* What a library that drops a parameter sends.
LEMMA IgnoringIs ==
  ASSUME NEW p, NEW f \in DOMAIN p
  PROVE  /\ DOMAIN Ignoring(p, f) = DOMAIN p
         /\ \A k \in DOMAIN p :
              \/ Ignoring(p, f)[k] = p[k]
              \/ k = "min_size" /\ Ignoring(p, f)[k] = 0
              \/ k \in {"unique", "exclude_min", "exclude_max"} /\ Ignoring(p, f)[k] = FALSE
              \/ k \notin {"min_size", "unique", "exclude_min", "exclude_max"} /\ Ignoring(p, f)[k] = None
BY DEF Ignoring

\* Between fewer bounds lie more numbers; bounded again, they are those there were.
LEMMA SpanNarrows ==
  ASSUME NEW lo \in Bounds, NEW hi \in Bounds, NEW a \in {lo, None}, NEW b \in {hi, None},
         NEW i \in Span(a, b), Within(i, lo, hi)
  PROVE  i \in Span(lo, hi)
BY SchemaAssumption, NoneIs DEF Span, Within, Bounds

LEMMA SizesNarrow ==
  ASSUME NEW least \in Nat, NEW most \in Caps, NEW a \in {least, 0}, NEW b \in {most, None},
         NEW n \in Sizes(a, b), Within(n, least, most)
  PROVE  n \in Sizes(least, most)
BY SchemaAssumption, NoneIs DEF Sizes, Within, Caps

LEMMA NumbersThere ==
  ASSUME NEW p, Ranged(p)
  PROVE  Span(p.min_value, p.max_value) # {} /\ integers(p.min_value, p.max_value) # {}
<1> DEFINE lo == p.min_value
           hi == p.max_value
<1>0. (lo \in Int /\ hi \in Int /\ lo <= hi) \/ (lo = None /\ hi = None)
  BY Zenon DEF Ranged
<1> HIDE DEF lo, hi
<1>1. Span(lo, hi) # {}
  <2>1. CASE lo \in Int /\ hi \in Int /\ lo <= hi
    <3>1. lo \in lo..hi
      BY <2>1
    <3> QED BY <2>1, <3>1, NoneIs DEF Span
  <2>2. CASE lo = None /\ hi = None
    <3>1. 0 \in -Reach..Reach
      BY SchemaAssumption
    <3> QED BY <2>2, <3>1 DEF Span
  <2> QED BY <1>0, <2>1, <2>2
<1> QED BY <1>1 DEF integers, lo, hi

LEMMA IntegersAre ==
  ASSUME NEW lo \in Bounds, NEW hi \in Bounds, NEW m \in integers(lo, hi)
  PROVE  m = <<"int", m[2]>> /\ m[1] = "int" /\ m[2] \in Int /\ m[2] \in Span(lo, hi) /\ Within(m[2], lo, hi) /\ m \in Plain
<1>1. PICK i \in Span(lo, hi) : m = <<"int", i>>
  BY DEF integers
<1>2. i \in Int /\ Within(i, lo, hi)
  BY SpanWithin
<1> QED BY <1>1, <1>2 DEF Plain

LEMMA PlainMode == \A kind, mode : mode \in modes(kind) /\ kind # "one_of" => mode # "filter_even"
<1>1. None # "filter_even" /\ \A x \in {"basic", "non_basic", "value_in_error_message", "multiple_call_sites"} : x # "filter_even"
  <2>1. None # "filter_even"
    BY NoneAssumption, Zenon
  <2> QED BY <2>1
<1> QED BY <1>1 DEF modes

-----------------------------------------------------------------------------
(* Test by test: what the server draws passes, and what passes is drawn.   *)

LEMMA IntegerRight ==
  ASSUME NEW p \in NativeOrNot, NEW mode, mode # "filter_even"
  PROVE  /\ Metrics("integer", mode, p) # {} /\ Metrics("integer", mode, p) \subseteq Plain
         /\ \A m \in Metrics("integer", mode, p) : ValidateInteger(m, p)
<1>1. DOMAIN p = {"min_value", "max_value"} /\ Ranged(p) /\ p.min_value \in Bounds /\ p.max_value \in Bounds
  BY NativeParams
<1>2. Metrics("integer", mode, p) = integers(p.min_value, p.max_value)
  BY <1>1, IntegerMetrics
<1>3. integers(p.min_value, p.max_value) # {}
  BY <1>1, NumbersThere
<1>4. \A m \in integers(p.min_value, p.max_value) : m \in Plain /\ Within(m[2], p.min_value, p.max_value)
  BY <1>1, IntegersAre
<1> QED BY <1>2, <1>3, <1>4 DEF ValidateInteger

LEMMA IntegerLegal ==
  ASSUME NEW p \in NativeOrNot, NEW mode, mode # "filter_even", NEW f \in DOMAIN p,
         NEW m \in Metrics("integer", mode, Ignoring(p, f)), ValidateInteger(m, p)
  PROVE  m \in Metrics("integer", mode, p)
<1> DEFINE q == Ignoring(p, f)
<1>1. DOMAIN p = {"min_value", "max_value"} /\ p.min_value \in Bounds /\ p.max_value \in Bounds
  BY NativeParams
<1>2. DOMAIN q = {"min_value", "max_value"} /\ q.min_value \in {p.min_value, None} /\ q.max_value \in {p.max_value, None}
  BY ZenonT(60), <1>1, IgnoringIs
<1> HIDE DEF q
<1>3. q.min_value \in Bounds /\ q.max_value \in Bounds
  BY <1>1, <1>2 DEF Bounds
<1>4. m \in integers(q.min_value, q.max_value)
  BY <1>2, <1>3, IntegerMetrics DEF q
<1>5. m = <<"int", m[2]>> /\ m[2] \in Span(q.min_value, q.max_value)
  BY <1>3, <1>4, IntegersAre
<1>6. m[2] \in Span(p.min_value, p.max_value)
  BY <1>1, <1>2, <1>5, SpanNarrows DEF ValidateInteger
<1>7. m \in integers(p.min_value, p.max_value)
  BY <1>5, <1>6 DEF integers
<1> QED BY <1>1, <1>7, IntegerMetrics

LEMMA BinaryRight ==
  ASSUME NEW p \in SizeParams, NEW mode, mode # "filter_even"
  PROVE  /\ Metrics("binary", mode, p) # {} /\ Metrics("binary", mode, p) \subseteq Plain
         /\ \A m \in Metrics("binary", mode, p) : ValidateBinary(m, p)
<1>1. /\ DOMAIN p = {"min_size", "max_size"} /\ p.min_size \in Nat /\ p.max_size \in Caps
      /\ Sizes(p.min_size, p.max_size) # {}
  BY SizesDrawn
<1>2. Metrics("binary", mode, p) = {<<"bytes", n>> : n \in Sizes(p.min_size, p.max_size)}
  BY <1>1, BinaryMetrics DEF binary
<1>3. \A n \in Sizes(p.min_size, p.max_size) : n \in Int /\ Within(n, p.min_size, p.max_size)
  BY <1>1, SizesWithin
<1>4. \A n \in Int : <<"bytes", n>> \in Plain /\ <<"bytes", n>>[2] = n
  BY DEF Plain
<1>5. \A m \in Metrics("binary", mode, p) : m \in Plain /\ ValidateBinary(m, p)
  <2> SUFFICES ASSUME NEW m \in Metrics("binary", mode, p) PROVE m \in Plain /\ ValidateBinary(m, p)
    BY Zenon
  <2>1. PICK n \in Sizes(p.min_size, p.max_size) : m = <<"bytes", n>>
    BY <1>2, Zenon
  <2> QED BY <1>3, <1>4, <2>1 DEF ValidateBinary
<1> QED BY <1>1, <1>2, <1>5

LEMMA BinaryLegal ==
  ASSUME NEW p \in SizeParams, NEW mode, mode # "filter_even", NEW f \in DOMAIN p,
         NEW m \in Metrics("binary", mode, Ignoring(p, f)), ValidateBinary(m, p)
  PROVE  m \in Metrics("binary", mode, p)
<1> DEFINE q == Ignoring(p, f)
<1>1. DOMAIN p = {"min_size", "max_size"} /\ p.min_size \in Nat /\ p.max_size \in Caps
  BY SizesDrawn
<1>2. DOMAIN q = {"min_size", "max_size"} /\ q.min_size \in {p.min_size, 0} /\ q.max_size \in {p.max_size, None}
  BY <1>1, IgnoringIs
<1> HIDE DEF q
<1>3. q.min_size \in Nat /\ q.max_size \in Caps
  BY <1>1, <1>2 DEF Caps
<1>4. PICK n \in Sizes(q.min_size, q.max_size) : m = <<"bytes", n>>
  BY <1>2, <1>3, BinaryMetrics DEF q, binary
<1>5. n \in Sizes(p.min_size, p.max_size)
  BY <1>1, <1>2, <1>4, SizesNarrow DEF ValidateBinary
<1> QED BY <1>1, <1>4, <1>5, BinaryMetrics DEF binary

LEMMA SampledRight ==
  ASSUME NEW p \in SampledParams, NEW mode, mode # "filter_even"
  PROVE  /\ Metrics("sampled_from", mode, p) # {} /\ Metrics("sampled_from", mode, p) \subseteq Int
         /\ \A m \in Metrics("sampled_from", mode, p) : ValidateSampledFrom(m, p)
<1>0. -Native..Native \subseteq Int /\ LargestSize \in Nat
  BY ConformanceAssumption, SchemaAssumption
<1>1. p.options \in Seq(Int) /\ p.options # <<>>
  <2>1. PICK n \in 0..LargestSize : p.options \in [1..n -> -Native..Native]
    BY DEF SampledParams, SeqOf
  <2>2. p.options # <<>>
    BY DEF SampledParams
  <2> QED BY <1>0, <2>1, <2>2
<1>2. Metrics("sampled_from", mode, p) = Range(p.options)
  BY <1>1, SampledMetrics
<1>3. Range(p.options) # {} /\ Range(p.options) \subseteq Int
  <2>1. 1 \in DOMAIN p.options /\ \A i \in DOMAIN p.options : p.options[i] \in Int
    BY <1>1
  <2> QED BY <2>1, Zenon DEF Range
<1> QED BY <1>2, <1>3 DEF ValidateSampledFrom

FloatKeys == {"min_value", "max_value", "exclude_min", "exclude_max", "allow_nan", "allow_infinity"}
Floats(p) == floats(p.min_value, p.max_value, p.allow_nan, p.allow_infinity, p.exclude_min, p.exclude_max)
\* What is asserted of one float.
FloatValid(m, p) ==
  m[1] = "float" => /\ Within(m[2], p.min_value, p.max_value)
                    /\ p.exclude_min => m[2] # p.min_value
                    /\ p.exclude_max => m[2] # p.max_value

LEMMA FloatForms ==
  ASSUME NEW v, NEW lo, NEW hi, NEW nan, NEW infinity, NEW exMin, NEW exMax,
         FloatIn(v, lo, hi, nan, infinity, exMin, exMax)
  PROVE  /\ v \in Plain
         /\ v[1] = "float" => /\ v[2] \in Int /\ v = <<"float", v[2]>> /\ v[2] \in Span(lo, hi) /\ Within(v[2], lo, hi)
                              /\ (exMin => v[2] # lo) /\ (exMax => v[2] # hi)
         /\ v[1] \in {"float", "nan", "inf"}
<1>1. CASE \E x \in Int : /\ v = <<"float", x>> /\ x \in Span(lo, hi) /\ Within(x, lo, hi)
                           /\ (exMin => x # lo) /\ (exMax => x # hi)
  <2>1. PICK x \in Int : /\ v = <<"float", x>> /\ x \in Span(lo, hi) /\ Within(x, lo, hi)
                         /\ (exMin => x # lo) /\ (exMax => x # hi)
    BY <1>1, Zenon
  <2>2. v \in Plain /\ v[1] = "float" /\ v[2] = x
    BY <2>1 DEF Plain
  <2> QED BY <2>1, <2>2
<1>2. CASE v = <<"nan">>
  BY <1>2 DEF Plain
<1>3. CASE \E side \in {-1, 1} : v = <<"inf", side>>
  BY <1>3 DEF Plain
<1> QED BY <1>1, <1>2, <1>3, Zenon DEF FloatIn

LEMMA FloatMetrics ==
  ASSUME NEW mode, mode # "filter_even", NEW p, DOMAIN p = FloatKeys, p.min_value \in Bounds, p.max_value \in Bounds
  PROVE  Metrics("float", mode, p) = Floats(p) /\ Floats(p) \subseteq Plain
<1> DEFINE s == Joined(p, [type |-> "float"])
<1>1. SchemaOf("float", p) = s
  BY DEF SchemaOf
<1>2. /\ DOMAIN s = FloatKeys \cup {"type"} /\ s.type = "float"
      /\ \A k \in FloatKeys : s[k] = p[k]
  BY DEF Joined, FloatKeys
<1> HIDE DEF s
<1>3. Parts(s) = {} /\ Strategy(s, <<>>) = Floats(p)
  BY <1>2 DEF Parts, Strategy, Get, Formats, Floats, FloatKeys
<1>4. Floats(p) \subseteq Plain
  <2> SUFFICES ASSUME NEW v \in Floats(p) PROVE v \in Plain
    OBVIOUS
  <2>1. FloatIn(v, p.min_value, p.max_value, p.allow_nan, p.allow_infinity, p.exclude_min, p.exclude_max)
    BY FloatsIn DEF Floats
  <2> QED BY <2>1, FloatForms
<1> QED BY <1>1, <1>3, <1>4, PlainMetrics DEF _from_schema

LEMMA FloatDrawn ==
  ASSUME NEW p \in FloatParams
  PROVE  /\ DOMAIN p = FloatKeys /\ p.min_value \in Maybe(Points) /\ p.max_value \in Maybe(Points)
         /\ p.exclude_min \in BOOLEAN /\ p.exclude_max \in BOOLEAN
         /\ p.allow_nan \in {None, FALSE, TRUE} /\ p.allow_infinity \in {None, FALSE, TRUE}
         /\ p.min_value # None /\ p.max_value # None => p.min_value <= p.max_value
         /\ p.exclude_min => p.min_value # None
         /\ p.exclude_max => p.max_value # None
         /\ p.min_value = p.max_value => ~p.exclude_min /\ ~p.exclude_max
         /\ p.min_value # None \/ p.max_value # None => p.allow_nan # TRUE
         /\ p.min_value # None /\ p.max_value # None => p.allow_infinity # TRUE
         /\ p.min_value \in Bounds /\ p.max_value \in Bounds
<1>1. p \in [min_value : Maybe(Points), max_value : Maybe(Points), exclude_min : BOOLEAN,
             exclude_max : BOOLEAN, allow_nan : {None, FALSE, TRUE}, allow_infinity : {None, FALSE, TRUE}]
  BY DEF FloatParams
<1>2. LET bounded == {p.min_value, p.max_value} # {None}
          closed == None \notin {p.min_value, p.max_value}
      IN /\ closed => p.min_value <= p.max_value
         /\ p.exclude_min => p.min_value # None
         /\ p.exclude_max => p.max_value # None
         /\ p.min_value = p.max_value => ~p.exclude_min /\ ~p.exclude_max
         /\ bounded => p.allow_nan # TRUE
         /\ closed => p.allow_infinity # TRUE
  BY DEF FloatParams
<1>3. DOMAIN p = FloatKeys
  BY <1>1 DEF FloatKeys
<1>4. p.min_value \in Bounds /\ p.max_value \in Bounds
  BY <1>1, ConformanceAssumption DEF Maybe, Bounds
<1> QED BY <1>1, <1>2, <1>3, <1>4

LEMMA FloatRight ==
  ASSUME NEW p \in FloatParams, NEW mode, mode # "filter_even"
  PROVE  /\ Metrics("float", mode, p) # {} /\ Metrics("float", mode, p) \subseteq Plain
         /\ \A m \in Metrics("float", mode, p) : FloatValid(m, p)
         /\ (IF p.allow_nan = None THEN p.min_value = None /\ p.max_value = None ELSE p.allow_nan)
              => <<"nan">> \in Metrics("float", mode, p)
         /\ (IF p.allow_infinity = None THEN p.min_value = None \/ p.max_value = None ELSE p.allow_infinity)
              => \E m \in Metrics("float", mode, p) : m[1] = "inf"
<1> DEFINE lo == p.min_value
           hi == p.max_value
           finite == Span(lo, hi) \ ((IF p.exclude_min THEN {lo} ELSE {}) \cup (IF p.exclude_max THEN {hi} ELSE {}))
<1>1. Metrics("float", mode, p) = Floats(p) /\ Floats(p) \subseteq Plain
  BY FloatDrawn, FloatMetrics
<1>2. lo \in Maybe(Points) /\ hi \in Maybe(Points) /\ lo \in Bounds /\ hi \in Bounds
  BY FloatDrawn
<1>3. finite # {}
  <2>0. Reach \in Nat \ {0}
    BY SchemaAssumption
  <2>1. CASE lo = None /\ hi = None
    <3>1. 0 \in Span(lo, hi)
      BY <2>0, <2>1 DEF Span
    <3>2. ~p.exclude_min /\ ~p.exclude_max
      BY <2>1, FloatDrawn
    <3> QED BY <3>1, <3>2
  <2>2. CASE lo # None /\ hi = None
    <3>1. lo \in Int /\ -Reach < lo /\ lo < Reach
      BY <1>2, <2>2, ConformanceAssumption DEF Maybe
    <3>2. lo + 1 \in Span(lo, hi) /\ lo + 1 # lo
      BY <2>0, <2>2, <3>1 DEF Span
    <3>3. ~p.exclude_max
      BY <2>2, FloatDrawn
    <3> QED BY <3>2, <3>3
  <2>3. CASE lo = None /\ hi # None
    <3>1. hi \in Int /\ -Reach < hi /\ hi < Reach
      BY <1>2, <2>3, ConformanceAssumption DEF Maybe
    <3>2. hi - 1 \in Span(lo, hi) /\ hi - 1 # hi
      BY <2>0, <2>3, <3>1 DEF Span
    <3>3. ~p.exclude_min
      BY <2>3, FloatDrawn
    <3> QED BY <3>2, <3>3
  <2>4. CASE lo # None /\ hi # None
    <3>1. lo \in Points /\ hi \in Points /\ lo \in Int /\ hi \in Int /\ lo + 1 \notin Points
      BY <1>2, <2>4, ConformanceAssumption DEF Maybe
    <3>2. lo <= hi
      BY <2>4, FloatDrawn
    <3>3. CASE lo = hi
      <4>1. ~p.exclude_min /\ ~p.exclude_max
        BY <3>3, FloatDrawn
      <4>2. lo \in Span(lo, hi)
        BY <2>4, <3>1, <3>2 DEF Span
      <4> QED BY <4>1, <4>2
    <3>4. CASE lo # hi
      <4>1. lo + 1 # hi
        BY <3>1
      <4>2. lo + 1 \in Span(lo, hi) /\ lo + 1 # lo
        BY <2>4, <3>1, <3>2, <3>4, <4>1 DEF Span
      <4> QED BY <4>1, <4>2
    <3> QED BY <3>3, <3>4
  <2> QED BY <2>1, <2>2, <2>3, <2>4
<1>4. \A v \in Floats(p) : FloatValid(v, p)
  <2> SUFFICES ASSUME NEW v \in Floats(p) PROVE FloatValid(v, p)
    OBVIOUS
  <2>1. FloatIn(v, lo, hi, p.allow_nan, p.allow_infinity, p.exclude_min, p.exclude_max)
    BY <1>2, FloatsIn DEF Floats
  <2> QED BY <2>1, FloatForms DEF FloatValid
<1> DEFINE nans == IF p.allow_nan # FALSE /\ {lo, hi} = {None} THEN {<<"nan">>} ELSE {}
           infinities == IF p.allow_infinity = FALSE THEN {}
                         ELSE {<<"inf", side>> : side \in (IF lo = None THEN {-1} ELSE {})
                                                           \cup (IF hi = None THEN {1} ELSE {})}
<1>5. Floats(p) = {<<"float", x>> : x \in finite} \cup nans \cup infinities
  <2>1. ~ \/ p.exclude_min /\ lo = None
          \/ p.exclude_max /\ hi = None
          \/ p.allow_nan = TRUE /\ {lo, hi} # {None}
          \/ p.allow_infinity = TRUE /\ None \notin {lo, hi}
    BY FloatDrawn
  <2> HIDE DEF lo, hi
  <2>2. floats(lo, hi, p.allow_nan, p.allow_infinity, p.exclude_min, p.exclude_max)
          = {<<"float", x>> : x \in finite} \cup nans \cup infinities
    BY <1>3, <2>1, Zenon DEF floats
  <2> QED BY <2>2 DEF Floats, lo, hi
<1>6. Floats(p) # {}
  <2> HIDE DEF finite
  <2> QED BY <1>3, <1>5
<1>7. (IF p.allow_nan = None THEN lo = None /\ hi = None ELSE p.allow_nan) => <<"nan">> \in Floats(p)
  <2> SUFFICES ASSUME IF p.allow_nan = None THEN lo = None /\ hi = None ELSE p.allow_nan PROVE <<"nan">> \in Floats(p)
    OBVIOUS
  <2>1. p.allow_nan # FALSE /\ lo = None /\ hi = None
    BY FloatDrawn, NoneIs
  <2>2. <<"nan">> \in nans
    BY <2>1
  <2> HIDE DEF nans, finite, infinities
  <2> QED BY <1>5, <2>2
<1>8. (IF p.allow_infinity = None THEN lo = None \/ hi = None ELSE p.allow_infinity) => \E m \in Floats(p) : m[1] = "inf"
  <2> SUFFICES ASSUME IF p.allow_infinity = None THEN lo = None \/ hi = None ELSE p.allow_infinity
               PROVE  \E m \in Floats(p) : m[1] = "inf"
    OBVIOUS
  <2>1. p.allow_infinity # FALSE /\ (lo = None \/ hi = None)
    BY FloatDrawn, NoneIs
  <2>2. <<"inf", -1>> \in infinities \/ <<"inf", 1>> \in infinities
    BY <2>1
  <2> HIDE DEF nans, finite, infinities
  <2>3. <<"inf", -1>> \in Floats(p) \/ <<"inf", 1>> \in Floats(p)
    BY <1>5, <2>2
  <2>4. <<"inf", -1>>[1] = "inf" /\ <<"inf", 1>>[1] = "inf"
    OBVIOUS
  <2> QED BY <2>3, <2>4, Zenon
<1> QED BY <1>1, <1>4, <1>6, <1>7, <1>8

LEMMA FloatLegal ==
  ASSUME NEW p \in FloatParams, NEW mode, mode # "filter_even", NEW f \in DOMAIN p,
         NEW m \in Metrics("float", mode, Ignoring(p, f)), FloatValid(m, p)
  PROVE  m \in Metrics("float", mode, p) \/ m[1] \in {"nan", "inf"}
<1> DEFINE q == Ignoring(p, f)
           lo == p.min_value
           hi == p.max_value
<1>1. DOMAIN p = FloatKeys /\ lo \in Bounds /\ hi \in Bounds
  BY FloatDrawn
<1>2. DOMAIN q = FloatKeys /\ q.min_value \in {lo, None} /\ q.max_value \in {hi, None}
  BY ZenonT(60), <1>1, IgnoringIs DEF FloatKeys
<1> HIDE DEF q
<1>3. q.min_value \in Bounds /\ q.max_value \in Bounds
  BY <1>1, <1>2 DEF Bounds
<1>4. m \in Floats(q)
  BY <1>2, <1>3, FloatMetrics DEF q
<1>5. FloatIn(m, q.min_value, q.max_value, q.allow_nan, q.allow_infinity, q.exclude_min, q.exclude_max)
  BY <1>3, <1>4, FloatsIn DEF Floats
<1>6. CASE m[1] \in {"nan", "inf"}
  BY <1>6
<1>7. CASE m[1] \notin {"nan", "inf"}
  <2>1. PICK x \in Int : m = <<"float", x>> /\ x \in Span(q.min_value, q.max_value)
    BY <1>5, <1>7, FloatForms
  <2>2. x \in Span(q.min_value, q.max_value)
    BY <2>1
  <2>3. /\ Within(x, lo, hi) /\ (p.exclude_min => x # lo) /\ (p.exclude_max => x # hi)
    BY <2>1 DEF FloatValid
  <2>4. x \in Span(lo, hi)
    BY <1>1, <1>2, <2>2, <2>3, SpanNarrows
  <2> DEFINE finite == Span(lo, hi) \ ((IF p.exclude_min THEN {lo} ELSE {}) \cup (IF p.exclude_max THEN {hi} ELSE {}))
  <2>5. x \in finite
    BY <2>3, <2>4
  <2>6. ~ \/ p.exclude_min /\ lo = None
          \/ p.exclude_max /\ hi = None
          \/ p.allow_nan = TRUE /\ {lo, hi} # {None}
          \/ p.allow_infinity = TRUE /\ None \notin {lo, hi}
    BY FloatDrawn
  <2> HIDE DEF lo, hi
  <2>7. {<<"float", y>> : y \in finite} \subseteq floats(lo, hi, p.allow_nan, p.allow_infinity, p.exclude_min, p.exclude_max)
    BY <2>5, <2>6 DEF floats
  <2>8. m \in Floats(p)
    <3> HIDE DEF finite
    <3>1. <<"float", x>> \in {<<"float", y>> : y \in finite}
      BY <2>5
    <3> QED BY <2>1, <2>7, <3>1 DEF Floats, lo, hi
  <2> QED BY <1>1, <2>8, FloatMetrics DEF lo, hi
<1> QED BY <1>6, <1>7

LEMMA CollectionsOut ==
  ASSUME NEW E, NEW least \in Nat, NEW most \in Caps, NEW m \in Collections(E, least, most)
  PROVE  /\ Len(m) \in Sizes(least, most) /\ Len(m) \in Nat /\ DOMAIN m = 1..Len(m) /\ m \in [1..Len(m) -> E]
         /\ m \in Seq(E) /\ Within(Len(m), least, most) /\ (E # {} \/ most = 0)
<1>1. PICK n \in Sizes(least, most) : m \in [1..n -> E]
  BY Zenon DEF Collections
<1>2. n \in Nat /\ Within(n, least, most)
  BY SizesWithin
<1>3. m \in Seq(E) /\ Len(m) = n /\ DOMAIN m = 1..n
  BY <1>1, <1>2
<1>4. E # {} \/ most = 0
  BY Zenon DEF Collections
<1> QED BY <1>1, <1>2, <1>3, <1>4

LEMMA CollectionsMake ==
  ASSUME NEW E, NEW least \in Nat, NEW most \in Caps, E # {} \/ most = 0,
         NEW n \in Sizes(least, most), NEW m \in [1..n -> E]
  PROVE  m \in Collections(E, least, most)
BY Zenon DEF Collections

CharKeys == {"min_codepoint", "max_codepoint", "codec", "categories", "exclude_categories",
             "include_characters", "exclude_characters"}
TextKeys == {"min_size", "max_size"} \cup CharKeys

\* The filters on one character.
Allowed(c, p) ==
  /\ Within(c, p.min_codepoint, p.max_codepoint)
  /\ p.codec # None => c \in Encodable
  /\ p.categories # None => Category[c] \in p.categories
  /\ p.exclude_categories # None => Category[c] \notin p.exclude_categories
Included(p) == IF p.include_characters = None THEN {} ELSE p.include_characters
Excluded(p) == IF p.exclude_characters = None THEN {} ELSE p.exclude_characters

LEMMA CharactersAre ==
  ASSUME NEW p, CharKeys \subseteq DOMAIN p, characters(p) # {}
  PROVE  /\ characters(p) = ({c \in DOMAIN Category : Allowed(c, p)} \cup Included(p)) \ Excluded(p)
         /\ Included(p) \cap Excluded(p) = {}
<1> DEFINE get(k) == Get(p, k, None)
           least == Get(p, "min_codepoint", None)
           most == Get(p, "max_codepoint", None)
           cats == Get(p, "categories", None)
           notCats == Get(p, "exclude_categories", None)
           codec == Get(p, "codec", None)
           given == Get(p, "include_characters", None)
           banned == Get(p, "exclude_characters", None)
           include == IF given = None THEN {} ELSE given
           exclude == IF banned = None THEN {} ELSE banned
           allowed == {c \in DOMAIN Category :
                    /\ Within(c, least, most)
                    /\ codec # None => c \in Encodable
                    /\ cats # None => Category[c] \in cats
                    /\ notCats # None => Category[c] \notin notCats}
<1>1. /\ least = p.min_codepoint /\ most = p.max_codepoint /\ cats = p.categories /\ notCats = p.exclude_categories
      /\ codec = p.codec /\ given = p.include_characters /\ banned = p.exclude_characters
  BY DEF Get, CharKeys
<1>2. characters(p) = (allowed \cup include) \ exclude /\ include \cap exclude = {}
  BY Zenon DEF characters
<1>3. allowed = {c \in DOMAIN Category : Allowed(c, p)} /\ include = Included(p) /\ exclude = Excluded(p)
  BY <1>1, Zenon DEF Allowed, Included, Excluded
<1> HIDE DEF allowed, include, exclude
<1> QED BY <1>2, <1>3, Zenon

LEMMA TextDrawn ==
  ASSUME NEW p \in text_params_strategy
  PROVE  /\ DOMAIN p = TextKeys /\ p.min_size \in Nat /\ p.max_size \in Caps
         /\ p.min_size \in Sizes(p.min_size, p.max_size)
         /\ p.include_characters \in {None} \cup SUBSET DOMAIN Category
         /\ characters(p) # {}
<1>1. PICK s \in SizeParams, c \in UNION {_character_params(b) : b \in BOOLEAN} : p = Joined(s, c)
  BY DEF text_params_strategy
<1>2. PICK b \in BOOLEAN : c \in _character_params(b)
  BY <1>1
<1> DEFINE Q == [min_codepoint : Maybe(Codepoints), max_codepoint : Maybe(Codepoints),
                 codec : Maybe({"codec"}),
                 categories : Maybe(SUBSET Range(Category)), exclude_categories : Maybe(SUBSET Range(Category)),
                 include_characters : Maybe(SUBSET DOMAIN Category),
                 exclude_characters : Maybe(SUBSET DOMAIN Category)]
<1>3. characters(c) # {}
  BY <1>2 DEF _character_params
<1>4. PICK q \in Q : \/ c = q
                     \/ c = [q EXCEPT !.categories = @ \ {"Cs"}]
                     \/ c = [q EXCEPT !.exclude_categories = (IF @ = None THEN {} ELSE @) \cup {"Cs"}]
  BY <1>2, Zenon DEF _character_params
<1>5. DOMAIN q = CharKeys /\ q.include_characters \in Maybe(SUBSET DOMAIN Category)
  BY DEF CharKeys
<1> HIDE DEF Q
<1>6. DOMAIN c = CharKeys /\ c.include_characters \in Maybe(SUBSET DOMAIN Category)
  BY <1>4, <1>5 DEF CharKeys
<1>7. /\ DOMAIN s = {"min_size", "max_size"} /\ s.min_size \in Nat /\ s.max_size \in Caps
      /\ s.min_size \in Sizes(s.min_size, s.max_size)
  BY SizesDrawn
<1>8. /\ DOMAIN p = TextKeys /\ p.min_size = s.min_size /\ p.max_size = s.max_size
      /\ \A k \in CharKeys : p[k] = c[k]
  BY <1>1, <1>6, <1>7 DEF Joined, TextKeys, CharKeys
<1>9. characters(p) = characters(c)
  <2>1. \A k \in CharKeys : Get(p, k, None) = Get(c, k, None)
    BY <1>6, <1>8 DEF Get, TextKeys
  <2>2. /\ Get(p, "min_codepoint", None) = Get(c, "min_codepoint", None)
        /\ Get(p, "max_codepoint", None) = Get(c, "max_codepoint", None)
        /\ Get(p, "codec", None) = Get(c, "codec", None) /\ Get(p, "categories", None) = Get(c, "categories", None)
        /\ Get(p, "exclude_categories", None) = Get(c, "exclude_categories", None)
        /\ Get(p, "include_characters", None) = Get(c, "include_characters", None)
        /\ Get(p, "exclude_characters", None) = Get(c, "exclude_characters", None)
    BY <2>1 DEF CharKeys
  <2> QED BY ZenonT(60), <2>2 DEF characters
<1>10. p.include_characters \in {None} \cup SUBSET DOMAIN Category
  BY <1>6, <1>8 DEF Maybe, CharKeys
<1> QED BY <1>3, <1>7, <1>8, <1>9, <1>10

LEMMA TextMetrics ==
  ASSUME NEW mode, mode # "filter_even", NEW p, DOMAIN p = TextKeys, p.min_size \in Nat, p.max_size \in Caps,
         p.include_characters \in {None} \cup SUBSET DOMAIN Category
  PROVE  Metrics("text", mode, p)
           = IF characters(p) = {} THEN {} ELSE Collections(characters(p), p.min_size, p.max_size)
<1> DEFINE s == Joined(p, [type |-> "string"])
           C == Collections(characters(p), p.min_size, p.max_size)
<1>1. SchemaOf("text", p) = s
  BY DEF SchemaOf
<1>2. DOMAIN s = TextKeys \cup {"type"} /\ s.type = "string" /\ \A k \in TextKeys : s[k] = p[k]
  BY DEF Joined, TextKeys, CharKeys
<1> HIDE DEF s
<1>3. \A k \in TextKeys : Get(s, k, None) = Get(p, k, None)
  BY <1>2 DEF Get
<1>4. characters(s) = characters(p)
  <2>1. /\ Get(s, "min_codepoint", None) = Get(p, "min_codepoint", None)
        /\ Get(s, "max_codepoint", None) = Get(p, "max_codepoint", None)
        /\ Get(s, "codec", None) = Get(p, "codec", None) /\ Get(s, "categories", None) = Get(p, "categories", None)
        /\ Get(s, "exclude_categories", None) = Get(p, "exclude_categories", None)
        /\ Get(s, "include_characters", None) = Get(p, "include_characters", None)
        /\ Get(s, "exclude_characters", None) = Get(p, "exclude_characters", None)
    BY <1>3 DEF TextKeys, CharKeys
  <2> QED BY ZenonT(60), <2>1 DEF characters
<1>5. Parts(s) = {} /\ Strategy(s, <<>>) = text(characters(p), p.min_size, p.max_size)
  <2>1. Get(s, "min_size", 0) = p.min_size /\ Get(s, "max_size", None) = p.max_size
    BY <1>2 DEF Get, TextKeys
  <2>2. Strategy(s, <<>>) = text(characters(s), Get(s, "min_size", 0), Get(s, "max_size", None))
    BY <1>2 DEF Strategy, Formats
  <2>3. Parts(s) = {}
    BY <1>2 DEF Parts
  <2> QED BY <1>4, <2>1, <2>2, <2>3
<1>6. _from_schema(s) = IF characters(p) = {} THEN {} ELSE {<<"str", q>> : q \in C}
  BY <1>5 DEF _from_schema, text
<1>7. \A w : Metric("text", mode, p, w) = w[2]
  BY DEF Metric
<1>8. CASE characters(p) = {}
  <2>1. Answers(SchemaOf("text", p)) = {}
    BY <1>1, <1>6, <1>8 DEF Answers
  <2> QED BY <1>8, <2>1, AllMetrics
<1>9. CASE characters(p) # {}
  <2>0. \A q \in C : q \in Seq(Nat)
    <3>1. characters(p) \subseteq Nat
      <4>1. Get(p, "include_characters", None) \in {None} \cup SUBSET DOMAIN Category
        BY DEF Get
      <4>2. characters(p) \subseteq DOMAIN Category
        BY <4>1, CharactersIn
      <4> QED BY <4>2, SchemaAssumption
    <3>2. \A q \in C : q \in Seq(characters(p))
      BY CollectionsIn
    <3> QED BY <3>1, <3>2, Wider, Zenon
  <2>1. Answers(s) = {_encode_value[v] : v \in {<<"str", q>> : q \in C}}
    BY <1>6, <1>9 DEF Answers
  <2> HIDE DEF C
  <2>2. \A q \in C : _encode_value[<<"str", q>>] = <<"tag91", q>>
    <3>1. \A q \in C : <<"str", q>> \in Strings /\ <<"str", q>>[2] = q
      BY <2>0 DEF Strings
    <3> QED BY <3>1, EncodedString, Zenon
  <2>3. \A w : w \in Answers(s) <=> \E q \in C : w = <<"tag91", q>>
    BY <2>1, <2>2
  <2>4. Metrics("text", mode, p) = {w[2] : w \in Answers(s)}
    BY <1>1, <1>7, AllMetrics
  <2>5. \A q : <<"tag91", q>>[2] = q
    OBVIOUS
  <2>6. \A m : m \in Metrics("text", mode, p) <=> m \in C
    <3>1. ASSUME NEW m \in Metrics("text", mode, p) PROVE m \in C
      <4>1. PICK w \in Answers(s) : m = w[2]
        BY <2>4
      <4>2. PICK q \in C : w = <<"tag91", q>>
        BY <2>3, Zenon
      <4> QED BY <2>5, <4>1, <4>2, Zenon
    <3>2. ASSUME NEW m \in C PROVE m \in Metrics("text", mode, p)
      <4>1. <<"tag91", m>> \in Answers(s)
        BY <2>3, Zenon
      <4> QED BY <2>4, <2>5, <4>1
    <3> QED BY <3>1, <3>2, Zenon
  <2>7. Metrics("text", mode, p) = C
    BY <2>6
  <2> QED BY <1>9, <2>7 DEF C
<1> QED BY <1>8, <1>9

LEMMA TextRight ==
  ASSUME NEW p \in text_params_strategy, NEW mode, mode # "filter_even"
  PROVE  /\ Metrics("text", mode, p) # {} /\ Metrics("text", mode, p) \subseteq Seq(Int)
         /\ \A m \in Metrics("text", mode, p) : ValidateText(m, p)
<1> DEFINE E == characters(p)
           n == p.min_size
<1>1. /\ DOMAIN p = TextKeys /\ n \in Nat /\ p.max_size \in Caps /\ n \in Sizes(n, p.max_size)
      /\ p.include_characters \in {None} \cup SUBSET DOMAIN Category /\ E # {}
  BY TextDrawn
<1>2. Metrics("text", mode, p) = Collections(E, n, p.max_size)
  BY <1>1, TextMetrics
<1>3. E = ({c \in DOMAIN Category : Allowed(c, p)} \cup Included(p)) \ Excluded(p)
  <2>1. CharKeys \subseteq DOMAIN p
    BY <1>1 DEF TextKeys
  <2> QED BY <1>1, <2>1, CharactersAre
<1>4. E \subseteq Int
  <2>1. Included(p) \subseteq DOMAIN Category
    BY <1>1 DEF Included
  <2> QED BY <1>3, <2>1, SchemaAssumption
<1> HIDE DEF E, n
<1>5. Collections(E, n, p.max_size) # {}
  <2> PICK c \in E : TRUE
    BY <1>1
  <2>1. [i \in 1..n |-> c] \in Collections(E, n, p.max_size)
    BY <1>1, CollectionsMake
  <2> QED BY <2>1
<1>6. ASSUME NEW m \in Collections(E, n, p.max_size)
      PROVE  m \in Seq(Int) /\ ValidateText(m, p)
  <2>1. m \in Seq(E) /\ Within(Len(m), n, p.max_size)
    BY <1>1, CollectionsOut
  <2>2. m \in Seq(Int)
    BY <1>4, <2>1, Wider, Zenon
  <2>3. \A c \in Range(m) : c \in E
    BY <2>1 DEF Range
  <2>4. \A c \in Range(m) \ Included(p) : Allowed(c, p) /\ c \notin Excluded(p)
    BY <1>3, <2>3, Zenon
  <2> QED BY <2>1, <2>2, <2>4, Zenon DEF ValidateText, Allowed, Included, Excluded, n
<1> QED BY <1>2, <1>5, <1>6, Zenon

LEMMA TextLegal ==
  ASSUME NEW p \in text_params_strategy, NEW mode, mode # "filter_even", NEW f \in DOMAIN p,
         NEW m \in Metrics("text", mode, Ignoring(p, f)), ValidateText(m, p), p.categories # {}
  PROVE  m \in Metrics("text", mode, p)
<1> DEFINE q == Ignoring(p, f)
           E == characters(p)
<1>1. /\ DOMAIN p = TextKeys /\ p.min_size \in Nat /\ p.max_size \in Caps
      /\ p.include_characters \in {None} \cup SUBSET DOMAIN Category /\ E # {}
  BY TextDrawn
<1>2. /\ DOMAIN q = TextKeys /\ q.min_size \in {p.min_size, 0} /\ q.max_size \in {p.max_size, None}
      /\ q.include_characters \in {p.include_characters, None}
  BY ZenonT(60), <1>1, IgnoringIs DEF TextKeys, CharKeys
<1> HIDE DEF q
<1>3. q.min_size \in Nat /\ q.max_size \in Caps /\ q.include_characters \in {None} \cup SUBSET DOMAIN Category
  BY <1>1, <1>2 DEF Caps
<1>4. m \in Collections(characters(q), q.min_size, q.max_size)
  <2>1. Metrics("text", mode, q)
           = IF characters(q) = {} THEN {} ELSE Collections(characters(q), q.min_size, q.max_size)
    BY <1>2, <1>3, TextMetrics
  <2> QED BY <2>1 DEF q
<1>5. /\ Len(m) \in Sizes(q.min_size, q.max_size) /\ DOMAIN m = 1..Len(m) /\ m \in [1..Len(m) -> characters(q)]
  BY <1>3, <1>4, CollectionsOut
<1>6. characters(q) \subseteq DOMAIN Category
  <2>1. Get(q, "include_characters", None) \in {None} \cup SUBSET DOMAIN Category
    BY <1>3 DEF Get
  <2> QED BY <2>1, CharactersIn
<1>7. /\ E = ({c \in DOMAIN Category : Allowed(c, p)} \cup Included(p)) \ Excluded(p)
      /\ Included(p) \cap Excluded(p) = {}
  <2>1. CharKeys \subseteq DOMAIN p
    BY <1>1 DEF TextKeys
  <2> QED BY <1>1, <2>1, CharactersAre
<1> HIDE DEF E
<1>8. \A c \in Range(m) : c \in E
  <2> SUFFICES ASSUME NEW c \in Range(m) PROVE c \in E
    OBVIOUS
  <2>1. c \in DOMAIN Category
    BY <1>5, <1>6 DEF Range
  <2>2. CASE c \in Included(p)
    BY <1>7, <2>2, Zenon
  <2>3. CASE c \notin Included(p)
    <3>1. Allowed(c, p) /\ c \notin Excluded(p)
      <4>1. c \in Range(m) \ (IF p.include_characters = None THEN {} ELSE p.include_characters)
        BY <2>3 DEF Included
      <4>2. /\ Within(c, p.min_codepoint, p.max_codepoint)
            /\ p.codec # None => c \in Encodable
            /\ p.categories \notin {None, {}} => Category[c] \in p.categories
            /\ p.exclude_categories # None => Category[c] \notin p.exclude_categories
            /\ p.exclude_characters # None => c \notin p.exclude_characters
        BY <4>1, Zenon DEF ValidateText
      <4>3. p.categories # None => p.categories \notin {None, {}}
        OBVIOUS
      <4> QED BY <4>2, <4>3, Zenon DEF Allowed, Excluded
    <3> QED BY <1>7, <2>1, <3>1, Zenon
  <2> QED BY <2>2, <2>3
<1>9. m \in [1..Len(m) -> E]
  BY <1>5, <1>8, Zenon DEF Range
<1>10. Len(m) \in Sizes(p.min_size, p.max_size)
  BY <1>1, <1>2, <1>5, SizesNarrow DEF ValidateText
<1>11. m \in Collections(E, p.min_size, p.max_size)
  BY <1>1, <1>9, <1>10, CollectionsMake
<1> QED BY <1>1, <1>11, TextMetrics DEF E

-----------------------------------------------------------------------------
(* The tests whose schemas have others inside.                             *)

\* The compound schemas sent are among those of Levels.
LEMMA SentIn ==
  ASSUME NEW kind \in Kinds \cap {"list", "one_of", "dict"}, NEW p \in params_strategy(kind), NEW q,
         q = p \/ \E f \in Droppable \cap DOMAIN p : q = Ignoring(p, f)
  PROVE  SchemaOf(kind, q) \in Compounds
<1>1. q \in {p} \cup {Ignoring(p, f) : f \in Droppable \cap DOMAIN p}
  OBVIOUS
<1> DEFINE of(k, x) == {SchemaOf(k, y) : y \in {x} \cup {Ignoring(x, f) : f \in Droppable \cap DOMAIN x}}
<1>2. SchemaOf(kind, q) \in of(kind, p)
  BY <1>1
<1> DEFINE all(k) == UNION {of(k, x) : x \in params_strategy(k)}
<1>3. Sent = UNION {all(k) : k \in Kinds \cap {"list", "one_of", "dict"}}
  BY DEF Sent
<1> HIDE DEF of
<1>4. SchemaOf(kind, q) \in all(kind)
  BY <1>2
<1> HIDE DEF all
<1>5. SchemaOf(kind, q) \in Sent
  BY <1>3, <1>4
<1> QED BY <1>5, SentAssumption

\* The numbers of a list of them, and a list of numbers.
Numbers(e) == [i \in DOMAIN e |-> e[i][2]]
Tagged(m) == [i \in DOMAIN m |-> <<"int", m[i]>>]

LEMMA NumbersOut ==
  ASSUME NEW lo \in Bounds, NEW hi \in Bounds, NEW least \in Nat, NEW most \in Caps,
         NEW e \in Collections(integers(lo, hi), least, most)
  PROVE  /\ Numbers(e) \in Collections(Span(lo, hi), least, most)
         /\ IsInjective(e) => IsInjective(Numbers(e))
<1> DEFINE E == integers(lo, hi)
           n == Len(e)
<1>1. n \in Sizes(least, most) /\ DOMAIN e = 1..n /\ e \in [1..n -> E] /\ (E # {} \/ most = 0)
  BY CollectionsOut
<1>2. \A i \in 1..n : e[i] = <<"int", e[i][2]>> /\ e[i][2] \in Span(lo, hi)
  BY <1>1, IntegersAre
<1>3. Span(lo, hi) # {} \/ most = 0
  BY <1>1 DEF integers
<1> HIDE DEF E, n
<1>4. Numbers(e) \in [1..n -> Span(lo, hi)]
  BY <1>1, <1>2, Zenon DEF Numbers
<1>5. Numbers(e) \in Collections(Span(lo, hi), least, most)
  BY <1>1, <1>3, <1>4, CollectionsMake
<1>6. IsInjective(e) => IsInjective(Numbers(e))
  <2>1. \A i, j \in 1..n : e[i][2] = e[j][2] => e[i] = e[j]
    BY <1>2, Zenon
  <2>2. DOMAIN Numbers(e) = 1..n /\ \A i \in 1..n : Numbers(e)[i] = e[i][2]
    BY <1>1 DEF Numbers
  <2>3. IsInjective(e) => \A i, j \in 1..n : e[i] = e[j] => i = j
    BY <1>1 DEF IsInjective
  <2>4. IsInjective(Numbers(e)) <=> \A i, j \in 1..n : Numbers(e)[i] = Numbers(e)[j] => i = j
    BY <2>2 DEF IsInjective
  <2> QED BY <2>1, <2>2, <2>3, <2>4
<1> QED BY <1>5, <1>6

LEMMA NumbersIn ==
  ASSUME NEW lo \in Bounds, NEW hi \in Bounds, NEW least \in Nat, NEW most \in Caps,
         NEW m \in Collections(Span(lo, hi), least, most)
  PROVE  /\ Tagged(m) \in Collections(integers(lo, hi), least, most) /\ Numbers(Tagged(m)) = m
         /\ IsInjective(m) => IsInjective(Tagged(m))
<1> DEFINE S == Span(lo, hi)
           n == Len(m)
<1>1. n \in Sizes(least, most) /\ DOMAIN m = 1..n /\ m \in [1..n -> S] /\ (S # {} \/ most = 0)
  BY CollectionsOut
<1>2. \A i \in S : <<"int", i>> \in integers(lo, hi)
  BY DEF integers
<1>3. integers(lo, hi) # {} \/ most = 0
  BY <1>1, <1>2
<1> HIDE DEF S, n
<1>4. Tagged(m) \in [1..n -> integers(lo, hi)]
  BY <1>1, <1>2, Zenon DEF Tagged
<1>5. Tagged(m) \in Collections(integers(lo, hi), least, most)
  BY <1>1, <1>3, <1>4, CollectionsMake
<1>6. DOMAIN Tagged(m) = 1..n /\ \A i \in 1..n : Tagged(m)[i] = <<"int", m[i]>> /\ Tagged(m)[i][2] = m[i]
  BY <1>1 DEF Tagged
<1>7. Numbers(Tagged(m)) = m
  BY <1>1, <1>6 DEF Numbers
<1>8. IsInjective(m) => IsInjective(Tagged(m))
  BY ZenonT(60), <1>1, <1>6 DEF IsInjective
<1> QED BY <1>5, <1>7, <1>8

LEMMA PlainItems ==
  ASSUME NEW e \in Seq(Plain)
  PROVE  _encode_value[<<"list", e>>] = <<"array", e>>
<1>1. 0 \in 0..Deepest /\ 0 + 1 \in 0..Deepest
  BY LevelsType
<1>2. \A v \in Plain : v \in Nested[0]
  <2>1. \A v \in Plain : v \in Atoms
    BY DEF Atoms
  <2> QED BY <1>1, <2>1, AtomsIn, Zenon
<1>3. e \in Seq(Nested[0])
  BY <1>2
<1>4. \A i \in DOMAIN e : _encode_value[e[i]] = e[i] /\ e[i] \in Nested[0]
  <2>1. \A i \in DOMAIN e : e[i] \in Plain
    OBVIOUS
  <2> QED BY <1>2, <2>1, EncodedPlain, Zenon
<1>5. "list" \in {"list", "tuple"}
  OBVIOUS
<1>6. _encode_value[<<"list", e>>] = <<"array", Encodings(e)>>
  <2>1. \A i \in DOMAIN e : _encode_value[e[i]] \in Nested[0]
    BY <1>4, Zenon
  <2> QED BY <1>1, <1>3, <1>5, <2>1, EncodedItems
<1>7. Encodings(e) = e
  <2>1. e = [i \in DOMAIN e |-> e[i]]
    OBVIOUS
  <2> QED BY <1>4, <2>1, Zenon DEF Encodings
<1> QED BY <1>6, <1>7

\* A list's metric is the list.
ListsOf(p) ==
  {m \in Collections(Span(p.min_value, p.max_value), p.min_size, p.max_size) : p.unique => IsInjective(m)}

LEMMA ListMetrics ==
  ASSUME NEW mode, mode # "filter_even", NEW p, p.min_size \in Nat, p.max_size \in Caps,
         p.min_value \in Bounds, p.max_value \in Bounds, SchemaOf("list", p) \in Compounds
  PROVE  Metrics("list", mode, p) = ListsOf(p)
<1> DEFINE lo == p.min_value
           hi == p.max_value
           t == [type |-> "integer", min_value |-> lo, max_value |-> hi]
           s == [type |-> "list", elements |-> t, min_size |-> p.min_size, max_size |-> p.max_size,
                 unique |-> p.unique]
           E == integers(lo, hi)
           L == {e \in Collections(E, p.min_size, p.max_size) : p.unique => IsInjective(e)}
<1>1. SchemaOf("list", p) = s
  BY DEF SchemaOf
<1>2. Parts(t) = {} /\ Strategy(t, <<>>) = E /\ E \subseteq Plain
  BY NumberDrawn
<1>3. Parts(s) = {t} /\ s.type = "list" /\ s.elements = t
  BY DEF Parts
<1>4. /\ Get(s, "min_size", 0) = p.min_size /\ Get(s, "max_size", None) = p.max_size
      /\ Get(s, "unique", FALSE) = p.unique
  BY DEF Get
<1> HIDE DEF s, t
<1>5. _from_schema(s) = {<<"list", e>> : e \in L}
  <2> DEFINE d == [x \in Parts(s) |-> IF Parts(x) = {} THEN Strategy(x, <<>>) ELSE Drawn[x]]
  <2>1. d[t] = E
    BY <1>2, <1>3
  <2>2. Drawn[s] = Strategy(s, d)
    BY <1>1, DrawnDef, Zenon
  <2> HIDE DEF d
  <2>3. Strategy(s, d) = lists(E, p.min_size, p.max_size, p.unique)
    BY <1>3, <1>4, <2>1 DEF Strategy, Formats
  <2>4. L = {e \in Collections(E, p.min_size, p.max_size) : p.unique => Distinct(e)}
    <3>1. \A x \in E : x \in Atoms \ NaNs
      BY DEF integers, Span, Atoms, Plain, NaNs
    <3>2. ASSUME NEW e \in Collections(E, p.min_size, p.max_size)
          PROVE  Distinct(e) <=> IsInjective(e)
      <4>1. e \in Seq(E)
        BY CollectionsOut
      <4>2. \A i \in DOMAIN e : e[i] \in Atoms \ NaNs
        BY <3>1, <4>1
      <4> QED BY <4>2, DistinctAtoms, Zenon DEF IsInjective
    <3> QED BY <3>2
  <2>5. lists(E, p.min_size, p.max_size, p.unique) = {<<"list", e>> : e \in L}
    BY <2>4, Zenon DEF lists
  <2> QED BY <1>3, <2>2, <2>3, <2>5 DEF _from_schema
<1>6. \A e \in L : e \in Seq(E) /\ e \in Seq(Plain) /\ _encode_value[<<"list", e>>] = <<"array", e>>
  <2> SUFFICES ASSUME NEW e \in L PROVE e \in Seq(E) /\ e \in Seq(Plain) /\ _encode_value[<<"list", e>>] = <<"array", e>>
    OBVIOUS
  <2>1. e \in Seq(E)
    BY CollectionsOut
  <2>2. e \in Seq(Plain)
    BY <1>2, <2>1, Wider, Zenon
  <2> QED BY <2>1, <2>2, PlainItems
<1> HIDE DEF L, E
<1>7. \A w : w \in Answers(s) <=> \E e \in L : w = <<"array", e>>
  <2>1. Answers(s) = {_encode_value[v] : v \in {<<"list", e>> : e \in L}}
    BY <1>5, Zenon DEF Answers
  <2> QED BY <1>6, <2>1
<1>8. \A w : Metric("list", mode, p, w) = Numbers(w[2])
  BY DEF Metric, Numbers
<1>9. \A m : m \in Metrics("list", mode, p) <=> \E e \in L : m = Numbers(e)
  <2>1. Metrics("list", mode, p) = {Numbers(w[2]) : w \in Answers(s)}
    BY <1>1, <1>8, AllMetrics
  <2>2. \A e : <<"array", e>>[2] = e
    OBVIOUS
  <2>3. ASSUME NEW m \in Metrics("list", mode, p) PROVE \E e \in L : m = Numbers(e)
    <3>1. PICK w \in Answers(s) : m = Numbers(w[2])
      BY <2>1
    <3>2. PICK e \in L : w = <<"array", e>>
      BY <1>7, Zenon
    <3> QED BY <2>2, <3>1, <3>2, Zenon
  <2>4. ASSUME NEW e \in L PROVE Numbers(e) \in Metrics("list", mode, p)
    <3>1. <<"array", e>> \in Answers(s)
      BY <1>7, Zenon
    <3>2. Numbers(<<"array", e>>[2]) = Numbers(e)
      BY <2>2, Zenon
    <3> QED BY <2>1, <3>1, <3>2, Zenon
  <2> QED BY <2>3, <2>4, Zenon
<1>10. \A e \in L : Numbers(e) \in ListsOf(p)
  BY NumbersOut DEF L, E, ListsOf
<1>11. \A m \in ListsOf(p) : Tagged(m) \in L /\ Numbers(Tagged(m)) = m
  BY NumbersIn DEF L, E, ListsOf
<1>12. \A m : m \in Metrics("list", mode, p) <=> m \in ListsOf(p)
  BY <1>9, <1>10, <1>11, Zenon
<1> QED BY <1>12

\* The least and the greatest of a set of numbers between two.
LEMMA Ends ==
  ASSUME NEW S, S # {}, S \subseteq Int, NEW a \in Int, NEW b \in Int, \A x \in S : a <= x /\ x <= b
  PROVE  Min(S) \in S /\ Max(S) \in S /\ \A x \in S : Min(S) <= x /\ x <= Max(S)
<1>1. \E m \in S : \A x \in S : m <= x
  <2> DEFINE T == {x - a : x \in S}
  <2>1. T \subseteq Nat /\ T # {}
    <3>1. \A x \in S : x - a \in Nat
      OBVIOUS
    <3> QED BY <3>1
  <2>2. PICK t \in T : \A k \in T : t <= k
    <3> HIDE DEF T
    <3> QED BY <2>1, Least
  <2>3. PICK m \in S : t = m - a
    OBVIOUS
  <2>4. \A x \in S : m - a <= x - a
    BY <2>2, <2>3
  <2>5. \A x \in S : m <= x
    BY <2>4
  <2> QED BY <2>5
<1>2. \E m \in S : \A x \in S : x <= m
  <2> DEFINE T == {b - x : x \in S}
  <2>1. T \subseteq Nat /\ T # {}
    <3>1. \A x \in S : b - x \in Nat
      OBVIOUS
    <3> QED BY <3>1
  <2>2. PICK t \in T : \A k \in T : t <= k
    <3> HIDE DEF T
    <3> QED BY <2>1, Least
  <2>3. PICK m \in S : t = b - m
    OBVIOUS
  <2>4. \A x \in S : b - m <= b - x
    BY <2>2, <2>3
  <2>5. m \in Int /\ \A x \in S : x \in Int
    OBVIOUS
  <2>6. \A x, y \in Int : b - y <= b - x => x <= y
    OBVIOUS
  <2>7. \A x \in S : x <= m
    BY <2>4, <2>5, <2>6, Zenon
  <2> QED BY <2>7
<1>3. Min(S) \in S /\ \A x \in S : Min(S) <= x
  BY <1>1 DEF Min
<1>4. Max(S) \in S /\ \A x \in S : x <= Max(S)
  <2>1. \E m \in S : \A x \in S : m >= x
    BY <1>2
  <2>2. Max(S) \in S /\ \A x \in S : Max(S) >= x
    BY <2>1 DEF Max
  <2> QED BY <2>2
<1> QED BY <1>3, <1>4

LEMMA SpanEnds ==
  ASSUME NEW lo \in Bounds, NEW hi \in Bounds, NEW S, S # {}, S \subseteq Span(lo, hi)
  PROVE  Min(S) \in S /\ Max(S) \in S /\ \A x \in S : Min(S) <= x /\ x <= Max(S) /\ x \in Int
<1> DEFINE a == IF lo = None THEN -Reach ELSE lo
           b == IF hi = None THEN Reach ELSE hi
<1>1. a \in Int /\ b \in Int
  BY SchemaAssumption DEF Bounds
<1>2. Span(lo, hi) = a..b
  BY DEF Span
<1> HIDE DEF a, b
<1>3. S \subseteq Int /\ \A x \in S : a <= x /\ x <= b
  BY <1>1, <1>2
<1> QED BY <1>1, <1>3, Ends

\* A sequence without repetitions has as many different items as items.
LEMMA InjectiveSize ==
  ASSUME NEW S, NEW m \in Seq(S)
  PROVE  IsInjective(m) <=> Cardinality(Range(m)) = Len(m)
<1> DEFINE n == Len(m)
<1>1. n \in Nat /\ DOMAIN m = 1..n /\ m \in [1..n -> S]
  OBVIOUS
<1>2. IsFiniteSet(1..n) /\ Cardinality(1..n) = n
  <2>1. 1 \in Int /\ n \in Int /\ (IF 1 > n THEN 0 ELSE n - 1 + 1) = n
    BY <1>1
  <2> QED BY <2>1, FS_Interval
<1>3. m \in Surjection(1..n, Range(m))
  <2>1. m \in [1..n -> Range(m)]
    BY <1>1 DEF Range
  <2>2. \A t \in Range(m) : \E s \in 1..n : m[s] = t
    BY <1>1 DEF Range
  <2> QED BY <2>1, <2>2 DEF Surjection
<1> HIDE DEF n
<1>4. Cardinality(Range(m)) = Cardinality(1..n) <=> m \in Injection(1..n, Range(m))
  BY <1>2, <1>3, FS_Surjection
<1>5. m \in [1..n -> Range(m)]
  BY <1>3 DEF Surjection
<1>6. m \in Injection(1..n, Range(m)) <=> IsInjective(m)
  BY <1>5 DEF Injection
<1> QED BY <1>2, <1>4, <1>6 DEF n

ListKeys == {"min_size", "max_size", "min_value", "max_value", "unique"}

LEMMA ListDrawn ==
  ASSUME NEW p \in params_strategy("list")
  PROVE  /\ DOMAIN p = ListKeys /\ p.min_size \in 0..LargestSize /\ p.min_size \in Nat /\ p.max_size \in Caps
         /\ p.max_size = None \/ p.max_size \in p.min_size..LargestSize
         /\ p.min_size \in Sizes(p.min_size, p.max_size)
         /\ Ranged(p) /\ p.min_value \in Bounds /\ p.max_value \in Bounds /\ p.unique \in BOOLEAN
         /\ RoomForUnique(p)
<1>1. p \in ListParams /\ RoomForUnique(p)
  BY DEF params_strategy
<1>2. PICK s \in SizeParams, i \in NativeOrNot, u \in BOOLEAN : p = Joined(s, Joined(i, [unique |-> u]))
  BY <1>1 DEF ListParams
<1>3. /\ DOMAIN s = {"min_size", "max_size"} /\ s.min_size \in 0..LargestSize /\ s.min_size \in Nat /\ s.max_size \in Caps
      /\ s.max_size = None \/ s.max_size \in s.min_size..LargestSize
      /\ s.min_size \in Sizes(s.min_size, s.max_size)
  BY SizesDrawn
<1>4. DOMAIN i = {"min_value", "max_value"} /\ Ranged(i) /\ i.min_value \in Bounds /\ i.max_value \in Bounds
  BY NativeParams
<1>5. /\ DOMAIN p = ListKeys /\ p.min_size = s.min_size /\ p.max_size = s.max_size
      /\ p.min_value = i.min_value /\ p.max_value = i.max_value /\ p.unique = u
  BY <1>2, <1>3, <1>4 DEF Joined, ListKeys
<1>6. Ranged(p)
  BY <1>4, <1>5, Zenon DEF Ranged
<1> QED BY <1>1, <1>3, <1>4, <1>5, <1>6

LEMMA ListValid ==
  ASSUME NEW p, NEW mode, "list" \in Kinds, p \in params_strategy("list"), NEW m \in ListsOf(p)
  PROVE  ValidateList(m, p) /\ m \in Seq(Int)
<1> DEFINE lo == p.min_value
           hi == p.max_value
<1>1. p.min_size \in Nat /\ p.max_size \in Caps /\ lo \in Bounds /\ hi \in Bounds
  BY ListDrawn
<1>2. m \in Collections(Span(lo, hi), p.min_size, p.max_size) /\ (p.unique => IsInjective(m))
  BY DEF ListsOf
<1> HIDE DEF lo, hi
<1>3. m \in Seq(Span(lo, hi)) /\ Within(Len(m), p.min_size, p.max_size)
  BY <1>1, <1>2, CollectionsOut
<1>4. \A x \in Span(lo, hi) : x \in Int /\ Within(x, lo, hi)
  BY <1>1, SpanWithin
<1>5. m \in Seq(Int)
  <2>1. Span(lo, hi) \subseteq Int
    BY <1>4
  <2> QED BY <1>3, <2>1, Wider, Zenon
<1>6. m # <<>> => Within(Min(Range(m)), lo, None) /\ Within(Max(Range(m)), None, hi)
  <2> SUFFICES ASSUME m # <<>> PROVE Within(Min(Range(m)), lo, None) /\ Within(Max(Range(m)), None, hi)
    OBVIOUS
  <2>1. Range(m) # {} /\ Range(m) \subseteq Span(lo, hi)
    <3>1. 1 \in DOMAIN m /\ \A i \in DOMAIN m : m[i] \in Span(lo, hi)
      BY <1>3
    <3> QED BY <3>1, Zenon DEF Range
  <2>2. Min(Range(m)) \in Span(lo, hi) /\ Max(Range(m)) \in Span(lo, hi)
    BY <1>1, <2>1, SpanEnds
  <2> QED BY <1>4, <2>2 DEF Within
<1>7. p.unique => Cardinality(Range(m)) = Len(m)
  BY <1>2, <1>5, InjectiveSize
<1> QED BY <1>3, <1>5, <1>6, <1>7 DEF ValidateList, lo, hi

LEMMA ListThere ==
  ASSUME NEW p, p \in params_strategy("list")
  PROVE  ListsOf(p) # {}
<1> DEFINE lo == p.min_value
           hi == p.max_value
           a == IF lo = None THEN -Reach ELSE lo
           b == IF hi = None THEN Reach ELSE hi
           n == p.min_size
<1>1. /\ n \in Nat /\ n \in 0..LargestSize /\ p.max_size \in Caps /\ n \in Sizes(n, p.max_size)
      /\ p.max_size = None \/ p.max_size \in n..LargestSize
      /\ Ranged(p) /\ lo \in Bounds /\ hi \in Bounds /\ p.unique \in BOOLEAN /\ RoomForUnique(p)
  BY ListDrawn
<1>2. Span(lo, hi) # {}
  BY <1>1, NumbersThere
<1>3. Span(lo, hi) = a..b
  BY DEF Span
<1>4. CASE ~p.unique
  <2> PICK x \in Span(lo, hi) : TRUE
    BY <1>2
  <2>1. [i \in 1..n |-> x] \in Collections(Span(lo, hi), n, p.max_size)
    <3> HIDE DEF lo, hi, n
    <3> QED BY <1>1, <1>2, CollectionsMake
  <2> QED BY <1>4, <2>1 DEF ListsOf
<1>5. CASE p.unique
  <2>1. a \in Int /\ b \in Int
    BY <1>1, SchemaAssumption DEF Bounds
  <2>2. n <= b - a + 1
    <3>1. (lo \in Int /\ hi \in Int) \/ (lo = None /\ hi = None)
      BY <1>1, Zenon DEF Ranged
    <3>2. CASE lo = None /\ hi = None
      <4>1. a = -Reach /\ b = Reach
        BY <3>2
      <4>2. LargestSize <= 2 * Reach + 1 /\ LargestSize \in Nat /\ Reach \in Nat
        BY RoomAssumption, ConformanceAssumption, SchemaAssumption
      <4> QED BY <1>1, <4>1, <4>2
    <3>3. CASE lo \in Int /\ hi \in Int
      <4>1. lo # None /\ hi # None /\ a = lo /\ b = hi
        BY <3>3, NoneIs
      <4>2. hi - lo + 1 >= IF p.max_size # None THEN p.max_size ELSE n
        BY <1>1, <1>5, <4>1 DEF RoomForUnique
      <4>3. LargestSize \in Nat
        BY ConformanceAssumption
      <4>4. CASE p.max_size = None
        BY <1>1, <2>1, <4>1, <4>2, <4>4
      <4>5. CASE p.max_size # None
        <5>1. p.max_size \in n..LargestSize /\ hi - lo + 1 >= p.max_size
          BY <1>1, <4>2, <4>5
        <5> HIDE DEF a, b, n, lo, hi
        <5> QED BY <1>1, <2>1, <4>1, <4>3, <5>1
      <4> QED BY <4>4, <4>5
    <3> QED BY <3>1, <3>2, <3>3
  <2> DEFINE m == [i \in 1..n |-> a + i - 1]
  <2> HIDE DEF a, b, n, lo, hi
  <2>3. m \in [1..n -> Span(lo, hi)]
    BY <1>1, <1>3, <2>1, <2>2
  <2>4. m \in Collections(Span(lo, hi), n, p.max_size)
    BY <1>1, <1>2, <2>3, CollectionsMake
  <2>5. IsInjective(m)
    BY <1>1, <2>1 DEF IsInjective
  <2> QED BY <2>4, <2>5 DEF ListsOf, lo, hi, n
<1> QED BY <1>1, <1>4, <1>5

LEMMA ListMetricsRight ==
  ASSUME NEW p, NEW mode, mode # "filter_even", "list" \in Kinds, p \in params_strategy("list")
  PROVE  /\ Metrics("list", mode, p) # {} /\ Metrics("list", mode, p) \subseteq Seq(Int)
         /\ \A m \in Metrics("list", mode, p) : ValidateList(m, p)
<1>1. SchemaOf("list", p) \in Compounds
  BY SentIn
<1>2. p.min_size \in Nat /\ p.max_size \in Caps /\ p.min_value \in Bounds /\ p.max_value \in Bounds
  BY ListDrawn
<1>3. Metrics("list", mode, p) = ListsOf(p)
  BY <1>1, <1>2, ListMetrics
<1>4. ListsOf(p) # {}
  BY ListThere
<1>5. \A m \in ListsOf(p) : ValidateList(m, p) /\ m \in Seq(Int)
  BY ListValid
<1> QED BY <1>3, <1>4, <1>5

LEMMA ListLegal ==
  ASSUME NEW p, NEW mode, mode # "filter_even", "list" \in Kinds, p \in params_strategy("list"),
         NEW f \in Droppable \cap DOMAIN p,
         NEW m \in Metrics("list", mode, Ignoring(p, f)), ValidateList(m, p)
  PROVE  m \in Metrics("list", mode, p)
<1> DEFINE q == Ignoring(p, f)
           lo == p.min_value
           hi == p.max_value
<1>1. SchemaOf("list", p) \in Compounds /\ SchemaOf("list", q) \in Compounds
  BY SentIn
<1>2. /\ DOMAIN p = ListKeys /\ p.min_size \in Nat /\ p.max_size \in Caps /\ lo \in Bounds /\ hi \in Bounds
      /\ p.unique \in BOOLEAN /\ Ranged(p)
  BY ListDrawn
<1>3. /\ q.min_size \in {p.min_size, 0} /\ q.max_size \in {p.max_size, None}
      /\ q.min_value \in {lo, None} /\ q.max_value \in {hi, None}
  BY ZenonT(60), <1>2, IgnoringIs DEF ListKeys
<1> HIDE DEF q
<1>4. q.min_size \in Nat /\ q.max_size \in Caps /\ q.min_value \in Bounds /\ q.max_value \in Bounds
  BY <1>2, <1>3 DEF Bounds, Caps
<1>5. m \in Collections(Span(q.min_value, q.max_value), q.min_size, q.max_size)
  <2>1. m \in ListsOf(q)
    BY <1>1, <1>4, ListMetrics DEF q
  <2> QED BY <2>1 DEF ListsOf
<1>6. /\ Len(m) \in Sizes(q.min_size, q.max_size) /\ Len(m) \in Nat /\ DOMAIN m = 1..Len(m)
      /\ m \in [1..Len(m) -> Span(q.min_value, q.max_value)] /\ m \in Seq(Span(q.min_value, q.max_value))
  BY <1>4, <1>5, CollectionsOut
<1>7. /\ Within(Len(m), p.min_size, p.max_size)
      /\ m # <<>> => Within(Min(Range(m)), lo, None) /\ Within(Max(Range(m)), None, hi)
      /\ p.unique => Cardinality(Range(m)) = Len(m)
  BY DEF ValidateList
<1> HIDE DEF lo, hi
<1>8. \A i \in 1..Len(m) : m[i] \in Span(lo, hi)
  <2> SUFFICES ASSUME NEW i \in 1..Len(m) PROVE m[i] \in Span(lo, hi)
    OBVIOUS
  <2>1. m # <<>> /\ m[i] \in Range(m) /\ Range(m) \subseteq Span(q.min_value, q.max_value)
    BY <1>6 DEF Range
  <2>2. /\ Min(Range(m)) <= m[i] /\ m[i] <= Max(Range(m)) /\ m[i] \in Int
        /\ Min(Range(m)) \in Int /\ Max(Range(m)) \in Int
    <3>1. /\ Min(Range(m)) \in Range(m) /\ Max(Range(m)) \in Range(m)
          /\ \A x \in Range(m) : Min(Range(m)) <= x /\ x <= Max(Range(m)) /\ x \in Int
      BY <1>4, <2>1, SpanEnds
    <3> QED BY <2>1, <3>1, Zenon
  <2>3. Within(m[i], lo, hi)
    BY <1>2, <1>7, <2>1, <2>2, NoneIs DEF Within, Bounds
  <2>4. m[i] \in Span(q.min_value, q.max_value)
    BY <2>1
  <2> QED BY <1>2, <1>3, <2>3, <2>4, SpanNarrows
<1>9. Span(lo, hi) # {}
  BY <1>2, NumbersThere DEF lo, hi
<1>10. Len(m) \in Sizes(p.min_size, p.max_size)
  BY <1>2, <1>3, <1>6, <1>7, SizesNarrow
<1>11. m \in [1..Len(m) -> Span(lo, hi)]
  BY <1>6, <1>8
<1>12. m \in Collections(Span(lo, hi), p.min_size, p.max_size)
  BY <1>2, <1>9, <1>10, <1>11, CollectionsMake
<1>13. p.unique => IsInjective(m)
  BY <1>6, <1>7, InjectiveSize
<1>14. m \in ListsOf(p)
  BY <1>12, <1>13 DEF ListsOf, lo, hi
<1>15. Metrics("list", mode, p) = ListsOf(p)
  BY <1>1, <1>2, ListMetrics DEF lo, hi
<1> QED BY <1>14, <1>15

LEMMA PlainPair ==
  ASSUME NEW x \in Plain, NEW y \in Plain
  PROVE  /\ _encode_value[<<"tuple", <<x, y>>>>] = <<"array", <<x, y>>>>
         /\ <<"tuple", <<x, y>>>> \in Nested[1] /\ <<"array", <<x, y>>>> \in Nested[1]
<1>1. 0 \in 0..Deepest /\ 0 + 1 \in 0..Deepest /\ 0 + 1 = 1
  BY LevelsType
<1>2. x \in Nested[0] /\ y \in Nested[0]
  <2>1. x \in Atoms /\ y \in Atoms
    BY DEF Atoms
  <2> QED BY <1>1, <2>1, AtomsIn, Zenon
<1>3. _encode_value[x] = x /\ _encode_value[y] = y
  BY EncodedPlain, Zenon
<1>4. _encode_value[x] \in Nested[0] /\ _encode_value[y] \in Nested[0]
  BY <1>2, <1>3, Zenon
<1>5. /\ _encode_value[<<"tuple", <<x, y>>>>] = <<"array", <<_encode_value[x], _encode_value[y]>>>>
      /\ <<"tuple", <<x, y>>>> \in Nested[0 + 1] /\ _encode_value[<<"tuple", <<x, y>>>>] \in Nested[0 + 1]
  BY <1>1, <1>2, <1>4, PairRight
<1>6. _encode_value[<<"tuple", <<x, y>>>>] = <<"array", <<x, y>>>>
  BY <1>3, <1>5, Zenon
<1> QED BY <1>1, <1>5, <1>6, Zenon

\* No parameter of a one_of can be dropped, and no range is a single number.
LEMMA OneOfDrawn ==
  ASSUME NEW p \in OneOfParams
  PROVE  /\ DOMAIN p = {"ranges"} /\ Droppable \cap DOMAIN p = {}
         /\ \E n \in 2..3 : DOMAIN p.ranges = 1..n
         /\ \A i \in DOMAIN p.ranges :
              /\ p.ranges[i].min_value \in Int /\ p.ranges[i].max_value \in Int
              /\ p.ranges[i].min_value + 1 <= p.ranges[i].max_value
<1> DEFINE offsets == (0..Spread) \X (1..Width)
           ranges(q) == [i \in DOMAIN q |-> [min_value |-> (i - 1) * Spacing + q[i][1],
                                             max_value |-> (i - 1) * Spacing + q[i][1] + q[i][2]]]
<1>1. PICK q \in UNION {[1..n -> offsets] : n \in 2..3} : p = [ranges |-> ranges(q)]
  BY DEF OneOfParams
<1>2. PICK n \in 2..3 : q \in [1..n -> offsets]
  BY <1>1
<1>3. Spacing \in Nat /\ Spread \in Nat /\ Width \in Nat
  BY ConformanceAssumption
<1>4. DOMAIN p = {"ranges"} /\ p.ranges = ranges(q)
  BY <1>1
<1>5. DOMAIN p.ranges = 1..n
  BY <1>2, <1>4
<1>6. Droppable \cap DOMAIN p = {}
  BY <1>4 DEF Droppable
<1>7. ASSUME NEW i \in 1..n
      PROVE  /\ p.ranges[i].min_value \in Int /\ p.ranges[i].max_value \in Int
             /\ p.ranges[i].min_value + 1 <= p.ranges[i].max_value
  <2> DEFINE base == (i - 1) * Spacing
  <2>1. base \in Int
    BY <1>2, <1>3
  <2>2. q[i][1] \in Int /\ q[i][2] \in Int /\ 1 <= q[i][2]
    BY <1>2, <1>3
  <2>3. p.ranges[i].min_value = base + q[i][1] /\ p.ranges[i].max_value = base + q[i][1] + q[i][2]
    BY <1>2, <1>4
  <2> HIDE DEF base
  <2> QED BY <2>1, <2>2, <2>3
<1> QED BY <1>4, <1>5, <1>6, <1>7

\* The numbers of a branch, and what a mode makes of one.
From(p, i) == p.ranges[i].min_value..p.ranges[i].max_value
Turned(mode, x) == IF mode = "map_negate" THEN -x ELSE x

LEMMA OneOfAnswers ==
  ASSUME NEW p, p \in params_strategy("one_of"), "one_of" \in Kinds
  PROVE  \A w : w \in Answers(SchemaOf("one_of", p)) <=>
                  \E i \in DOMAIN p.ranges : \E x \in From(p, i) : w = <<"array", <<<<"int", i - 1>>, <<"int", x>>>>>>
<1> DEFINE t(i) == [type |-> "integer", min_value |-> p.ranges[i].min_value, max_value |-> p.ranges[i].max_value]
           g == [i \in DOMAIN p.ranges |-> t(i)]
           s == [type |-> "one_of", generators |-> g]
           E(i) == integers(p.ranges[i].min_value, p.ranges[i].max_value)
           V(i) == {<<"tuple", <<<<"int", i - 1>>, v>>>> : v \in E(i)}
<1>0. p \in OneOfParams
  BY DEF params_strategy
<1>1. SchemaOf("one_of", p) = s
  BY DEF SchemaOf
<1>2. s \in Compounds
  BY <1>1, SentIn
<1>3. \A i \in DOMAIN p.ranges : /\ i \in Nat /\ p.ranges[i].min_value \in Int /\ p.ranges[i].max_value \in Int
                                 /\ p.ranges[i].min_value \in Bounds /\ p.ranges[i].max_value \in Bounds
  BY <1>0, OneOfDrawn DEF Bounds
<1>4. \A i \in DOMAIN p.ranges : Parts(t(i)) = {} /\ Strategy(t(i), <<>>) = E(i)
  <2> SUFFICES ASSUME NEW i \in DOMAIN p.ranges PROVE Parts(t(i)) = {} /\ Strategy(t(i), <<>>) = E(i)
    BY Zenon
  <2>1. p.ranges[i].min_value \in Bounds /\ p.ranges[i].max_value \in Bounds
    BY <1>3
  <2> QED BY <2>1, NumberDrawn
<1>5. \A i \in DOMAIN p.ranges : E(i) = {<<"int", x>> : x \in From(p, i)}
  BY <1>3, NoneIs DEF integers, Span, From
<1>6. s.type = "one_of" /\ s.generators = g /\ Parts(s) = {g[i] : i \in DOMAIN p.ranges}
  <2>1. Parts(s) = Range(g)
    BY DEF Parts
  <2>2. DOMAIN g = DOMAIN p.ranges
    OBVIOUS
  <2> QED BY <2>1, <2>2 DEF Range
<1>7. DOMAIN g = DOMAIN p.ranges /\ \A i \in DOMAIN p.ranges : g[i] = t(i) /\ g[i] \in Parts(s)
  BY <1>6
<1> HIDE DEF s, g, t, E
<1>8. _from_schema(s) = UNION {V(i) : i \in DOMAIN p.ranges}
  <2> DEFINE d == [x \in Parts(s) |-> IF Parts(x) = {} THEN Strategy(x, <<>>) ELSE Drawn[x]]
             W(i) == {<<"tuple", <<<<"int", i - 1>>, v>>>> : v \in d[s.generators[i]]}
  <2>1. \A i \in DOMAIN p.ranges : d[g[i]] = E(i)
    BY <1>4, <1>7
  <2>2. Drawn[s] = Strategy(s, d)
    BY <1>2, DrawnDef, Zenon
  <2> HIDE DEF d
  <2>3. Strategy(s, d) = UNION {W(i) : i \in DOMAIN s.generators}
    BY <1>6 DEF Strategy, Formats
  <2>4. \A i \in DOMAIN p.ranges : W(i) = V(i)
    BY <1>6, <2>1, Zenon
  <2>5. (Parts(s) = {}) => UNION {V(i) : i \in DOMAIN p.ranges} = {}
    <3>1. Parts(s) = {} => DOMAIN p.ranges = {}
      BY <1>6
    <3> HIDE DEF V
    <3> QED BY <3>1
  <2>6. DOMAIN s.generators = DOMAIN p.ranges
    BY <1>6, <1>7, Zenon
  <2>7. UNION {W(i) : i \in DOMAIN p.ranges} = UNION {V(i) : i \in DOMAIN p.ranges}
    <3> HIDE DEF V, W
    <3> QED BY <2>4
  <2>8. Parts(s) # {}
    BY <1>0, <1>7, OneOfDrawn
  <2> HIDE DEF V, W
  <2> QED BY <2>2, <2>3, <2>6, <2>7, <2>8 DEF _from_schema
<1>9. \A i \in DOMAIN p.ranges, v \in Plain :
        _encode_value[<<"tuple", <<<<"int", i - 1>>, v>>>>] = <<"array", <<<<"int", i - 1>>, v>>>>
  <2>1. \A i \in DOMAIN p.ranges : <<"int", i - 1>> \in Plain
    BY <1>3 DEF Plain
  <2> QED BY <2>1, PlainPair, Zenon
<1>10. \A i \in DOMAIN p.ranges : \A x \in From(p, i) : <<"int", x>> \in Plain
  BY <1>3 DEF From, Plain
<1>11. \A w : w \in Answers(s) <=> \E v \in _from_schema(s) : w = _encode_value[v]
  BY DEF Answers
<1> DEFINE v(i, x) == <<"tuple", <<<<"int", i - 1>>, <<"int", x>>>>>>
           a(i, x) == <<"array", <<<<"int", i - 1>>, <<"int", x>>>>>>
<1>12. \A i \in DOMAIN p.ranges : \A x \in From(p, i) : _encode_value[v(i, x)] = a(i, x)
  BY <1>9, <1>10, Zenon
<1>13. \A i \in DOMAIN p.ranges : \A y : y \in V(i) <=> \E x \in From(p, i) : y = v(i, x)
  <2> SUFFICES ASSUME NEW i \in DOMAIN p.ranges, NEW y PROVE y \in V(i) <=> \E x \in From(p, i) : y = v(i, x)
    BY Zenon
  <2>1. \A e : e \in E(i) <=> \E x \in From(p, i) : e = <<"int", x>>
    BY <1>5
  <2>2. y \in V(i) <=> \E e \in E(i) : y = <<"tuple", <<<<"int", i - 1>>, e>>>>
    OBVIOUS
  <2> QED BY ZenonT(60), <2>1, <2>2
<1> HIDE DEF V, v, a
<1>14. \A y : y \in _from_schema(s) <=> \E i \in DOMAIN p.ranges : \E x \in From(p, i) : y = v(i, x)
  <2>1. \A y : y \in _from_schema(s) <=> \E i \in DOMAIN p.ranges : y \in V(i)
    BY <1>8
  <2>2. ASSUME NEW y \in _from_schema(s) PROVE \E i \in DOMAIN p.ranges : \E x \in From(p, i) : y = v(i, x)
    <3>1. PICK i \in DOMAIN p.ranges : y \in V(i)
      BY <2>1, Zenon
    <3> QED BY <1>13, <3>1, Zenon
  <2>3. ASSUME NEW i \in DOMAIN p.ranges, NEW x \in From(p, i) PROVE v(i, x) \in _from_schema(s)
    <3>1. v(i, x) \in V(i)
      BY <1>13, Zenon
    <3> QED BY <2>1, <3>1, Zenon
  <2> QED BY <2>2, <2>3, Zenon
<1>15. \A w : w \in Answers(s) <=> \E i \in DOMAIN p.ranges : \E x \in From(p, i) : w = a(i, x)
  <2>1. ASSUME NEW w \in Answers(s) PROVE \E i \in DOMAIN p.ranges : \E x \in From(p, i) : w = a(i, x)
    <3>1. PICK y \in _from_schema(s) : w = _encode_value[y]
      BY <1>11, Zenon
    <3>2. PICK i \in DOMAIN p.ranges : \E x \in From(p, i) : y = v(i, x)
      BY <1>14, Zenon
    <3>3. PICK x \in From(p, i) : y = v(i, x)
      BY <3>2, Zenon
    <3> QED BY <1>12, <3>1, <3>3, Zenon
  <2>2. ASSUME NEW i \in DOMAIN p.ranges, NEW x \in From(p, i) PROVE a(i, x) \in Answers(s)
    <3>1. v(i, x) \in _from_schema(s)
      BY <1>14, Zenon
    <3> QED BY <1>11, <1>12, <3>1, Zenon
  <2> QED BY <2>1, <2>2, Zenon
<1> QED BY <1>1, <1>15 DEF a

LEMMA OneOfMetrics ==
  ASSUME NEW p, p \in params_strategy("one_of"), "one_of" \in Kinds, NEW mode
  PROVE  \A m : m \in Metrics("one_of", mode, p) <=>
                  /\ \E i \in DOMAIN p.ranges : \E x \in From(p, i) : m = Turned(mode, x)
                  /\ mode = "filter_even" => m % 2 = 0
<1> DEFINE A == Answers(SchemaOf("one_of", p))
           w(i, x) == <<"array", <<<<"int", i - 1>>, <<"int", x>>>>>>
           M == {Metric("one_of", mode, p, y) : y \in A}
<1>1. \A y : y \in A <=> \E i \in DOMAIN p.ranges : \E x \in From(p, i) : y = w(i, x)
  BY OneOfAnswers
<1>2. \A i, x : Metric("one_of", mode, p, w(i, x)) = Turned(mode, x)
  BY DEF Metric, Turned
<1>3. \A m : m \in M <=> \E y \in A : m = Metric("one_of", mode, p, y)
  OBVIOUS
<1>4. Metrics("one_of", mode, p) = {m \in M : mode = "filter_even" => m % 2 = 0}
  BY DEF Metrics
<1> HIDE DEF A, w, M
<1>5. \A m \in M : \E i \in DOMAIN p.ranges : \E x \in From(p, i) : m = Turned(mode, x)
  <2> SUFFICES ASSUME NEW m \in M PROVE \E i \in DOMAIN p.ranges : \E x \in From(p, i) : m = Turned(mode, x)
    BY Zenon
  <2>1. PICK y \in A : m = Metric("one_of", mode, p, y)
    BY <1>3, Zenon
  <2>2. PICK i \in DOMAIN p.ranges : \E x \in From(p, i) : y = w(i, x)
    BY <1>1, Zenon
  <2>3. PICK x \in From(p, i) : y = w(i, x)
    BY <2>2, Zenon
  <2> QED BY <1>2, <2>1, <2>3, Zenon
<1>6. \A i \in DOMAIN p.ranges : \A x \in From(p, i) : Turned(mode, x) \in M
  <2> SUFFICES ASSUME NEW i \in DOMAIN p.ranges, NEW x \in From(p, i) PROVE Turned(mode, x) \in M
    BY Zenon
  <2>1. w(i, x) \in A /\ Metric("one_of", mode, p, w(i, x)) = Turned(mode, x)
    BY <1>1, <1>2, Zenon
  <2> QED BY <1>3, <2>1, Zenon
<1> QED BY <1>4, <1>5, <1>6

LEMMA OneOfMetricsRight ==
  ASSUME NEW p, p \in params_strategy("one_of"), "one_of" \in Kinds, NEW mode
  PROVE  /\ Metrics("one_of", mode, p) # {} /\ Metrics("one_of", mode, p) \subseteq Int
         /\ \A m \in Metrics("one_of", mode, p) :
              BranchOf(m, mode, p.ranges) # 0 /\ (mode = "filter_even" => m % 2 = 0)
<1>0. p \in OneOfParams
  BY DEF params_strategy
<1>1. PICK n \in 2..3 : DOMAIN p.ranges = 1..n
  BY <1>0, OneOfDrawn
<1>2. \A i \in 1..n : /\ p.ranges[i].min_value \in Int /\ p.ranges[i].max_value \in Int
                      /\ p.ranges[i].min_value + 1 <= p.ranges[i].max_value
  BY <1>0, <1>1, OneOfDrawn
<1>3. Metrics("one_of", mode, p) # {}
  <2> DEFINE lo == p.ranges[1].min_value
             hi == p.ranges[1].max_value
  <2>1. lo \in Int /\ hi \in Int /\ lo + 1 <= hi /\ 1 \in DOMAIN p.ranges /\ From(p, 1) = lo..hi
    BY <1>1, <1>2 DEF From
  <2> HIDE DEF lo, hi
  <2>2. lo \in From(p, 1) /\ lo + 1 \in From(p, 1)
    BY <2>1
  <2>3. CASE mode # "filter_even"
    <3>1. Turned(mode, lo) \in Metrics("one_of", mode, p)
      BY <2>1, <2>2, <2>3, OneOfMetrics
    <3> QED BY <3>1
  <2>4. CASE mode = "filter_even"
    <3>1. Turned(mode, lo) = lo /\ Turned(mode, lo + 1) = lo + 1
      BY <2>4 DEF Turned
    <3>2. lo % 2 = 0 \/ (lo + 1) % 2 = 0
      BY <2>1
    <3>3. \A m \in From(p, 1) : Turned(mode, m) = m /\ m % 2 = 0 => m \in Metrics("one_of", mode, p)
      BY <2>1, <2>4, OneOfMetrics
    <3> QED BY <2>2, <3>1, <3>2, <3>3
  <2> QED BY <2>3, <2>4
<1>4. ASSUME NEW m \in Metrics("one_of", mode, p)
      PROVE  m \in Int /\ BranchOf(m, mode, p.ranges) # 0 /\ (mode = "filter_even" => m % 2 = 0)
  <2>1. /\ \E i \in DOMAIN p.ranges : \E x \in From(p, i) : m = Turned(mode, x)
        /\ mode = "filter_even" => m % 2 = 0
    BY OneOfMetrics
  <2>2. PICK i \in 1..n : \E x \in From(p, i) : m = Turned(mode, x)
    BY <1>1, <2>1
  <2>3. PICK x \in From(p, i) : m = Turned(mode, x)
    BY <2>2
  <2>4. x \in Int /\ Within(x, p.ranges[i].min_value, p.ranges[i].max_value)
    BY <1>2 DEF From, Within
  <2>5. m \in Int /\ (IF mode = "map_negate" THEN -m ELSE m) = x
    BY <2>3, <2>4 DEF Turned
  <2> DEFINE hit == {j \in DOMAIN p.ranges : LET y == IF mode = "map_negate" THEN -m ELSE m
                                             IN Within(y, p.ranges[j].min_value, p.ranges[j].max_value)}
  <2>6. i \in hit /\ hit \subseteq 1..n
    BY <1>1, <2>4, <2>5
  <2>7. BranchOf(m, mode, p.ranges) = IF hit = {} THEN 0 ELSE Min(hit)
    BY DEF BranchOf
  <2> HIDE DEF hit
  <2>8. Min(hit) \in hit
    <3>1. hit # {} /\ hit \subseteq Int /\ 1 \in Int /\ n \in Int /\ \A j \in hit : 1 <= j /\ j <= n
      BY <2>6
    <3> QED BY <3>1, Ends
  <2> QED BY <2>1, <2>5, <2>6, <2>7, <2>8
<1> QED BY <1>3, <1>4

-----------------------------------------------------------------------------
(* A dict's metric: its size, and the ends of its keys and of its values.  *)

EndsOf(S) == IF S = {} THEN <<None, None>> ELSE <<Min(S), Max(S)>>
Column(n, xs) == {xs[i][2] : i \in 1..n}
\* The metric of n keys and values.
Summary(n, ks, vs, typed) ==
  [size |-> n, values |-> EndsOf(Column(n, vs)),
   keys |-> IF typed THEN EndsOf(Column(n, ks)) ELSE <<None, None>>]

DictKeys == {"min_size", "max_size", "key_type", "min_key", "max_key", "min_value", "max_value"}

\* There is room for max_size keys.
LEMMA KeyBoundsAre ==
  ASSUME NEW n \in Nat, n <= LargestSize, NEW k \in KeyBounds(n)
  PROVE  /\ DOMAIN k = {"min_key", "max_key"} /\ k.min_key \in Nat /\ k.max_key \in Int
         /\ k.min_key + n - 1 <= k.max_key /\ k.max_key <= Native
<1>1. Native \in Int
  BY ConformanceAssumption, SchemaAssumption
<1> DEFINE top == Max({0, Native - n + 1})
<1>2. PICK a \in 0..top : \E b \in (a + n - 1)..Native : k = [min_key |-> a, max_key |-> b]
  BY DEF KeyBounds
<1>3. PICK b \in (a + n - 1)..Native : k = [min_key |-> a, max_key |-> b]
  BY <1>2
<1>4. top \in Int
  <2> DEFINE S == {0, Native - n + 1}
  <2>1. S # {} /\ S \subseteq Int
    BY <1>1
  <2>2. \E lo, hi \in Int : \A x \in S : lo <= x /\ x <= hi
    <3>1. CASE Native - n + 1 <= 0
      <4>1. \A x \in S : Native - n + 1 <= x /\ x <= 0
        BY <1>1, <3>1
      <4> QED BY <1>1, <4>1
    <3>2. CASE 0 <= Native - n + 1
      <4>1. \A x \in S : 0 <= x /\ x <= Native - n + 1
        BY <1>1, <3>2
      <4> QED BY <1>1, <4>1
    <3> QED BY <1>1, <3>1, <3>2
  <2>3. PICK lo, hi \in Int : \A x \in S : lo <= x /\ x <= hi
    BY <2>2
  <2> HIDE DEF S
  <2>4. Max(S) \in S
    BY <2>1, <2>3, Ends
  <2> QED BY <2>1, <2>4 DEF S
<1> HIDE DEF top
<1>5. a \in Nat /\ b \in Int /\ a + n - 1 <= b /\ b <= Native
  BY <1>1, <1>4
<1> QED BY <1>3, <1>5

LEMMA DictDrawn ==
  ASSUME NEW p \in DictParams
  PROVE  /\ DOMAIN p = DictKeys /\ p.key_type \in {"string", "integer"}
         /\ p.min_size \in Nat /\ p.max_size \in Nat /\ p.max_size \in Caps /\ p.min_size <= p.max_size
         /\ p.max_size <= LargestSize
         /\ p.min_key \in Nat /\ p.max_key \in Int /\ p.min_key \in Bounds /\ p.max_key \in Bounds
         /\ p.min_key + p.max_size - 1 <= p.max_key /\ p.max_key <= Native
         /\ p.min_value \in Nat /\ p.max_value \in Int /\ p.min_value <= p.max_value
         /\ p.min_value \in Bounds /\ p.max_value \in Bounds
<1>0. Native \in Int /\ 0 \in Int /\ LargestSize \in Nat
  BY ConformanceAssumption, SchemaAssumption
<1> DEFINE S == {q \in SizeParams : q.max_size # None}
           T == {"string", "integer"}
           V == _integer_params_strategy(0, Native)
           J(s) == {Joined(s, Joined([key_type |-> t], Joined(k, v))) : t \in T, k \in KeyBounds(s.max_size), v \in V}
<1>a. DictParams = UNION {J(s) : s \in S}
  BY DEF DictParams
<1>1. PICK s \in S : p \in J(s)
  <2> HIDE DEF J, S
  <2> QED BY <1>a
<1>2. PICK t \in T, k \in KeyBounds(s.max_size), v \in V : p = Joined(s, Joined([key_type |-> t], Joined(k, v)))
  BY <1>1
<1>3. s \in SizeParams /\ s.max_size # None
  OBVIOUS
<1>4. /\ DOMAIN s = {"min_size", "max_size"} /\ s.min_size \in 0..LargestSize
      /\ s.max_size = None \/ s.max_size \in s.min_size..LargestSize
      /\ s.min_size \in Nat
  BY <1>3, SizesDrawn
<1>5. s.max_size \in Nat /\ s.min_size <= s.max_size /\ s.max_size <= LargestSize
  BY <1>0, <1>3, <1>4
<1>6. /\ DOMAIN k = {"min_key", "max_key"} /\ k.min_key \in Nat /\ k.max_key \in Int
      /\ k.min_key + s.max_size - 1 <= k.max_key /\ k.max_key <= Native
  BY <1>5, KeyBoundsAre
<1>7. DOMAIN v = {"min_value", "max_value"} /\ v.min_value \in 0..Native /\ v.max_value \in v.min_value..Native
  BY <1>0, NumberParams
<1>8. v.min_value \in Nat /\ v.max_value \in Int /\ v.min_value <= v.max_value
  BY <1>0, <1>7
<1>9. /\ DOMAIN p = DictKeys /\ p.key_type = t /\ p.min_size = s.min_size /\ p.max_size = s.max_size
      /\ p.min_key = k.min_key /\ p.max_key = k.max_key /\ p.min_value = v.min_value /\ p.max_value = v.max_value
  <2> HIDE DEF S, T, V
  <2> QED BY <1>2, <1>4, <1>6, <1>7 DEF Joined, DictKeys
<1>10. \A x : (x \in Nat => x \in Bounds /\ x \in Caps) /\ (x \in Int => x \in Bounds)
  BY DEF Bounds, Caps
<1> QED BY <1>4, <1>5, <1>6, <1>8, <1>9, <1>10

KeysOf(q) ==
  IF q.key_type = "integer" THEN integers(q.min_key, q.max_key) ELSE text(DOMAIN Category, 0, 1)
\* The items of the dicts that can be drawn, each key once.
DictRows(q) ==
  {e \in Collections({<<"tuple", kv>> : kv \in KeysOf(q) \X integers(q.min_value, q.max_value)}, q.min_size, q.max_size) :
     \A i, j \in DOMAIN e : e[i][2][1] = e[j][2][1] => i = j}

LEMMA KeysAre ==
  ASSUME NEW q, q.min_key \in Bounds, q.max_key \in Bounds
  PROVE  LET s == IF q.key_type = "integer" THEN [type |-> "integer", min_value |-> q.min_key, max_value |-> q.max_key]
                  ELSE [type |-> "string", max_size |-> 1]
         IN  /\ Parts(s) = {} /\ Strategy(s, <<>>) = KeysOf(q)
             /\ \A k \in KeysOf(q) : k \in Nested[0] /\ _encode_value[k] \in Nested[0]
             /\ q.key_type = "integer" => \A k \in KeysOf(q) : _encode_value[k] = k
<1>0. 0 \in 0..Deepest
  BY LevelsType
<1>1. \A v \in Atoms : v \in Nested[0]
  BY <1>0, AtomsIn, Zenon
<1>2. CASE q.key_type = "integer"
  <2> DEFINE s == [type |-> "integer", min_value |-> q.min_key, max_value |-> q.max_key]
             K == integers(q.min_key, q.max_key)
  <2>1. Parts(s) = {} /\ Strategy(s, <<>>) = K /\ K \subseteq Plain
    BY NumberDrawn
  <2>2. KeysOf(q) = K
    BY <1>2 DEF KeysOf
  <2>3. \A v \in Plain : v \in Atoms
    BY DEF Atoms
  <2> HIDE DEF K
  <2>4. \A k \in K : k \in Nested[0] /\ _encode_value[k] = k
    BY <1>1, <2>1, <2>3, EncodedPlain, Zenon
  <2> HIDE DEF s
  <2>5. \A k \in KeysOf(q) : k \in Nested[0] /\ _encode_value[k] \in Nested[0] /\ _encode_value[k] = k
    BY <2>2, <2>4, Zenon
  <2> QED BY <1>2, <2>1, <2>2, <2>5 DEF s
<1>3. CASE q.key_type # "integer"
  <2> DEFINE s == [type |-> "string", max_size |-> 1]
             K == text(DOMAIN Category, 0, 1)
  <2>1. Parts(s) = {}
    BY DEF Parts
  <2>2. characters(s) = DOMAIN Category
    BY DEF characters, Get, Within
  <2>3. Strategy(s, <<>>) = K
    BY <2>2 DEF Strategy, Get, Formats
  <2>4. KeysOf(q) = K
    BY <1>3 DEF KeysOf
  <2>5. \A k \in K : k \in Strings
    <3> SUFFICES ASSUME NEW k \in K PROVE k \in Strings
      OBVIOUS
    <3>1. PICK r \in Collections(DOMAIN Category, 0, 1) : k = <<"str", r>>
      BY DEF text
    <3>2. 0 \in Nat /\ 1 \in Caps
      BY DEF Caps
    <3>3. r \in Seq(DOMAIN Category)
      BY <3>2, CollectionsOut
    <3>4. r \in Seq(Nat)
      BY <3>3, SchemaAssumption, Wider, Zenon
    <3> QED BY <3>1, <3>4 DEF Strings
  <2>6. \A v \in Strings : v \in Atoms
    BY DEF Strings, Atoms
  <2>7. \A v \in Strings : _encode_value[v] \in Atoms
    <3> SUFFICES ASSUME NEW v \in Strings PROVE _encode_value[v] \in Atoms
      OBVIOUS
    <3>1. _encode_value[v] = <<"tag91", v[2]>> /\ v[2] \in Seq(Nat)
      BY EncodedString, Zenon
    <3>2. \A r \in Seq(Nat) : <<"tag91", r>> \in Atoms
      BY DEF Atoms
    <3> QED BY <3>1, <3>2, Zenon
  <2> HIDE DEF K, s
  <2>8. \A k \in KeysOf(q) : k \in Nested[0] /\ _encode_value[k] \in Nested[0]
    BY <1>1, <2>4, <2>5, <2>6, <2>7, Zenon
  <2> QED BY <1>3, <2>1, <2>3, <2>4, <2>8 DEF s
<1> QED BY <1>2, <1>3, Zenon

LEMMA DictFrom ==
  ASSUME NEW q, q.min_key \in Bounds, q.max_key \in Bounds, q.min_value \in Bounds, q.max_value \in Bounds,
         SchemaOf("dict", q) \in Compounds
  PROVE  _from_schema(SchemaOf("dict", q)) = {<<"list", e>> : e \in DictRows(q)}
<1> DEFINE a == IF q.key_type = "integer" THEN [type |-> "integer", min_value |-> q.min_key, max_value |-> q.max_key]
                ELSE [type |-> "string", max_size |-> 1]
           b == [type |-> "integer", min_value |-> q.min_value, max_value |-> q.max_value]
           s == [type |-> "dict", values |-> b, keys |-> a, min_size |-> q.min_size, max_size |-> q.max_size]
           K == KeysOf(q)
           V == integers(q.min_value, q.max_value)
<1>1. SchemaOf("dict", q) = s
  BY DEF SchemaOf
<1>2. Parts(a) = {} /\ Strategy(a, <<>>) = K
  BY KeysAre
<1>3. Parts(b) = {} /\ Strategy(b, <<>>) = V
  BY NumberDrawn
<1>4. s.type = "dict" /\ s.keys = a /\ s.values = b /\ Parts(s) = {a, b}
  BY DEF Parts
<1>5. Get(s, "min_size", 0) = q.min_size /\ Get(s, "max_size", None) = q.max_size
  BY DEF Get
<1> HIDE DEF s, a, b, K, V
<1> DEFINE d == [x \in Parts(s) |-> IF Parts(x) = {} THEN Strategy(x, <<>>) ELSE Drawn[x]]
<1>6. d[a] = K /\ d[b] = V
  BY <1>2, <1>3, <1>4
<1>7. Drawn[s] = Strategy(s, d)
  BY <1>1, DrawnDef, Zenon
<1> HIDE DEF d
<1>8. Strategy(s, d) = dictionaries(K, V, q.min_size, q.max_size)
  BY <1>4, <1>5, <1>6 DEF Strategy, Formats
<1>9. dictionaries(K, V, q.min_size, q.max_size) = {<<"list", e>> : e \in DictRows(q)}
  <2> DEFINE P == {<<"tuple", kv>> : kv \in K \X V}
             keys(e) == [i \in DOMAIN e |-> e[i][2][1]]
             once(e) == \A i, j \in DOMAIN e : e[i][2][1] = e[j][2][1] => i = j
  <2>1. \A x \in K : x \in Atoms \ NaNs
    <3>1. \A x \in KeysOf(q) : x[1] \in {"int", "str"}
      BY DEF KeysOf, integers, text
    <3>2. \A x \in KeysOf(q) : x \in Nested[0]
      BY KeysAre
    <3>3. Nested[0] = Atoms
      <4>1. 0 \in 0..Deepest
        BY LevelsType
      <4> QED BY <4>1, NestedDef, Zenon
    <3>4. \A x \in NaNs : x[1] \notin {"int", "str"}
      BY DEF NaNs
    <3> QED BY <3>1, <3>2, <3>3, <3>4, Zenon DEF K
  <2>2. \A x \in P : x[2][1] \in K
    OBVIOUS
  <2>3. ASSUME NEW e \in Collections(P, q.min_size, q.max_size) PROVE Distinct(keys(e)) <=> once(e)
    <3> HIDE DEF P
    <3>1. \A i \in DOMAIN e : e[i] \in P
      <4>1. \E n : e \in [1..n -> P]
        BY Zenon DEF Collections
      <4> QED BY <4>1
    <3>2. DOMAIN keys(e) = DOMAIN e /\ \A i \in DOMAIN e : keys(e)[i] = e[i][2][1]
      BY Zenon
    <3> HIDE DEF keys
    <3>3. \A i \in DOMAIN keys(e) : keys(e)[i] \in Atoms \ NaNs
      BY <2>1, <2>2, <3>1, <3>2, Zenon
    <3>4. Distinct(keys(e)) <=> \A i, j \in DOMAIN keys(e) : keys(e)[i] = keys(e)[j] => i = j
      BY <3>3, DistinctAtoms, Zenon
    <3> QED BY <3>2, <3>4, Zenon
  <2>4. {e \in Collections(P, q.min_size, q.max_size) : Distinct(keys(e))}
          = {e \in Collections(P, q.min_size, q.max_size) : once(e)}
    <3> HIDE DEF P, keys, once
    <3> QED BY <2>3, Zenon
  <2> QED BY <2>4, Zenon DEF dictionaries, DictRows, K, V
<1>10. Parts(s) # {}
  BY <1>4
<1> QED BY <1>1, <1>7, <1>8, <1>9, <1>10 DEF _from_schema

Rows(n, ks, vs) == [i \in 1..n |-> <<"tuple", <<ks[i], vs[i]>>>>]
WrittenRows(n, ks, vs) == [i \in 1..n |-> <<"array", <<_encode_value[ks[i]], vs[i]>>>>]

LEMMA RowsCoded ==
  ASSUME NEW q, q.min_key \in Bounds, q.max_key \in Bounds, q.min_value \in Bounds, q.max_value \in Bounds,
         Compounds # {}, NEW n \in Nat, NEW ks \in [1..n -> KeysOf(q)],
         NEW vs \in [1..n -> integers(q.min_value, q.max_value)]
  PROVE  _encode_value[<<"list", Rows(n, ks, vs)>>] = <<"array", WrittenRows(n, ks, vs)>>
<1> DEFINE e == Rows(n, ks, vs)
<1>1. 0 \in 0..Deepest /\ 1 \in 0..Deepest /\ 0 + 1 \in 0..Deepest /\ 1 + 1 \in 0..Deepest /\ 0 + 1 = 1
  <2>1. Len(Levels) # 0
    <3>1. DOMAIN Levels # {}
      BY DEF Compounds, Range
    <3> QED BY <3>1, LevelsType
  <2> QED BY <2>1, LevelsType
<1>2. ASSUME NEW i \in 1..n
      PROVE  /\ <<"tuple", <<ks[i], vs[i]>>>> \in Nested[1]
             /\ _encode_value[<<"tuple", <<ks[i], vs[i]>>>>] = <<"array", <<_encode_value[ks[i]], vs[i]>>>>
             /\ _encode_value[<<"tuple", <<ks[i], vs[i]>>>>] \in Nested[1]
  <2>1. ks[i] \in Nested[0] /\ _encode_value[ks[i]] \in Nested[0]
    <3>1. \A k \in KeysOf(q) : k \in Nested[0] /\ _encode_value[k] \in Nested[0]
      BY KeysAre
    <3> QED BY <3>1
  <2>2. vs[i] \in Plain
    BY NumberDrawn
  <2>3. vs[i] \in Nested[0] /\ _encode_value[vs[i]] = vs[i]
    <3>1. vs[i] \in Atoms
      BY <2>2 DEF Atoms
    <3> QED BY <1>1, <2>2, <3>1, AtomsIn, EncodedPlain, Zenon
  <2>4. _encode_value[vs[i]] \in Nested[0]
    BY <2>3, Zenon
  <2>5. /\ <<"tuple", <<ks[i], vs[i]>>>> \in Nested[0 + 1]
        /\ _encode_value[<<"tuple", <<ks[i], vs[i]>>>>] = <<"array", <<_encode_value[ks[i]], _encode_value[vs[i]]>>>>
        /\ _encode_value[<<"tuple", <<ks[i], vs[i]>>>>] \in Nested[0 + 1]
    <3> DEFINE x == ks[i]
               y == vs[i]
    <3>1. x \in Nested[0] /\ y \in Nested[0] /\ _encode_value[x] \in Nested[0] /\ _encode_value[y] \in Nested[0]
      BY <2>1, <2>3, <2>4, Zenon
    <3> HIDE DEF x, y
    <3>2. /\ <<"tuple", <<x, y>>>> \in Nested[0 + 1]
          /\ _encode_value[<<"tuple", <<x, y>>>>] = <<"array", <<_encode_value[x], _encode_value[y]>>>>
          /\ _encode_value[<<"tuple", <<x, y>>>>] \in Nested[0 + 1]
      BY <1>1, <3>1, PairRight
    <3> QED BY <3>2 DEF x, y
  <2> QED BY <1>1, <2>3, <2>5, Zenon
<1>3. DOMAIN e = 1..n /\ \A i \in 1..n : e[i] = <<"tuple", <<ks[i], vs[i]>>>>
  BY DEF Rows
<1> HIDE DEF e
<1>4. e \in Seq(Nested[1])
  <2>1. e = [i \in 1..n |-> e[i]]
    BY <1>3 DEF Rows, e
  <2>2. \A i \in 1..n : e[i] \in Nested[1]
    BY <1>2, <1>3, Zenon
  <2> HIDE DEF e
  <2> QED BY <2>1, <2>2
<1>5. \A i \in DOMAIN e : _encode_value[e[i]] = <<"array", <<_encode_value[ks[i]], vs[i]>>>> /\ _encode_value[e[i]] \in Nested[1]
  BY <1>2, <1>3, Zenon
<1>6. _encode_value[<<"list", e>>] = <<"array", Encodings(e)>>
  <2>1. "list" \in {"list", "tuple"} /\ \A i \in DOMAIN e : _encode_value[e[i]] \in Nested[1]
    BY <1>5, Zenon
  <2> QED BY <1>1, <1>4, <2>1, EncodedItems
<1>7. Encodings(e) = WrittenRows(n, ks, vs)
  BY <1>3, <1>5, Zenon DEF Encodings, WrittenRows
<1> QED BY <1>6, <1>7 DEF e

LEMMA RowsMetric ==
  ASSUME NEW q, NEW mode, q.min_key \in Bounds, q.max_key \in Bounds, NEW n \in Nat, NEW ks \in [1..n -> KeysOf(q)],
         NEW vs \in [1..n -> integers(q.min_value, q.max_value)]
  PROVE  Metric("dict", mode, q, <<"array", WrittenRows(n, ks, vs)>>) = Summary(n, ks, vs, q.key_type = "integer")
<1> DEFINE r == WrittenRows(n, ks, vs)
           w == <<"array", r>>
           column(k) == {w[2][i][2][k][2] : i \in DOMAIN w[2]}
<1>1. w[2] = r
  OBVIOUS
<1>2. DOMAIN r = 1..n /\ Len(r) = n /\ \A i \in 1..n : r[i] = <<"array", <<_encode_value[ks[i]], vs[i]>>>>
  BY DEF WrittenRows
<1>3. Metric("dict", mode, q, w)
        = [size |-> Len(w[2]), values |-> EndsOf(column(2)),
           keys |-> IF q.key_type = "integer" THEN EndsOf(column(1)) ELSE <<None, None>>]
  BY DEF Metric, EndsOf
<1> HIDE DEF r
<1>4. \A i \in 1..n : r[i][2][1] = _encode_value[ks[i]] /\ r[i][2][2] = vs[i]
  BY <1>2
<1>a. column(1) = {r[i][2][1][2] : i \in 1..n} /\ column(2) = {r[i][2][2][2] : i \in 1..n}
  <2> HIDE DEF w
  <2> QED BY <1>1, <1>2
<1> HIDE DEF w, column
<1>5. column(2) = {vs[i][2] : i \in 1..n}
  <2>1. \A i \in 1..n : r[i][2][2][2] = vs[i][2]
    BY <1>4, Zenon
  <2> QED BY SMTT(30), <1>a, <2>1
<1>6. q.key_type = "integer" => column(1) = {ks[i][2] : i \in 1..n}
  <2> SUFFICES ASSUME q.key_type = "integer" PROVE column(1) = {ks[i][2] : i \in 1..n}
    OBVIOUS
  <2>1. \A k \in KeysOf(q) : _encode_value[k] = k
    BY KeysAre
  <2>2. \A i \in 1..n : r[i][2][1] = ks[i]
    BY <1>4, <2>1
  <2>3. \A i \in 1..n : r[i][2][1][2] = ks[i][2]
    BY <2>2, Zenon
  <2> QED BY <1>a, <2>3
<1> QED BY <1>1, <1>2, <1>3, <1>5, <1>6 DEF Summary, w, r, Column

\* The columns of a dict that can be drawn.
Drawable(q, n, ks, vs) ==
  /\ n \in Sizes(q.min_size, q.max_size)
  /\ ks \in [1..n -> KeysOf(q)] /\ IsInjective(ks) /\ vs \in [1..n -> integers(q.min_value, q.max_value)]
  /\ (KeysOf(q) # {} /\ integers(q.min_value, q.max_value) # {}) \/ q.max_size = 0

LEMMA RowsAre ==
  ASSUME NEW q, q.min_size \in Nat, q.max_size \in Caps
  PROVE  /\ \A e \in DictRows(q) : \E n, ks, vs : Drawable(q, n, ks, vs) /\ e = Rows(n, ks, vs)
         /\ \A n, ks, vs : Drawable(q, n, ks, vs) => Rows(n, ks, vs) \in DictRows(q) /\ n \in Nat
<1> DEFINE K == KeysOf(q)
           V == integers(q.min_value, q.max_value)
           P == {<<"tuple", kv>> : kv \in K \X V}
           C == Collections(P, q.min_size, q.max_size)
<1>1. DictRows(q) = {e \in C : \A i, j \in DOMAIN e : e[i][2][1] = e[j][2][1] => i = j}
  BY DEF DictRows
<1>2. \A v \in P : v = <<"tuple", <<v[2][1], v[2][2]>>>> /\ v[2][1] \in K /\ v[2][2] \in V
  OBVIOUS
<1>3. \A k \in K, v \in V : <<"tuple", <<k, v>>>> \in P
  OBVIOUS
<1> HIDE DEF K, V, P, C
<1>4. P # {} <=> K # {} /\ V # {}
  <2>1. P # {} => K # {} /\ V # {}
    BY <1>2
  <2>2. K # {} /\ V # {} => P # {}
    BY <1>3
  <2> QED BY <2>1, <2>2
<1>5. ASSUME NEW e \in DictRows(q)
      PROVE  \E n, ks, vs : Drawable(q, n, ks, vs) /\ e = Rows(n, ks, vs)
  <2> DEFINE n == Len(e)
             ks == [i \in 1..n |-> e[i][2][1]]
             vs == [i \in 1..n |-> e[i][2][2]]
  <2>1. /\ n \in Sizes(q.min_size, q.max_size) /\ DOMAIN e = 1..n /\ e \in [1..n -> P]
        /\ (P # {} \/ q.max_size = 0)
    <3>1. e \in Collections(P, q.min_size, q.max_size)
      BY <1>1 DEF C
    <3> QED BY <3>1, CollectionsOut
  <2>2. \A i, j \in 1..n : e[i][2][1] = e[j][2][1] => i = j
    BY <1>1, <2>1
  <2> HIDE DEF n
  <2>3. \A i \in 1..n : e[i] = <<"tuple", <<e[i][2][1], e[i][2][2]>>>> /\ e[i][2][1] \in K /\ e[i][2][2] \in V
    <3>1. \A i \in 1..n : e[i] \in P
      BY <2>1
    <3> QED BY <1>2, <3>1, Zenon
  <2>4. ks \in [1..n -> K] /\ vs \in [1..n -> V]
    BY <2>3
  <2>5. DOMAIN ks = 1..n /\ \A i \in 1..n : ks[i] = e[i][2][1] /\ vs[i] = e[i][2][2]
    OBVIOUS
  <2> HIDE DEF ks, vs
  <2>6. IsInjective(ks)
    BY <2>2, <2>5 DEF IsInjective
  <2>7. e = Rows(n, ks, vs)
    <3>1. \A i \in 1..n : e[i] = <<"tuple", <<ks[i], vs[i]>>>>
      BY <2>3, <2>5, Zenon
    <3>2. e = [i \in 1..n |-> e[i]]
      BY <2>1
    <3> QED BY <3>1, <3>2, Zenon DEF Rows
  <2>8. Drawable(q, n, ks, vs)
    BY <1>4, <2>1, <2>4, <2>6 DEF Drawable, K, V
  <2> QED BY <2>7, <2>8, Zenon
<1>6. ASSUME NEW n, NEW ks, NEW vs, Drawable(q, n, ks, vs)
      PROVE  Rows(n, ks, vs) \in DictRows(q) /\ n \in Nat
  <2> DEFINE e == Rows(n, ks, vs)
  <2>1. /\ n \in Sizes(q.min_size, q.max_size) /\ ks \in [1..n -> K] /\ IsInjective(ks) /\ vs \in [1..n -> V]
        /\ (P # {} \/ q.max_size = 0)
    <3>1. /\ n \in Sizes(q.min_size, q.max_size) /\ ks \in [1..n -> K] /\ IsInjective(ks) /\ vs \in [1..n -> V]
          /\ (K # {} /\ V # {}) \/ q.max_size = 0
      BY <1>6, Zenon DEF Drawable, K, V
    <3> QED BY <1>4, <3>1, Zenon
  <2>2. DOMAIN e = 1..n /\ \A i \in 1..n : e[i] = <<"tuple", <<ks[i], vs[i]>>>>
    BY DEF Rows
  <2>3. e \in [1..n -> P]
    <3>1. \A i \in 1..n : e[i] \in P
      <4> SUFFICES ASSUME NEW i \in 1..n PROVE e[i] \in P
        OBVIOUS
      <4>1. ks[i] \in K /\ vs[i] \in V
        BY <2>1
      <4> QED BY <1>3, <2>2, <4>1, Zenon
    <3>2. e = [i \in 1..n |-> e[i]]
      BY <2>2 DEF Rows
    <3> HIDE DEF e
    <3> QED BY <3>1, <3>2
  <2>4. e \in C
    <3> HIDE DEF e
    <3> QED BY <2>1, <2>3, CollectionsMake DEF C
  <2>5. \A i, j \in DOMAIN e : e[i][2][1] = e[j][2][1] => i = j
    <3>1. \A i \in 1..n : e[i][2][1] = ks[i]
      BY <2>2
    <3>2. \A i, j \in 1..n : ks[i] = ks[j] => i = j
      BY <2>1 DEF IsInjective
    <3> HIDE DEF e
    <3> QED BY <2>2, <3>1, <3>2
  <2>6. n \in Nat
    BY <2>1, SizesWithin
  <2> QED BY <1>1, <2>4, <2>5, <2>6
<1> QED BY <1>5, <1>6, Zenon

LEMMA DictMetrics ==
  ASSUME NEW q, NEW mode, mode # "filter_even", q.min_size \in Nat, q.max_size \in Caps,
         q.min_key \in Bounds, q.max_key \in Bounds, q.min_value \in Bounds, q.max_value \in Bounds,
         SchemaOf("dict", q) \in Compounds
  PROVE  /\ \A m \in Metrics("dict", mode, q) :
              \E n, ks, vs : Drawable(q, n, ks, vs) /\ m = Summary(n, ks, vs, q.key_type = "integer")
         /\ \A n, ks, vs : Drawable(q, n, ks, vs) =>
              Summary(n, ks, vs, q.key_type = "integer") \in Metrics("dict", mode, q)
<1> DEFINE A == Answers(SchemaOf("dict", q))
<1>1. A = {_encode_value[v] : v \in {<<"list", e>> : e \in DictRows(q)}}
  BY DictFrom DEF Answers
<1>2. Metrics("dict", mode, q) = {Metric("dict", mode, q, w) : w \in A}
  BY AllMetrics
<1> HIDE DEF A
<1>3. ASSUME NEW n, NEW ks, NEW vs, Drawable(q, n, ks, vs)
      PROVE  Metric("dict", mode, q, _encode_value[<<"list", Rows(n, ks, vs)>>]) = Summary(n, ks, vs, q.key_type = "integer")
  <2>1. n \in Nat
    <3>1. \A x, y, z : Drawable(q, x, y, z) => Rows(x, y, z) \in DictRows(q) /\ x \in Nat
      BY RowsAre
    <3> QED BY <1>3, <3>1, Zenon
  <2>2. ks \in [1..n -> KeysOf(q)] /\ vs \in [1..n -> integers(q.min_value, q.max_value)] /\ Compounds # {}
    BY <1>3 DEF Drawable
  <2>3. _encode_value[<<"list", Rows(n, ks, vs)>>] = <<"array", WrittenRows(n, ks, vs)>>
    BY <2>1, <2>2, RowsCoded
  <2>4. Metric("dict", mode, q, <<"array", WrittenRows(n, ks, vs)>>) = Summary(n, ks, vs, q.key_type = "integer")
    BY <2>1, <2>2, RowsMetric
  <2> QED BY <2>3, <2>4, Zenon
<1>4. ASSUME NEW m \in Metrics("dict", mode, q)
      PROVE  \E n, ks, vs : Drawable(q, n, ks, vs) /\ m = Summary(n, ks, vs, q.key_type = "integer")
  <2>1. PICK w \in A : m = Metric("dict", mode, q, w)
    BY <1>2
  <2>2. PICK e \in DictRows(q) : w = _encode_value[<<"list", e>>]
    BY <1>1
  <2>3. PICK n, ks, vs : Drawable(q, n, ks, vs) /\ e = Rows(n, ks, vs)
    BY RowsAre
  <2>4. m = Summary(n, ks, vs, q.key_type = "integer")
    BY <1>3, <2>1, <2>2, <2>3, Zenon
  <2> QED BY <2>3, <2>4, Zenon
<1>5. ASSUME NEW n, NEW ks, NEW vs, Drawable(q, n, ks, vs)
      PROVE  Summary(n, ks, vs, q.key_type = "integer") \in Metrics("dict", mode, q)
  <2>1. Rows(n, ks, vs) \in DictRows(q)
    BY <1>5, RowsAre
  <2>2. _encode_value[<<"list", Rows(n, ks, vs)>>] \in A
    BY <1>1, <2>1
  <2>3. Metric("dict", mode, q, _encode_value[<<"list", Rows(n, ks, vs)>>]) = Summary(n, ks, vs, q.key_type = "integer")
    BY <1>3, <1>5, Zenon
  <2> QED BY <1>2, <2>2, <2>3
<1> QED BY <1>4, <1>5, Zenon

LEMMA EndsWithin ==
  ASSUME NEW lo \in Bounds, NEW hi \in Bounds, NEW S, S # {}, S \subseteq Span(lo, hi), NEW a \in Int, NEW b \in Int
  PROVE  /\ a <= EndsOf(S)[1] /\ EndsOf(S)[2] <= b <=> S \subseteq a..b
         /\ EndsOf(S)[1] \in Int /\ EndsOf(S)[2] \in Int
<1>1. EndsOf(S)[1] = Min(S) /\ EndsOf(S)[2] = Max(S)
  BY DEF EndsOf
<1>2. Min(S) \in S /\ Max(S) \in S /\ \A x \in S : Min(S) <= x /\ x <= Max(S) /\ x \in Int
  BY SpanEnds
<1> QED BY <1>1, <1>2

LEMMA EndsPair ==
  ASSUME NEW lo \in Bounds, NEW hi \in Bounds, NEW S, S \subseteq Span(lo, hi)
  PROVE  EndsOf(S) \in Seq(Int \cup {None})
<1>1. CASE S = {}
  <2>1. EndsOf(S) = <<None, None>>
    BY <1>1 DEF EndsOf
  <2> QED BY <2>1
<1>2. CASE S # {}
  <2>1. EndsOf(S) = <<Min(S), Max(S)>>
    BY <1>2 DEF EndsOf
  <2>2. Min(S) \in Int /\ Max(S) \in Int
    <3>1. Min(S) \in S /\ Max(S) \in S /\ \A x \in S : x \in Int
      BY <1>2, SpanEnds
    <3> QED BY <3>1
  <2> QED BY <2>1, <2>2
<1> QED BY <1>1, <1>2

\* A column of numbers.
LEMMA ColumnIn ==
  ASSUME NEW lo \in Bounds, NEW hi \in Bounds, NEW n \in Nat, NEW xs \in [1..n -> integers(lo, hi)]
  PROVE  /\ Column(n, xs) \subseteq Span(lo, hi) /\ (n > 0 => Column(n, xs) # {})
         /\ \A i \in 1..n : xs[i] = <<"int", xs[i][2]>> /\ xs[i][2] \in Column(n, xs) /\ xs[i][2] \in Span(lo, hi)
<1>1. \A i \in 1..n : xs[i] = <<"int", xs[i][2]>> /\ xs[i][2] \in Span(lo, hi)
  BY IntegersAre
<1>2. n > 0 => 1 \in 1..n
  OBVIOUS
<1> QED BY <1>1, <1>2 DEF Column

\* As many different keys as are asked for.
LEMMA KeysThere ==
  ASSUME NEW p \in DictParams
  PROVE  /\ KeysOf(p) # {} \/ p.max_size = 0
         /\ \E ks \in [1..p.min_size -> KeysOf(p)] : IsInjective(ks)
<1> DEFINE n == p.min_size
           least == p.min_key
           most == p.max_key
<1>1. /\ n \in Nat /\ p.max_size \in Nat /\ n <= p.max_size /\ p.max_size <= LargestSize
      /\ least \in Int /\ most \in Int /\ least + p.max_size - 1 <= most
      /\ LargestSize \in Nat \ {0}
  BY DictDrawn, ConformanceAssumption
<1>2. CASE p.key_type = "integer"
  <2>1. KeysOf(p) = integers(least, most)
    BY <1>2 DEF KeysOf
  <2>2. KeysOf(p) = {<<"int", i>> : i \in least..most}
    BY <1>1, <2>1, NoneIs DEF integers, Span
  <2> DEFINE ks == [i \in 1..n |-> <<"int", least + i - 1>>]
  <2> HIDE DEF n, least, most
  <2>3. \A i \in 1..n : least + i - 1 \in least..most
    BY <1>1
  <2>4. \A x \in least..most : <<"int", x>> \in KeysOf(p)
    BY <2>2
  <2>5. ks \in [1..n -> KeysOf(p)]
    BY <2>3, <2>4
  <2>6. IsInjective(ks)
    <3>1. \A i, j \in 1..n : least + i - 1 = least + j - 1 => i = j
      BY <1>1
    <3>2. DOMAIN ks = 1..n /\ \A i \in 1..n : ks[i] = <<"int", least + i - 1>> /\ ks[i][2] = least + i - 1
      OBVIOUS
    <3> HIDE DEF ks
    <3> QED BY <3>1, <3>2 DEF IsInjective
  <2>7. p.max_size # 0 => least \in least..most
    BY <1>1
  <2> HIDE DEF ks
  <2>8. KeysOf(p) # {} \/ p.max_size = 0
    BY <2>4, <2>7
  <2> QED BY <2>5, <2>6, <2>8 DEF n
<1>3. CASE p.key_type # "integer"
  <2> DEFINE D == DOMAIN Category
             C == Cardinality(D)
  <2>1. IsFiniteSet(D) /\ LargestSize <= C /\ C \in Nat /\ Bijection(1..C, D) # {}
    <3>1. IsFiniteSet(D) /\ LargestSize <= C
      BY RoomAssumption
    <3>2. C \in Nat /\ ExistsBijection(1..C, D)
      BY <3>1, FS_CardinalityType
    <3> QED BY <3>1, <3>2 DEF ExistsBijection
  <2>2. PICK g \in [1..C -> D] : \A i, j \in 1..C : g[i] = g[j] => i = j
    <3>1. PICK g \in Bijection(1..C, D) : TRUE
      BY <2>1
    <3>2. g \in [1..C -> D] /\ IsInjective(g)
      BY <3>1, Zenon DEF Bijection, Injection
    <3> QED BY <3>2 DEF IsInjective
  <2> HIDE DEF D, C, n
  <2> DEFINE ks == [i \in 1..n |-> <<"str", <<g[i]>>>>]
  <2>3. \A i \in 1..n : i \in 1..C
    BY <1>1, <2>1
  <2>4. 1 \in 1..C /\ g[1] \in D
    BY <1>1, <2>1, <2>2
  <2>5. \A c \in D : <<"str", <<c>>>> \in KeysOf(p)
    <3> SUFFICES ASSUME NEW c \in D PROVE <<"str", <<c>>>> \in KeysOf(p)
      OBVIOUS
    <3>1. KeysOf(p) = {<<"str", q>> : q \in Collections(D, 0, 1)}
      BY <1>3 DEF KeysOf, text, D
    <3>2. 1 \in Sizes(0, 1) /\ 0 \in Nat /\ 1 \in Caps /\ <<c>> \in [1..1 -> D]
      BY NoneIs DEF Sizes, Caps
    <3>3. <<c>> \in Collections(D, 0, 1)
      BY <3>2, CollectionsMake
    <3> QED BY <3>1, <3>3
  <2>6. ks \in [1..n -> KeysOf(p)]
    <3>1. \A i \in 1..n : g[i] \in D
      BY <2>2, <2>3
    <3> QED BY <2>5, <3>1
  <2>7. IsInjective(ks)
    <3>1. DOMAIN ks = 1..n /\ \A i \in 1..n : ks[i] = <<"str", <<g[i]>>>> /\ ks[i][2][1] = g[i]
      OBVIOUS
    <3>2. \A i, j \in 1..n : g[i] = g[j] => i = j
      BY <2>2, <2>3, Zenon
    <3> HIDE DEF ks
    <3> QED BY <3>1, <3>2 DEF IsInjective
  <2>8. KeysOf(p) # {}
    BY <2>4, <2>5
  <2> HIDE DEF ks
  <2> QED BY <2>6, <2>7, <2>8 DEF n
<1> QED BY <1>2, <1>3

LEMMA SummaryIn ==
  ASSUME NEW q, q.min_size \in Nat, q.max_size \in Caps, q.min_key \in Bounds, q.max_key \in Bounds,
         q.min_value \in Bounds, q.max_value \in Bounds, NEW n, NEW ks, NEW vs, Drawable(q, n, ks, vs)
  PROVE  Summary(n, ks, vs, q.key_type = "integer")
           \in [size : Nat, values : Seq(Int \cup {None}), keys : Seq(Int \cup {None})]
<1> DEFINE T == Seq(Int \cup {None})
<1>1. n \in Nat /\ ks \in [1..n -> KeysOf(q)] /\ vs \in [1..n -> integers(q.min_value, q.max_value)]
  BY SizesWithin, Zenon DEF Drawable
<1>2. EndsOf(Column(n, vs)) \in T
  <2>1. Column(n, vs) \subseteq Span(q.min_value, q.max_value)
    BY <1>1, ColumnIn
  <2> QED BY <2>1, EndsPair
<1>3. (IF q.key_type = "integer" THEN EndsOf(Column(n, ks)) ELSE <<None, None>>) \in T
  <2>1. CASE q.key_type = "integer"
    <3>1. ks \in [1..n -> integers(q.min_key, q.max_key)]
      BY <1>1, <2>1 DEF KeysOf
    <3>2. Column(n, ks) \subseteq Span(q.min_key, q.max_key)
      BY <1>1, <3>1, ColumnIn
    <3>3. EndsOf(Column(n, ks)) \in T
      BY <3>2, EndsPair
    <3> QED BY <2>1, <3>3, Zenon
  <2>2. CASE q.key_type # "integer"
    <3>1. <<None, None>> \in T
      OBVIOUS
    <3> QED BY <2>2, <3>1, Zenon
  <2> QED BY <2>1, <2>2
<1> HIDE DEF T
<1>4. Summary(n, ks, vs, q.key_type = "integer") \in [size : Nat, values : T, keys : T]
  <2> DEFINE x == EndsOf(Column(n, vs))
             y == IF q.key_type = "integer" THEN EndsOf(Column(n, ks)) ELSE <<None, None>>
  <2>1. Summary(n, ks, vs, q.key_type = "integer") = [size |-> n, values |-> x, keys |-> y]
    BY DEF Summary
  <2>2. x \in T /\ y \in T
    BY <1>2, <1>3
  <2> HIDE DEF x, y
  <2> QED BY <1>1, <2>1, <2>2
<1> QED BY <1>4 DEF T

LEMMA SummaryValid ==
  ASSUME NEW p \in DictParams, NEW n, NEW ks, NEW vs, Drawable(p, n, ks, vs)
  PROVE  ValidateDict(Summary(n, ks, vs, p.key_type = "integer"), p)
<1> DEFINE m == Summary(n, ks, vs, p.key_type = "integer")
           Vs == Column(n, vs)
           Ks == Column(n, ks)
           lo == p.min_value
           hi == p.max_value
           a == p.min_key
           b == p.max_key
<1>1. /\ p.min_size \in Nat /\ p.max_size \in Nat /\ p.max_size \in Caps /\ p.max_size # None
      /\ lo \in Int /\ hi \in Int /\ lo \in Bounds /\ hi \in Bounds
      /\ a \in Int /\ b \in Int /\ a \in Bounds /\ b \in Bounds
  BY DictDrawn, NoneIs
<1>2. /\ n \in Sizes(p.min_size, p.max_size) /\ ks \in [1..n -> KeysOf(p)] /\ vs \in [1..n -> integers(lo, hi)]
  BY DEF Drawable
<1>3. m.size = n /\ m.values = EndsOf(Vs) /\ (p.key_type = "integer" => m.keys = EndsOf(Ks))
  BY DEF Summary
<1> HIDE DEF m, Vs, Ks, lo, hi, a, b
<1>4. n \in Nat /\ p.min_size <= n /\ n <= p.max_size
  BY <1>1, <1>2, NoneIs DEF Sizes
<1>5. n > 0 => lo <= m.values[1] /\ m.values[2] <= hi
  <2> SUFFICES ASSUME n > 0 PROVE lo <= m.values[1] /\ m.values[2] <= hi
    OBVIOUS
  <2>1. Vs \subseteq Span(lo, hi) /\ Vs # {}
    BY <1>1, <1>2, <1>4, ColumnIn DEF Vs
  <2>2. Span(lo, hi) = lo..hi
    BY <1>1, NoneIs DEF Span
  <2>3. lo <= EndsOf(Vs)[1] /\ EndsOf(Vs)[2] <= hi
    BY <1>1, <2>1, <2>2, EndsWithin
  <2> QED BY <1>3, <2>3
<1>6. n > 0 /\ p.key_type = "integer" => a <= m.keys[1] /\ m.keys[2] <= b
  <2> SUFFICES ASSUME n > 0, p.key_type = "integer" PROVE a <= m.keys[1] /\ m.keys[2] <= b
    OBVIOUS
  <2>1. ks \in [1..n -> integers(a, b)]
    BY <1>2 DEF KeysOf, a, b
  <2>2. Ks \subseteq Span(a, b) /\ Ks # {}
    BY <1>1, <1>4, <2>1, ColumnIn DEF Ks
  <2>3. Span(a, b) = a..b
    BY <1>1, NoneIs DEF Span
  <2>4. a <= EndsOf(Ks)[1] /\ EndsOf(Ks)[2] <= b
    BY <1>1, <2>2, <2>3, EndsWithin
  <2> QED BY <1>3, <2>4
<1>7. ValidateDict(m, p)
  BY <1>3, <1>4, <1>5, <1>6, Zenon DEF ValidateDict, lo, hi, a, b
<1> QED BY <1>7 DEF m

LEMMA DictMetricsRight ==
  ASSUME NEW p, NEW mode, mode # "filter_even", "dict" \in Kinds, p \in params_strategy("dict")
  PROVE  /\ Metrics("dict", mode, p) # {}
         /\ Metrics("dict", mode, p) \subseteq [size : Nat, values : Seq(Int \cup {None}), keys : Seq(Int \cup {None})]
         /\ \A m \in Metrics("dict", mode, p) : ValidateDict(m, p)
<1>0. p \in DictParams
  BY DEF params_strategy
<1>1. SchemaOf("dict", p) \in Compounds
  BY SentIn
<1>2. /\ p.min_size \in Nat /\ p.max_size \in Nat /\ p.max_size \in Caps /\ p.min_size <= p.max_size
      /\ p.min_value \in Int /\ p.max_value \in Int /\ p.min_value <= p.max_value
      /\ p.min_key \in Bounds /\ p.max_key \in Bounds /\ p.min_value \in Bounds /\ p.max_value \in Bounds
  BY <1>0, DictDrawn
<1>3. Metrics("dict", mode, p) # {}
  <2> DEFINE n == p.min_size
             vs == [i \in 1..n |-> <<"int", p.min_value>>]
             V == integers(p.min_value, p.max_value)
  <2>1. PICK ks \in [1..n -> KeysOf(p)] : IsInjective(ks)
    BY <1>0, KeysThere
  <2>2. <<"int", p.min_value>> \in V
    <3>1. p.min_value \in Span(p.min_value, p.max_value)
      BY <1>2, NoneIs DEF Span
    <3> QED BY <3>1 DEF integers
  <2>3. n \in Sizes(p.min_size, p.max_size)
    BY <1>2, NoneIs DEF Sizes
  <2>4. KeysOf(p) # {} \/ p.max_size = 0
    BY <1>0, KeysThere
  <2> HIDE DEF V, n
  <2>5. vs \in [1..n -> V]
    BY <2>2
  <2>6. V # {}
    BY <2>2
  <2> HIDE DEF vs
  <2>7. Drawable(p, n, ks, vs)
    BY <2>1, <2>3, <2>4, <2>5, <2>6, Zenon DEF Drawable, V
  <2>8. Summary(n, ks, vs, p.key_type = "integer") \in Metrics("dict", mode, p)
    BY <1>1, <1>2, <2>7, DictMetrics
  <2> QED BY <2>8
<1>4. ASSUME NEW m \in Metrics("dict", mode, p)
      PROVE  /\ m \in [size : Nat, values : Seq(Int \cup {None}), keys : Seq(Int \cup {None})]
             /\ ValidateDict(m, p)
  <2>1. PICK n, ks, vs : Drawable(p, n, ks, vs) /\ m = Summary(n, ks, vs, p.key_type = "integer")
    BY <1>1, <1>2, DictMetrics
  <2>2. Summary(n, ks, vs, p.key_type = "integer")
           \in [size : Nat, values : Seq(Int \cup {None}), keys : Seq(Int \cup {None})]
    BY <1>2, <2>1, SummaryIn
  <2>3. ValidateDict(Summary(n, ks, vs, p.key_type = "integer"), p)
    BY <1>0, <2>1, SummaryValid
  <2> QED BY <2>1, <2>2, <2>3, Zenon
<1> QED BY <1>3, <1>4, Zenon

LEMMA DictLegal ==
  ASSUME NEW p, NEW mode, mode # "filter_even", "dict" \in Kinds, p \in params_strategy("dict"),
         NEW f \in Droppable \cap DOMAIN p,
         NEW m \in Metrics("dict", mode, Ignoring(p, f)), ValidateDict(m, p)
  PROVE  m \in Metrics("dict", mode, p)
<1> DEFINE q == Ignoring(p, f)
           lo == p.min_value
           hi == p.max_value
           a == p.min_key
           b == p.max_key
<1>0. p \in DictParams
  BY DEF params_strategy
<1>1. SchemaOf("dict", p) \in Compounds /\ SchemaOf("dict", q) \in Compounds
  BY SentIn
<1>2. /\ DOMAIN p = DictKeys /\ p.min_size \in Nat /\ p.max_size \in Nat /\ p.max_size \in Caps /\ p.max_size # None
      /\ lo \in Int /\ hi \in Int /\ lo <= hi /\ lo \in Bounds /\ hi \in Bounds
      /\ a \in Int /\ b \in Int /\ a \in Bounds /\ b \in Bounds
  BY <1>0, DictDrawn, NoneIs
<1>3. /\ q.min_size \in {p.min_size, 0} /\ q.max_size \in {p.max_size, None}
      /\ q.min_value \in {lo, None} /\ q.max_value \in {hi, None}
      /\ q.min_key \in {a, None} /\ q.max_key \in {b, None}
  BY ZenonT(60), <1>2, IgnoringIs DEF DictKeys
<1>4. q.key_type = p.key_type
  <2>1. f # "key_type"
    BY DEF Droppable
  <2> QED BY <1>2, <2>1 DEF Ignoring, DictKeys
<1> HIDE DEF q, lo, hi, a, b
<1>5. /\ q.min_size \in Nat /\ q.max_size \in Caps /\ q.min_value \in Bounds /\ q.max_value \in Bounds
      /\ q.min_key \in Bounds /\ q.max_key \in Bounds
  BY <1>2, <1>3 DEF Bounds, Caps
<1>6. PICK n, ks, vs : Drawable(q, n, ks, vs) /\ m = Summary(n, ks, vs, q.key_type = "integer")
  <2>1. m \in Metrics("dict", mode, q)
    BY DEF q
  <2>2. SchemaOf("dict", q) \in Compounds
    BY <1>1 DEF q
  <2> QED BY <1>5, <2>1, <2>2, DictMetrics
<1> DEFINE Vs == Column(n, vs)
           Ks == Column(n, ks)
<1>7. /\ n \in Sizes(q.min_size, q.max_size) /\ ks \in [1..n -> KeysOf(q)] /\ IsInjective(ks)
      /\ vs \in [1..n -> integers(q.min_value, q.max_value)]
  BY <1>6, Zenon DEF Drawable
<1>8. n \in Nat
  BY <1>5, <1>7, SizesWithin
<1>9. m.size = n /\ m.values = EndsOf(Vs) /\ (p.key_type = "integer" => m.keys = EndsOf(Ks))
  BY <1>4, <1>6 DEF Summary
<1>10. /\ p.min_size <= n /\ n <= p.max_size
       /\ n > 0 => lo <= m.values[1] /\ m.values[2] <= hi
       /\ n > 0 /\ p.key_type = "integer" => a <= m.keys[1] /\ m.keys[2] <= b
  BY <1>9, Zenon DEF ValidateDict, lo, hi, a, b
<1> HIDE DEF Vs, Ks
<1>11. n \in Sizes(p.min_size, p.max_size)
  BY <1>2, <1>8, <1>10 DEF Sizes
<1>12. \A x \in lo..hi : <<"int", x>> \in integers(lo, hi)
  BY <1>2, NoneIs DEF integers, Span
<1>13. vs \in [1..n -> integers(lo, hi)]
  <2> SUFFICES ASSUME NEW i \in 1..n PROVE vs[i] \in integers(lo, hi)
    BY <1>7
  <2>1. n > 0
    BY <1>8
  <2>2. /\ Vs \subseteq Span(q.min_value, q.max_value) /\ Vs # {}
        /\ vs[i] = <<"int", vs[i][2]>> /\ vs[i][2] \in Vs
    <3> DEFINE c == q.min_value
               d == q.max_value
    <3>1. c \in Bounds /\ d \in Bounds /\ vs \in [1..n -> integers(c, d)]
      BY <1>5, <1>7
    <3> HIDE DEF c, d
    <3>2. /\ Column(n, vs) \subseteq Span(c, d) /\ (n > 0 => Column(n, vs) # {})
          /\ \A j \in 1..n : vs[j] = <<"int", vs[j][2]>> /\ vs[j][2] \in Column(n, vs)
      BY <1>8, <3>1, ColumnIn
    <3> QED BY <2>1, <3>2, Zenon DEF Vs, c, d
  <2>3. Vs \subseteq lo..hi
    <3>1. lo <= EndsOf(Vs)[1] /\ EndsOf(Vs)[2] <= hi
      BY <1>9, <1>10, <2>1, Zenon
    <3> DEFINE c == q.min_value
               d == q.max_value
    <3>2. c \in Bounds /\ d \in Bounds /\ Vs \subseteq Span(c, d)
      BY <1>5, <2>2
    <3> HIDE DEF c, d
    <3> QED BY <1>2, <2>2, <3>1, <3>2, EndsWithin
  <2> QED BY <1>12, <2>2, <2>3, Zenon
<1>14. ks \in [1..n -> KeysOf(p)]
  <2>1. CASE p.key_type # "integer"
    <3>1. KeysOf(q) = KeysOf(p)
      BY <1>4, <2>1 DEF KeysOf
    <3> QED BY <1>7, <3>1
  <2>2. CASE p.key_type = "integer"
    <3>1. KeysOf(q) = integers(q.min_key, q.max_key) /\ KeysOf(p) = integers(a, b)
      BY <1>4, <2>2 DEF KeysOf, a, b
    <3>2. \A x \in a..b : <<"int", x>> \in integers(a, b)
      BY <1>2, NoneIs DEF integers, Span
    <3> SUFFICES ASSUME NEW i \in 1..n PROVE ks[i] \in integers(a, b)
      BY <1>7, <3>1
    <3>3. n > 0
      BY <1>8
    <3>4. /\ Ks \subseteq Span(q.min_key, q.max_key) /\ Ks # {}
          /\ ks[i] = <<"int", ks[i][2]>> /\ ks[i][2] \in Ks
      <4> DEFINE c == q.min_key
                 d == q.max_key
      <4>1. c \in Bounds /\ d \in Bounds /\ ks \in [1..n -> integers(c, d)]
        BY <1>5, <1>7, <3>1
      <4> HIDE DEF c, d
      <4>2. /\ Column(n, ks) \subseteq Span(c, d) /\ (n > 0 => Column(n, ks) # {})
            /\ \A j \in 1..n : ks[j] = <<"int", ks[j][2]>> /\ ks[j][2] \in Column(n, ks)
        BY <1>8, <4>1, ColumnIn
      <4> QED BY <3>3, <4>2, Zenon DEF Ks, c, d
    <3>5. Ks \subseteq a..b
      <4>1. a <= EndsOf(Ks)[1] /\ EndsOf(Ks)[2] <= b
        BY <1>9, <1>10, <2>2, <3>3, Zenon
      <4> DEFINE c == q.min_key
                 d == q.max_key
      <4>2. c \in Bounds /\ d \in Bounds /\ Ks \subseteq Span(c, d)
        BY <1>5, <3>4
      <4> HIDE DEF c, d
      <4> QED BY <1>2, <3>4, <4>1, <4>2, EndsWithin
    <3> QED BY <3>2, <3>4, <3>5, Zenon
  <2> QED BY <2>1, <2>2
<1>15. (KeysOf(p) # {} /\ integers(lo, hi) # {}) \/ p.max_size = 0
  <2>1. lo \in lo..hi
    BY <1>2
  <2>2. integers(lo, hi) # {}
    BY <1>12, <2>1
  <2> QED BY <1>0, <2>2, KeysThere
<1>16. Drawable(p, n, ks, vs)
  BY <1>7, <1>11, <1>13, <1>14, <1>15, Zenon DEF Drawable, lo, hi
<1>17. Summary(n, ks, vs, p.key_type = "integer") \in Metrics("dict", mode, p)
  BY <1>1, <1>2, <1>16, DictMetrics DEF lo, hi, a, b
<1> QED BY <1>4, <1>6, <1>17

-----------------------------------------------------------------------------
(* The tests together.                                                     *)

\* What a test asserts of one metric.
Passes(t, m) ==
  CASE t.kind = "boolean" -> ValidateBoolean(m)
    [] t.kind = "integer" -> ValidateInteger(m, t.params)
    [] t.kind = "float" -> FloatValid(m, t.params)
    [] t.kind = "text" -> ValidateText(m, t.params)
    [] t.kind = "binary" -> ValidateBinary(m, t.params)
    [] t.kind = "list" -> ValidateList(m, t.params)
    [] t.kind = "sampled_from" -> ValidateSampledFrom(m, t.params)
    [] t.kind = "one_of" -> /\ BranchOf(m, t.mode, t.params.ranges) # 0
                            /\ t.mode = "filter_even" => m % 2 = 0
    [] t.kind = "dict" -> ValidateDict(m, t.params)
    [] OTHER -> TRUE

MetricsOf(t) == Metrics(t.kind, t.mode, t.params)

\* What a typed test is, kind by kind.
LEMMA TypedTest ==
  ASSUME NEW t, Typed(t)
  PROVE  /\ t.kind \in AllKinds /\ t.kind \in Kinds /\ t.params \in params_strategy(t.kind)
         /\ t.kind # "one_of" => t.mode # "filter_even"
         /\ t.kind = "integer" => t.params \in NativeOrNot
         /\ t.kind = "float" => t.params \in FloatParams
         /\ t.kind = "text" => t.params \in text_params_strategy
         /\ t.kind = "binary" => t.params \in SizeParams
         /\ t.kind = "sampled_from" => t.params \in SampledParams
         /\ t.kind = "one_of" => t.params \in OneOfParams
         /\ t.kind = "dict" => t.params \in DictParams
         /\ t.kind \in {"boolean", "origin", "error"} => t.params = [none |-> None]
<1>1. t.kind \in AllKinds /\ t.kind \in Kinds /\ t.params \in params_strategy(t.kind) /\ t.mode \in modes(t.kind)
  BY ConformanceAssumption DEF Typed
<1>2. t.kind # "one_of" => t.mode # "filter_even"
  BY <1>1, PlainMode
<1>3. /\ t.kind = "integer" => t.params \in NativeOrNot
      /\ t.kind = "float" => t.params \in FloatParams
      /\ t.kind = "text" => t.params \in text_params_strategy
      /\ t.kind = "binary" => t.params \in SizeParams
      /\ t.kind = "sampled_from" => t.params \in SampledParams
      /\ t.kind = "one_of" => t.params \in OneOfParams
      /\ t.kind = "dict" => t.params \in DictParams
      /\ t.kind \in {"boolean", "origin", "error"} => t.params = [none |-> None]
  BY <1>1 DEF params_strategy
<1> QED BY <1>1, <1>2, <1>3

\* None is no metric.
LEMMA NoneWritten ==
  /\ None \notin Plain /\ None \notin Seq(Int) /\ None \notin Int
  /\ None \notin [size : Nat, values : Seq(Int \cup {None}), keys : Seq(Int \cup {None})]
<1>1. None \notin {"filter_even"} \cup Plain \cup Seq(Int)
                    \cup [size : Nat, values : Seq(Int \cup {None}), keys : Seq(Int \cup {None})]
  BY NoneAssumption, Zenon
<1> DEFINE R == [size : Nat, values : Seq(Int \cup {None}), keys : Seq(Int \cup {None})]
           Q == Seq(Int)
<1>2. None \notin {"filter_even"} \cup Plain \cup Q \cup R
  BY <1>1
<1> HIDE DEF R, Q
<1>3. None \notin Plain /\ None \notin Q /\ None \notin R
  BY <1>2
<1> QED BY <1>3, NoneIs DEF R, Q

\* The origin test draws 0, 1 or 2.
LEMMA OriginsDrawn ==
  ASSUME NEW mode, mode # "filter_even"
  PROVE  LET M == Metrics("origin", mode, [none |-> None]) IN M # {} /\ M \subseteq Plain
<1>1. Metrics("origin", mode, [none |-> None]) = integers(0, 2)
  BY OriginMetrics
<1>2. 0 \in Bounds /\ 2 \in Bounds
  BY DEF Bounds
<1>3. integers(0, 2) \subseteq Plain
  BY <1>2, NumberDrawn
<1>4. integers(0, 2) # {}
  <2>1. 0 \in Span(0, 2)
    BY NoneIs DEF Span
  <2> QED BY <2>1 DEF integers
<1> QED BY <1>1, <1>3, <1>4

LEMMA BooleansDrawn ==
  ASSUME NEW kind \in {"boolean", "error"}, NEW mode, mode # "filter_even", NEW p
  PROVE  LET M == Metrics(kind, mode, p) IN M # {} /\ M \subseteq Plain /\ \A m \in M : ValidateBoolean(m)
<1>1. Metrics(kind, mode, p) = {<<"bool", b>> : b \in BOOLEAN}
  BY BooleanMetrics
<1>2. \A b \in BOOLEAN : <<"bool", b>> \in Plain /\ ValidateBoolean(<<"bool", b>>)
  BY DEF Plain, ValidateBoolean
<1> QED BY <1>1, <1>2

\* What the server draws for a test, every validator lets pass.
LEMMA MetricsRight ==
  ASSUME NEW t, Typed(t)
  PROVE  MetricsOf(t) # {} /\ None \notin MetricsOf(t) /\ \A m \in MetricsOf(t) : Passes(t, m)
<1> DEFINE M == Metrics(t.kind, t.mode, t.params)
           good == M # {} /\ None \notin M /\ \A m \in M : Passes(t, m)
<1>0. t.kind \in AllKinds /\ t.kind \in Kinds /\ t.params \in params_strategy(t.kind)
  BY TypedTest
<1>a. ASSUME NEW S, None \notin S, M \subseteq S, M # {}, \A m \in M : Passes(t, m)
      PROVE  good
  BY <1>a
<1> SUFFICES good
  BY DEF MetricsOf
<1>1. CASE t.kind \in {"boolean", "error"}
  <2>1. M # {} /\ M \subseteq Plain /\ \A m \in M : ValidateBoolean(m)
    BY <1>1, TypedTest, BooleansDrawn
  <2>2. \A m \in M : Passes(t, m)
    BY <1>1, <2>1 DEF Passes
  <2> QED BY <1>a, <2>1, <2>2, NoneWritten, Zenon
<1>2. CASE t.kind = "origin"
  <2>1. t.params = [none |-> None] /\ t.mode # "filter_even"
    BY <1>2, TypedTest
  <2>2. M # {} /\ M \subseteq Plain
    BY <1>2, <2>1, OriginsDrawn
  <2>3. \A m \in M : Passes(t, m)
    BY <1>2 DEF Passes
  <2> QED BY <1>a, <2>2, <2>3, NoneWritten, Zenon
<1>3. CASE t.kind = "integer"
  <2>1. M # {} /\ M \subseteq Plain /\ \A m \in M : ValidateInteger(m, t.params)
    BY <1>3, TypedTest, IntegerRight
  <2>2. \A m \in M : Passes(t, m)
    BY <1>3, <2>1 DEF Passes
  <2> QED BY <1>a, <2>1, <2>2, NoneWritten, Zenon
<1>4. CASE t.kind = "float"
  <2>1. M # {} /\ M \subseteq Plain /\ \A m \in M : FloatValid(m, t.params)
    BY <1>4, TypedTest, FloatRight
  <2>2. \A m \in M : Passes(t, m)
    BY <1>4, <2>1 DEF Passes
  <2> QED BY <1>a, <2>1, <2>2, NoneWritten, Zenon
<1>5. CASE t.kind = "text"
  <2>1. M # {} /\ M \subseteq Seq(Int) /\ \A m \in M : ValidateText(m, t.params)
    BY <1>5, TypedTest, TextRight
  <2>2. \A m \in M : Passes(t, m)
    BY <1>5, <2>1 DEF Passes
  <2> QED BY <1>a, <2>1, <2>2, NoneWritten, Zenon
<1>6. CASE t.kind = "binary"
  <2>1. M # {} /\ M \subseteq Plain /\ \A m \in M : ValidateBinary(m, t.params)
    BY <1>6, TypedTest, BinaryRight
  <2>2. \A m \in M : Passes(t, m)
    BY <1>6, <2>1 DEF Passes
  <2> QED BY <1>a, <2>1, <2>2, NoneWritten, Zenon
<1>7. CASE t.kind = "list"
  <2>1. M # {} /\ M \subseteq Seq(Int) /\ \A m \in M : ValidateList(m, t.params)
    <3>1. "list" \in Kinds /\ t.params \in params_strategy("list") /\ t.mode # "filter_even"
      BY <1>7, TypedTest
    <3> QED BY <1>7, <3>1, ListMetricsRight
  <2>2. \A m \in M : Passes(t, m)
    BY <1>7, <2>1 DEF Passes
  <2> QED BY <1>a, <2>1, <2>2, NoneWritten, Zenon
<1>8. CASE t.kind = "sampled_from"
  <2>1. M # {} /\ M \subseteq Int /\ \A m \in M : ValidateSampledFrom(m, t.params)
    BY <1>8, TypedTest, SampledRight
  <2>2. \A m \in M : Passes(t, m)
    BY <1>8, <2>1 DEF Passes
  <2> QED BY <1>a, <2>1, <2>2, NoneWritten, Zenon
<1>9. CASE t.kind = "one_of"
  <2>1. /\ M # {} /\ M \subseteq Int
        /\ \A m \in M : BranchOf(m, t.mode, t.params.ranges) # 0 /\ (t.mode = "filter_even" => m % 2 = 0)
    <3>1. "one_of" \in Kinds /\ t.params \in params_strategy("one_of")
      BY <1>9, TypedTest
    <3> QED BY <1>9, <3>1, OneOfMetricsRight
  <2>2. \A m \in M : Passes(t, m)
    BY <1>9, <2>1 DEF Passes
  <2> QED BY <1>a, <2>1, <2>2, NoneWritten, Zenon
<1>10. CASE t.kind = "dict"
  <2> DEFINE R == [size : Nat, values : Seq(Int \cup {None}), keys : Seq(Int \cup {None})]
  <2>1. M # {} /\ M \subseteq R /\ \A m \in M : ValidateDict(m, t.params)
    <3>1. "dict" \in Kinds /\ t.params \in params_strategy("dict") /\ t.mode # "filter_even"
      BY <1>10, TypedTest
    <3> QED BY <1>10, <3>1, DictMetricsRight
  <2>2. \A m \in M : Passes(t, m)
    BY <1>10, <2>1 DEF Passes
  <2>3. None \notin R
    BY NoneWritten
  <2> QED BY <1>a, <2>1, <2>2, <2>3, Zenon
<1> QED BY <1>0, <1>1, <1>2, <1>3, <1>4, <1>5, <1>6, <1>7, <1>8, <1>9, <1>10 DEF AllKinds

\* What a library that drops a parameter draws, if it passes, is what it should
\* draw; or no validator looks at it.
LEMMA MetricsLegal ==
  ASSUME NEW t, Typed(t), NEW f \in Droppable \cap DOMAIN t.params,
         NEW m \in Metrics(t.kind, t.mode, Ignoring(t.params, f)), Passes(t, m)
  PROVE  \/ m \in MetricsOf(t)
         \/ t.kind = "float" /\ m[1] \in {"nan", "inf"}
         \/ t.kind = "text" /\ t.params.categories = {}
<1> DEFINE p == t.params
           goal == m \in Metrics(t.kind, t.mode, p)
<1>0. t.kind \in AllKinds /\ t.kind \in Kinds /\ p \in params_strategy(t.kind) /\ f \in DOMAIN p /\ f \in Droppable
  BY TypedTest
<1> SUFFICES goal \/ (t.kind = "float" /\ m[1] \in {"nan", "inf"}) \/ (t.kind = "text" /\ p.categories = {})
  BY DEF MetricsOf
<1>1. CASE t.kind \in {"boolean", "origin", "error"}
  <2>1. p = [none |-> None]
    BY <1>1, TypedTest
  <2>2. f = "none"
    BY <1>0, <2>1
  <2> QED BY <1>0, <2>2 DEF Droppable
<1>2. CASE t.kind = "sampled_from"
  <2>1. DOMAIN p = {"options"}
    BY <1>2, TypedTest DEF SampledParams
  <2>2. f = "options"
    BY <1>0, <2>1
  <2> QED BY <1>0, <2>2 DEF Droppable
<1>3. CASE t.kind = "one_of"
  <2>1. Droppable \cap DOMAIN p = {}
    BY <1>3, TypedTest, OneOfDrawn
  <2> QED BY <2>1
<1>4. CASE t.kind = "integer"
  <2>1. p \in NativeOrNot /\ t.mode # "filter_even" /\ ValidateInteger(m, p)
    BY <1>4, TypedTest DEF Passes
  <2> QED BY <1>4, <2>1, IntegerLegal
<1>5. CASE t.kind = "binary"
  <2>1. p \in SizeParams /\ t.mode # "filter_even" /\ ValidateBinary(m, p)
    BY <1>5, TypedTest DEF Passes
  <2> QED BY <1>5, <2>1, BinaryLegal
<1>6. CASE t.kind = "float"
  <2>1. p \in FloatParams /\ t.mode # "filter_even" /\ FloatValid(m, p)
    BY <1>6, TypedTest DEF Passes
  <2> QED BY <1>6, <2>1, FloatLegal
<1>7. CASE t.kind = "text"
  <2>1. p \in text_params_strategy /\ t.mode # "filter_even" /\ ValidateText(m, p)
    BY <1>7, TypedTest DEF Passes
  <2>2. CASE p.categories = {}
    BY <1>7, <2>2
  <2>3. CASE p.categories # {}
    BY <1>7, <2>1, <2>3, TextLegal
  <2> QED BY <2>2, <2>3
<1>8. CASE t.kind = "list"
  <2>1. p \in params_strategy("list") /\ t.mode # "filter_even" /\ ValidateList(m, p) /\ "list" \in Kinds
    BY <1>8, TypedTest DEF Passes
  <2> QED BY <1>8, <2>1, ListLegal
<1>9. CASE t.kind = "dict"
  <2>1. p \in params_strategy("dict") /\ t.mode # "filter_even" /\ ValidateDict(m, p) /\ "dict" \in Kinds
    BY <1>9, TypedTest DEF Passes
  <2> QED BY <1>9, <2>1, DictLegal
<1> QED BY <1>0, <1>1, <1>2, <1>3, <1>4, <1>5, <1>6, <1>7, <1>8, <1>9 DEF AllKinds

\* What is validated: each test case that counts, with its line.
Matched(ms) ==
  /\ DOMAIN ms = Counted
  /\ \A i \in Counted : ms[i].value = lines[i]
  /\ \A i \in Counted : ms[i].calls = None \/ (ms[i].calls = served[i].calls /\ served[i].calls \in Calls)

\* What is judged was written: with lengths equal, the line of a test case is its own.
LEMMA CountedWritten ==
  ASSUME ConformanceInv, phase = "judged", served = <<>> \/ Len(served) = Len(lines), served = <<>> => test.skip \/ test.kind = "error"
  PROVE  /\ \A i \in Counted : lines[i] \in Written
         /\ Counted \subseteq DOMAIN lines
         /\ served # <<>> => DOMAIN served = DOMAIN lines /\ Counted = Kept /\ Matched(Paired)
         /\ served = <<>> => Counted = DOMAIN lines /\ Matched(Unpaired)
<1>1. Filed
  BY DEF ConformanceInv
<1>2. Counted \subseteq DOMAIN lines
  BY DEF Counted
<1>3. served # <<>> => DOMAIN served = DOMAIN lines /\ Counted = Kept
  <2> SUFFICES ASSUME served # <<>> PROVE DOMAIN served = DOMAIN lines /\ Counted = Kept
    OBVIOUS
  <2>1. lines \in Seq(Lines) /\ served \in Seq(ServerLines)
    BY <1>1 DEF Filed
  <2>2. DOMAIN served = DOMAIN lines
    BY <2>1
  <2> QED BY <2>2 DEF Counted, Kept
<1>4. served = <<>> => Counted = DOMAIN lines
  BY DEF Counted
<1>5. \A i \in Counted : lines[i] \in Written
  <2> SUFFICES ASSUME NEW i \in Counted PROVE lines[i] \in Written
    OBVIOUS
  <2>1. i \in DOMAIN lines
    BY <1>2
  <2>2. CASE ~Metered
    BY <1>1, <2>1, <2>2 DEF Filed
  <2>3. CASE Metered /\ flaw = "unlined"
    <3>1. Behind
      BY <1>1, <2>3 DEF Filed
    <3> QED BY <2>1, <3>1 DEF Behind
  <2>4. CASE Metered /\ flaw # "unlined"
    <3>1. Aligned
      BY <1>1, <2>4 DEF Filed
    <3>2. served # <<>>
      BY <2>4 DEF Metered
    <3>3. served[i].status \notin Discarded
      BY <3>2 DEF Counted
    <3> QED BY <2>1, <3>1, <3>3 DEF Aligned
  <2> QED BY <2>2, <2>3, <2>4
<1>6. served # <<>> => Matched(Paired)
  <2> SUFFICES ASSUME served # <<>> PROVE Matched(Paired)
    OBVIOUS
  <2>1. DOMAIN Paired = Counted /\ \A i \in Counted : Paired[i] = [value |-> lines[i], calls |-> served[i].calls]
    BY <1>3 DEF Paired
  <2>2. \A i \in Counted : served[i].calls \in Calls
    <3> SUFFICES ASSUME NEW i \in Counted PROVE served[i].calls \in Calls
      OBVIOUS
    <3>1. i \in DOMAIN served
      BY <1>2, <1>3
    <3>2. served \in Seq(ServerLines)
      BY <1>1 DEF Filed
    <3>3. served[i] \in ServerLines
      BY <3>1, <3>2
    <3> QED BY <3>3 DEF ServerLines
  <2> QED BY <2>1, <2>2 DEF Matched
<1>7. served = <<>> => Matched(Unpaired)
  <2> SUFFICES ASSUME served = <<>> PROVE Matched(Unpaired)
    OBVIOUS
  <2>1. DOMAIN Unpaired = Counted /\ \A i \in Counted : Unpaired[i] = [value |-> lines[i], calls |-> None]
    BY <1>4 DEF Unpaired
  <2> QED BY <2>1 DEF Matched
<1> QED BY <1>2, <1>3, <1>4, <1>5, <1>6, <1>7

\* Of a matched list, validation is one metric at a time, but for the floats that
\* must be seen and the branches.
LEMMA ValidateEach ==
  ASSUME NEW ms, Matched(ms), test.kind \in AllKinds
  PROVE  validate(ms) <=>
           /\ test.kind \notin {"error", "origin"} => \A i \in Counted : lines[i] # None
           /\ test.kind # "error" => \A i \in Counted : Passes(test, lines[i])
           /\ test.kind = "origin" => ValidateOrigin
           /\ test.kind = "float" =>
                /\ (IF test.params.allow_nan = None THEN test.params.min_value = None /\ test.params.max_value = None
                    ELSE test.params.allow_nan) => \E i \in Counted : lines[i][1] = "nan"
                /\ (IF test.params.allow_infinity = None THEN test.params.min_value = None \/ test.params.max_value = None
                    ELSE test.params.allow_infinity) => \E i \in Counted : lines[i][1] = "inf"
           /\ test.kind = "one_of" =>
                /\ \A i \in Counted :
                     ms[i].calls # None => IF test.mode = "filter_even" THEN ms[i].calls >= 2 ELSE ms[i].calls = 1
                /\ Cardinality({BranchOf(lines[i], test.mode, test.params.ranges) : i \in Counted}) >= 2
<1> DEFINE p == test.params
           metrics == {ms[i].value : i \in DOMAIN ms}
           nanDue == IF p.allow_nan = None THEN p.min_value = None /\ p.max_value = None ELSE p.allow_nan
           infDue == IF p.allow_infinity = None THEN p.min_value = None \/ p.max_value = None ELSE p.allow_infinity
           B == {BranchOf(lines[i], test.mode, p.ranges) : i \in Counted}
<1>1. DOMAIN ms = Counted /\ \A i \in Counted : ms[i].value = lines[i]
  BY DEF Matched
<1>2. metrics = {lines[i] : i \in Counted}
  BY <1>1
<1>3. None \notin metrics <=> \A i \in Counted : lines[i] # None
  BY <1>2
<1>4. ValidateFloat(ms, p) <=>
        /\ \A i \in Counted : FloatValid(lines[i], p)
        /\ nanDue => \E i \in Counted : lines[i][1] = "nan"
        /\ infDue => \E i \in Counted : lines[i][1] = "inf"
  <2> HIDE DEF metrics, B
  <2> QED BY ZenonT(60), <1>1 DEF ValidateFloat, FloatValid
<1>5. ValidateOneOf(ms, test.mode, p) <=>
        /\ \A i \in Counted : BranchOf(lines[i], test.mode, p.ranges) # 0 /\ (test.mode = "filter_even" => lines[i] % 2 = 0)
        /\ \A i \in Counted :
             ms[i].calls # None => IF test.mode = "filter_even" THEN ms[i].calls >= 2 ELSE ms[i].calls = 1
        /\ Cardinality(B) >= 2
  <2>1. BranchesUsed(ms, test.mode, p.ranges) = B
    BY <1>1 DEF BranchesUsed
  <2>2. 0 \notin B <=> \A i \in Counted : BranchOf(lines[i], test.mode, p.ranges) # 0
    OBVIOUS
  <2> HIDE DEF metrics, B
  <2> QED BY <1>1, <2>1, <2>2 DEF ValidateOneOf
<1> HIDE DEF metrics, nanDue, infDue, B
<1>6. validate(ms) <=>
        /\ test.kind \notin {"error", "origin"} => None \notin metrics
        /\ CASE test.kind = "error" -> TRUE
             [] test.kind = "origin" -> ValidateOrigin
             [] test.kind = "boolean" -> \A m \in metrics : ValidateBoolean(m)
             [] test.kind = "integer" -> \A m \in metrics : ValidateInteger(m, p)
             [] test.kind = "float" -> ValidateFloat(ms, p)
             [] test.kind = "text" -> \A m \in metrics : ValidateText(m, p)
             [] test.kind = "binary" -> \A m \in metrics : ValidateBinary(m, p)
             [] test.kind = "list" -> \A m \in metrics : ValidateList(m, p)
             [] test.kind = "sampled_from" -> \A m \in metrics : ValidateSampledFrom(m, p)
             [] test.kind = "one_of" -> ValidateOneOf(ms, test.mode, p)
             [] test.kind = "dict" -> \A m \in metrics : ValidateDict(m, p)
  BY DEF validate, metrics
<1> DEFINE each == \A i \in Counted : Passes(test, lines[i])
<1>7. CASE test.kind = "error"
  BY <1>6, <1>7
<1>8. CASE test.kind = "origin"
  <2>1. each
    BY <1>8 DEF Passes
  <2> QED BY <1>6, <1>8, <2>1
<1>9. CASE test.kind = "float"
  <2>1. each <=> \A i \in Counted : FloatValid(lines[i], p)
    BY <1>9 DEF Passes
  <2>2. validate(ms) <=> None \notin metrics /\ ValidateFloat(ms, p)
    BY <1>6, <1>9
  <2> HIDE DEF each
  <2> QED BY <1>3, <1>4, <1>9, <2>1, <2>2 DEF each, nanDue, infDue
<1>10. CASE test.kind = "one_of"
  <2>1. each <=> \A i \in Counted : /\ BranchOf(lines[i], test.mode, p.ranges) # 0
                                    /\ test.mode = "filter_even" => lines[i] % 2 = 0
    BY <1>10 DEF Passes
  <2>2. validate(ms) <=> None \notin metrics /\ ValidateOneOf(ms, test.mode, p)
    BY <1>6, <1>10
  <2> HIDE DEF each
  <2> QED BY <1>3, <1>5, <1>10, <2>1, <2>2 DEF each, B
<1>11. CASE test.kind \in {"boolean", "integer", "text", "binary", "list", "sampled_from", "dict"}
  <2>1. validate(ms) <=> None \notin metrics /\ \A m \in metrics : Passes(test, m)
    BY <1>6, <1>11 DEF Passes
  <2>2. (\A m \in metrics : Passes(test, m)) <=> each
    BY <1>2
  <2> HIDE DEF each
  <2> QED BY <1>3, <1>11, <2>1, <2>2 DEF each
<1> QED BY <1>7, <1>8, <1>9, <1>10, <1>11 DEF AllKinds

\* What there is to see of a library without a flaw, the validators let pass.
LEMMA RightValidates ==
  ASSUME ConformanceInv, phase = "judged", flaw = "none", Shown,
         \A i \in Counted : lines[i] \in Written,
         NEW ms, Matched(ms)
  PROVE  validate(ms)
<1> DEFINE p == test.params
<1>1. Typed(test) /\ test.kind \in AllKinds
  BY ConformanceAssumption DEF ConformanceInv, Typed
<1>2. Written = MetricsOf(test)
  BY DEF Written, Droppable, MetricsOf
<1>3. \A i \in Counted : lines[i] # None /\ Passes(test, lines[i])
  BY <1>1, <1>2, MetricsRight
<1>4. test.kind = "origin" => ValidateOrigin
  <2> SUFFICES ASSUME test.kind = "origin" PROVE interesting_test_cases = 1
    BY DEF ValidateOrigin
  <2> DEFINE O == {Origin(m[2]) : m \in {x \in Range(lines) : x # None /\ x[2] > 0}}
  <2>1. O \subseteq {0}
    BY DEF Origin
  <2>2. interesting_test_cases = Cardinality(O) /\ interesting_test_cases > 0
    BY DEF interesting_test_cases, Shown
  <2> HIDE DEF O
  <2>3. O = {} \/ O = {0}
    BY <2>1
  <2>4. Cardinality({}) = 0 /\ Cardinality({0}) = 1
    BY FS_EmptySet, FS_Singleton
  <2> QED BY <2>2, <2>3, <2>4
<1>5. test.kind = "float" =>
        /\ (IF p.allow_nan = None THEN p.min_value = None /\ p.max_value = None
            ELSE p.allow_nan) => \E i \in Counted : lines[i][1] = "nan"
        /\ (IF p.allow_infinity = None THEN p.min_value = None \/ p.max_value = None
            ELSE p.allow_infinity) => \E i \in Counted : lines[i][1] = "inf"
  <2> SUFFICES ASSUME test.kind = "float"
               PROVE  /\ (IF p.allow_nan = None THEN p.min_value = None /\ p.max_value = None
                          ELSE p.allow_nan) => \E i \in Counted : lines[i][1] = "nan"
                      /\ (IF p.allow_infinity = None THEN p.min_value = None \/ p.max_value = None
                          ELSE p.allow_infinity) => \E i \in Counted : lines[i][1] = "inf"
    OBVIOUS
  <2>1. p \in FloatParams /\ test.mode # "filter_even" /\ MetricsOf(test) = Metrics("float", test.mode, p)
    BY <1>1, TypedTest DEF MetricsOf
  <2>2. /\ (IF p.allow_nan = None THEN p.min_value = None /\ p.max_value = None ELSE p.allow_nan)
             => <<"nan">> \in Metrics("float", test.mode, p)
        /\ (IF p.allow_infinity = None THEN p.min_value = None \/ p.max_value = None ELSE p.allow_infinity)
             => \E m \in Metrics("float", test.mode, p) : m[1] = "inf"
    BY <2>1, FloatRight
  <2>3. /\ <<"nan">> \in Written => \E i \in Counted : lines[i][1] = "nan"
        /\ (\E m \in Written : m[1] = "inf") => \E i \in Counted : lines[i][1] = "inf"
    BY DEF Shown
  <2> QED BY <1>2, <2>1, <2>2, <2>3, Zenon
<1>6. test.kind = "one_of" =>
        /\ \A i \in Counted :
             ms[i].calls # None => IF test.mode = "filter_even" THEN ms[i].calls >= 2 ELSE ms[i].calls = 1
        /\ Cardinality({BranchOf(lines[i], test.mode, p.ranges) : i \in Counted}) >= 2
  <2> SUFFICES ASSUME test.kind = "one_of"
               PROVE  /\ \A i \in Counted :
                           ms[i].calls # None => IF test.mode = "filter_even" THEN ms[i].calls >= 2 ELSE ms[i].calls = 1
                      /\ Cardinality({BranchOf(lines[i], test.mode, p.ranges) : i \in Counted}) >= 2
    OBVIOUS
  <2>1. Cardinality({BranchOf(lines[i], test.mode, p.ranges) : i \in Counted}) >= 2
    BY DEF Shown
  <2>2. Calls = IF test.mode = "filter_even" THEN 2..4 ELSE {1}
    BY DEF Calls
  <2>3. ASSUME NEW i \in Counted, ms[i].calls # None
        PROVE  IF test.mode = "filter_even" THEN ms[i].calls >= 2 ELSE ms[i].calls = 1
    <3>1. ms[i].calls \in Calls
      BY <2>3 DEF Matched
    <3> QED BY <2>2, <3>1
  <2> QED BY <2>1, <2>3
<1> HIDE DEF p
<1> QED BY <1>1, <1>3, <1>4, <1>5, <1>6, ValidateEach DEF p

\* A library that draws what the server draws for the parameters passes, whichever
\* were drawn and whichever test cases were discarded, but for the two exceptions
\* (conformance.py:183-273, :255, :830).
THEOREM NoFalseAlarm == Spec => []RightLibraryPasses
<1>1. ConformanceInv => RightLibraryPasses
  <2> SUFFICES ASSUME ConformanceInv, phase = "judged", flaw = "none", Shown,
                      ~(test.kind = "error" /\ ~test.skip), ~(Foreign /\ test.params.max_size = 0)
               PROVE  verdict = "passed"
    BY DEF RightLibraryPasses
  <2>1. Typed(test) /\ Filed /\ Judged
    BY DEF ConformanceInv
  <2>2. Written = MetricsOf(test) /\ Written # {}
    <3>1. Written = MetricsOf(test)
      BY DEF Written, Droppable, MetricsOf
    <3> QED BY <2>1, <3>1, MetricsRight
  <2>3. ~Foreign
    <3> SUFFICES ASSUME Foreign PROVE FALSE
      OBVIOUS
    <3>1. test.kind = "dict" /\ test.params.min_key > Native /\ test.params.max_size # 0
      BY DEF Foreign
    <3>2. test.params \in DictParams
      BY <2>1, <3>1, TypedTest
    <3> DEFINE a == test.params.min_key
               b == test.params.max_key
               n == test.params.max_size
    <3>3. a \in Nat /\ b \in Int /\ n \in Nat /\ a + n - 1 <= b /\ b <= Native
      BY <3>2, DictDrawn
    <3>4. a > Native /\ n # 0 /\ Native \in Int
      BY <3>1, ConformanceAssumption, SchemaAssumption
    <3> HIDE DEF a, b, n
    <3> QED BY <3>3, <3>4
  <2>4. verdict = Verdict(0)
    BY <2>1, <2>2, <2>3 DEF Judged, Codes
  <2>5. ~Metered => test.skip
    BY DEF Metered
  <2>6. served = <<>> \/ Len(served) = Len(lines)
    BY <2>1 DEF Filed
  <2>7. served = <<>> => test.skip
    <3> SUFFICES ASSUME served = <<>>, Metered PROVE FALSE
      BY <2>5
    <3>1. test.kind # "error"
      BY DEF Metered
    <3>2. lines # <<>>
      BY <2>1, <2>2, <3>1 DEF Judged
    <3>3. Len(lines) = Len(served) /\ lines \in Seq(Lines)
      BY <2>1 DEF Filed
    <3> QED BY <3>2, <3>3
  <2>8. /\ \A i \in Counted : lines[i] \in Written
        /\ served # <<>> => Matched(Paired)
        /\ served = <<>> => Matched(Unpaired)
    BY <2>6, <2>7, CountedWritten
  <2>9. validate(IF served = <<>> THEN Unpaired ELSE Paired)
    BY <2>8, RightValidates
  <2> QED BY <2>4, <2>6, <2>7, <2>9 DEF Verdict
<1> QED BY <1>1, ConformanceInit, ConformanceNext, PTL DEF Spec

\* Of a metric that a library with a flaw could write and that the validators let
\* pass, there is nothing wrong that they look at.
LEMMA FlawLegal ==
  ASSUME Typed(test), flaw \in Flaws(test), test.kind # "origin",
         NEW m, m \in Written, Passes(test, m)
  PROVE  m \in MetricsOf(test) \/ Unseen(m)
<1>1. CASE flaw = "numbers"
  <2>1. test.kind = "boolean"
    BY <1>1 DEF Flaws, Droppable
  <2>2. Written = {<<"int", 0>>, <<"int", 1>>}
    BY <1>1 DEF Written, Droppable
  <2>3. m[1] = "int"
    BY <2>2
  <2> QED BY <2>1, <2>3 DEF Unseen
<1>2. CASE flaw \in Droppable
  <2>1. flaw \in Droppable \cap DOMAIN test.params
    BY <1>2 DEF Flaws, Droppable
  <2>2. m \in Metrics(test.kind, test.mode, Ignoring(test.params, flaw))
    BY <1>2 DEF Written, Droppable
  <2>3. \/ m \in MetricsOf(test)
        \/ test.kind = "float" /\ m[1] \in {"nan", "inf"}
        \/ test.kind = "text" /\ test.params.categories = {}
    BY <2>1, <2>2, MetricsLegal
  <2> QED BY <2>3 DEF Unseen
<1>3. CASE flaw # "numbers" /\ flaw \notin Droppable
  BY <1>3 DEF Written, MetricsOf
<1> QED BY <1>1, <1>2, <1>3

\* Of a library that passes, every test case that counts is one the server could
\* have drawn, by the promised number of requests, and failures in one place are
\* one failure (conformance.py:341-929).
THEOREM NoFlawPasses == Spec => []PassMeansLegal
<1>1. ConformanceInv => PassMeansLegal
  <2> SUFFICES ASSUME ConformanceInv, phase = "judged", verdict = "passed"
               PROVE  /\ \A i \in Counted : test.kind # "origin" =>
                           \/ lines[i] \in Metrics(test.kind, test.mode, test.params)
                           \/ Unseen(lines[i])
                      /\ test.kind = "one_of" /\ ~test.skip =>
                           \A i \in Counted : served[i].calls = 1 <=> test.mode # "filter_even"
                      /\ test.kind = "origin" => interesting_test_cases = 1
    BY DEF PassMeansLegal
  <2>1. Typed(test) /\ flaw \in Flaws(test) /\ Filed /\ Judged /\ test.kind \in AllKinds
    BY ConformanceAssumption DEF ConformanceInv, Typed
  <2>2. PICK code \in Codes : verdict = Verdict(code)
    BY <2>1 DEF Judged
  <2>3. /\ served = <<>> \/ Len(served) = Len(lines)
        /\ served = <<>> => test.skip
        /\ validate(IF served = <<>> THEN Unpaired ELSE Paired)
    <3>1. code \in {0, 1}
      BY DEF Codes
    <3>2. code = 0
      BY <2>2, <3>1 DEF Verdict
    <3> QED BY <2>2, <3>2 DEF Verdict
  <2>4. /\ \A i \in Counted : lines[i] \in Written
        /\ Counted \subseteq DOMAIN lines
        /\ served # <<>> => DOMAIN served = DOMAIN lines /\ Counted = Kept /\ Matched(Paired)
        /\ served = <<>> => Matched(Unpaired)
    BY <2>3, CountedWritten
  <2>5. PICK ms : Matched(ms) /\ validate(ms) /\ (served # <<>> => ms = Paired)
    BY <2>3, <2>4
  <2>6. /\ test.kind # "error" => \A i \in Counted : Passes(test, lines[i])
        /\ test.kind = "origin" => ValidateOrigin
        /\ test.kind = "one_of" => \A i \in Counted :
             ms[i].calls # None => IF test.mode = "filter_even" THEN ms[i].calls >= 2 ELSE ms[i].calls = 1
    BY <2>1, <2>5, ValidateEach
  <2>7. ASSUME NEW i \in Counted, test.kind # "origin"
        PROVE  lines[i] \in Metrics(test.kind, test.mode, test.params) \/ Unseen(lines[i])
    <3>1. test.kind # "error"
      BY <2>1, <2>4 DEF Filed
    <3>2. Passes(test, lines[i]) /\ lines[i] \in Written
      BY <2>4, <2>6, <3>1
    <3>3. lines[i] \in MetricsOf(test) \/ Unseen(lines[i])
      BY <2>1, <2>7, <3>2, FlawLegal
    <3> QED BY <3>3 DEF MetricsOf
  <2>8. ASSUME test.kind = "one_of", ~test.skip, NEW i \in Counted
        PROVE  served[i].calls = 1 <=> test.mode # "filter_even"
    <3>1. served # <<>> /\ ms = Paired /\ Counted = Kept
      BY <2>3, <2>4, <2>5, <2>8
    <3>2. ms[i].calls = served[i].calls
      BY <3>1 DEF Paired
    <3>3. DOMAIN served = DOMAIN lines /\ i \in DOMAIN served /\ served \in Seq(ServerLines)
      BY <2>1, <2>4, <3>1 DEF Filed
    <3>4. served[i].calls \in Calls
      <4>1. served[i] \in ServerLines
        BY <3>3
      <4> QED BY <4>1 DEF ServerLines
    <3>5. served[i].calls \in Int /\ served[i].calls # None
      BY <3>4, NoneIs DEF Calls
    <3>6. IF test.mode = "filter_even" THEN served[i].calls >= 2 ELSE served[i].calls = 1
      BY <2>6, <2>8, <3>2, <3>5
    <3> QED BY <3>5, <3>6
  <2>9. test.kind = "origin" => interesting_test_cases = 1
    BY <2>6 DEF ValidateOrigin
  <2> QED BY <2>7, <2>8, <2>9
<1> QED BY <1>1, ConformanceInit, ConformanceNext, PTL DEF Spec
=============================================================================
