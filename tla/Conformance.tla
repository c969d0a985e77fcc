----------------------------- MODULE Conformance -----------------------------
(***************************************************************************)
(* The conformance suite (src/hegel/conformance.py): a ConformanceTest draws *)
(* parameters, runs a library's binary with them, pairs the lines the binary *)
(* wrote with those the server wrote for the same test cases, and judges.   *)
(*                                                                          *)
(* The library is the suite's environment.  It draws what the server draws   *)
(* for the schema of the parameters (Schema.tla), or has one flaw: it        *)
(* ignores a parameter, or does one of the things the suite is to catch.     *)
(***************************************************************************)
EXTENDS Schema, FiniteSetsExt

CONSTANTS
  Kinds,         \* the conformance tests of an instance
  Asked,         \* schemas a client asks for outside any test
  Cases,         \* kind -> the test cases of one run of the binary
  Native,        \* the integers of the library's language: -Native..Native
  LargestSize,   \* of a list, a text or a bytes; also of the options
  Points,        \* float bounds drawn; no two are neighbouring floats
  Codepoints,    \* code point bounds drawn
  Spacing, Spread, Width   \* of the ranges of OneOf: 1000, 100 and 100

AllKinds == {"boolean", "integer", "float", "text", "binary", "list", "sampled_from",
             "one_of", "dict", "origin", "error"}
ASSUME ConformanceAssumption ==
  /\ Kinds \subseteq AllKinds /\ DOMAIN Cases = Kinds
  /\ \A k \in Kinds : Cases[k] \in Nat \ {0}
  /\ Native \in 1..(Reach - 1) /\ LargestSize \in Nat \ {0}
  /\ Points \subseteq Int /\ \A x \in Points : -Reach < x /\ x < Reach /\ x + 1 \notin Points
  /\ Spacing \in Nat /\ Spread \in Nat /\ Width \in Nat \ {0}

\* There are numbers, and characters, for as many different ones as are asked for.
ASSUME RoomAssumption ==
  /\ LargestSize <= 2 * Reach + 1
  /\ IsFiniteSet(DOMAIN Category) /\ LargestSize <= Cardinality(DOMAIN Category)

\* None is not the name of a mode, and nothing that a binary writes.
ASSUME NoneAssumption ==
  LET ends == Seq(Int \cup {None})
  IN None \notin {"filter_even"} \cup Plain \cup Seq(Int) \cup [size : Nat, values : ends, keys : ends]

VARIABLES
  phase,     \* "start", "answered", "running", "judged"
  question,  \* a schema asked for, and
  answer,    \* the answer
  test,      \* the test run: [kind, mode, params, skip]
  flaw,      \* what is wrong with the library
  lines,     \* the metrics file: one metric for a test case, None for no value
  served,    \* the server's metrics file: [calls, status] for a test case
  verdict

vars == <<phase, question, answer, test, flaw, lines, served, verdict>>

-----------------------------------------------------------------------------
(* Parameters: the sets the params_strategy of each test draws from.       *)

\* Two groups of parameters as one.
Joined(p, q) == [key \in DOMAIN p \cup DOMAIN q |-> IF key \in DOMAIN p THEN p[key] ELSE q[key]]

\* From None where it is drawn at will.
Maybe(S) == S \cup {None}

_integer_params_strategy(lo, hi) ==
  UNION {{[min_value |-> a, max_value |-> b] : b \in IF hi = None THEN {None} ELSE a..hi} :
           a \in IF lo = None THEN {None} ELSE lo..hi}
NativeOrNot == _integer_params_strategy(-Native, Native) \cup _integer_params_strategy(None, None)

\* min_size drawn or 0, and max_size from it up, or none.
SizeParams ==
  UNION {{[min_size |-> a, max_size |-> b] : b \in Maybe(a..LargestSize)} : a \in 0..LargestSize}

FloatParams ==
  {p \in [min_value : Maybe(Points), max_value : Maybe(Points), exclude_min : BOOLEAN,
          exclude_max : BOOLEAN, allow_nan : {None, FALSE, TRUE}, allow_infinity : {None, FALSE, TRUE}] :
     LET bounded == {p.min_value, p.max_value} # {None}
         closed == None \notin {p.min_value, p.max_value}
     IN /\ closed => p.min_value <= p.max_value
        /\ p.exclude_min => p.min_value # None
        /\ p.exclude_max => p.max_value # None
        /\ p.min_value = p.max_value => ~p.exclude_min /\ ~p.exclude_max
        /\ bounded => p.allow_nan # TRUE
        /\ closed => p.allow_infinity # TRUE}

\* What st.characters(**params).validate() lets through; a library without
\* surrogates never gets them.
_character_params(noSurrogates) ==
  LET filters == {p \in [min_codepoint : Maybe(Codepoints), max_codepoint : Maybe(Codepoints),
                         codec : Maybe({"codec"}),
                         categories : Maybe(SUBSET Range(Category)), exclude_categories : Maybe(SUBSET Range(Category)),
                         include_characters : Maybe(SUBSET DOMAIN Category),
                         exclude_characters : Maybe(SUBSET DOMAIN Category)] :
                    /\ p.max_codepoint = None \/ p.min_codepoint = None \/ p.min_codepoint <= p.max_codepoint
                    /\ p.categories = None \/ p.exclude_categories = None}
      without(p) == IF ~noSurrogates THEN p
                    ELSE IF p.categories # None THEN [p EXCEPT !.categories = @ \ {"Cs"}]
                    ELSE [p EXCEPT !.exclude_categories = (IF @ = None THEN {} ELSE @) \cup {"Cs"}]
  IN {p \in {without(q) : q \in filters} : characters(p) # {}}
text_params_strategy == {Joined(s, c) : s \in SizeParams, c \in UNION {_character_params(b) : b \in BOOLEAN}}

\* With unique, the range must hold max_size distinct integers.
ListParams ==
  {Joined(s, Joined(i, [unique |-> u])) : s \in SizeParams, i \in NativeOrNot, u \in BOOLEAN}
RoomForUnique(p) ==
  p.unique /\ p.min_value # None /\ p.max_value # None =>
    p.max_value - p.min_value + 1 >= IF p.max_size # None THEN p.max_size ELSE p.min_size

SampledParams ==
  {[options |-> o] : o \in {q \in SeqOf(-Native..Native, LargestSize) : q # <<>> /\ IsInjective(q)}}

\* Branch i has its range in i * Spacing + (0..(Spread + Width)).
OneOfParams ==
  LET offsets == (0..Spread) \X (1..Width)
      ranges(q) == [i \in DOMAIN q |-> [min_value |-> (i - 1) * Spacing + q[i][1],
                                        max_value |-> (i - 1) * Spacing + q[i][1] + q[i][2]]]
  IN {[ranges |-> ranges(q)] : q \in UNION {[1..n -> offsets] : n \in 2..3}}

\* The lower key bound leaves room for max_size keys below Native.
KeyBounds(maxSize) ==
  UNION {{[min_key |-> a, max_key |-> b] : b \in (a + maxSize - 1)..Native} :
           a \in 0..Max({0, Native - maxSize + 1})}
DictParams ==
  UNION {{Joined(s, Joined([key_type |-> t], Joined(k, v))) :
            t \in {"string", "integer"}, k \in KeyBounds(s.max_size), v \in _integer_params_strategy(0, Native)} :
           s \in {q \in SizeParams : q.max_size # None}}

params_strategy(kind) ==
  CASE kind = "integer" -> NativeOrNot
    [] kind = "float" -> FloatParams
    [] kind = "text" -> text_params_strategy
    [] kind = "binary" -> SizeParams
    [] kind = "list" -> {p \in ListParams : RoomForUnique(p)}
    [] kind = "sampled_from" -> SampledParams
    [] kind = "one_of" -> OneOfParams
    [] kind = "dict" -> DictParams
    [] OTHER -> {[none |-> None]}

modes(kind) ==
  CASE kind \in {"list", "dict"} -> {"basic", "non_basic"}
    [] kind = "one_of" -> {"basic", "map_negate", "filter_even"}
    [] kind = "origin" -> {"value_in_error_message", "multiple_call_sites"}
    [] OTHER -> {None}

-----------------------------------------------------------------------------
(* The library under test.                                                 *)

SchemaOf(kind, p) ==
  LET number(lo, hi) == [type |-> "integer", min_value |-> lo, max_value |-> hi]
  IN CASE kind \in {"integer", "origin"} -> number(Get(p, "min_value", 0), Get(p, "max_value", 2))
       [] kind = "float" -> Joined(p, [type |-> "float"])
       [] kind = "text" -> Joined(p, [type |-> "string"])
       [] kind = "binary" -> Joined(p, [type |-> "binary"])
       [] kind = "list" ->
            [type |-> "list", elements |-> number(p.min_value, p.max_value), min_size |-> p.min_size,
             max_size |-> p.max_size, unique |-> p.unique]
       [] kind = "sampled_from" -> number(0, Len(p.options) - 1)
       [] kind = "one_of" ->
            [type |-> "one_of",
             generators |-> [i \in DOMAIN p.ranges |-> number(p.ranges[i].min_value, p.ranges[i].max_value)]]
       [] kind = "dict" ->
            [type |-> "dict", values |-> number(p.min_value, p.max_value),
             keys |-> IF p.key_type = "integer" THEN number(p.min_key, p.max_key)
                      ELSE [type |-> "string", max_size |-> 1],
             min_size |-> p.min_size, max_size |-> p.max_size]
       [] OTHER -> [type |-> "boolean"]

Answers(schema) == {_encode_value[v] : v \in _from_schema(schema)}

\* What the binary writes of an answer in its metrics.
Metric(kind, mode, p, w) ==
  CASE kind = "text" -> w[2]
    [] kind = "list" -> [i \in DOMAIN w[2] |-> w[2][i][2]]
    [] kind = "sampled_from" -> p.options[w[2] + 1]
    [] kind = "one_of" -> IF mode = "map_negate" THEN -w[2][2][2] ELSE w[2][2][2]
    [] kind = "dict" ->
         LET column(k) == {w[2][i][2][k][2] : i \in DOMAIN w[2]}
             ends(S) == IF S = {} THEN <<None, None>> ELSE <<Min(S), Max(S)>>
         IN [size |-> Len(w[2]), values |-> ends(column(2)),
             keys |-> IF p.key_type = "integer" THEN ends(column(1)) ELSE <<None, None>>]
    [] OTHER -> w

Metrics(kind, mode, p) ==
  {m \in {Metric(kind, mode, p, w) : w \in Answers(SchemaOf(kind, p))} : mode = "filter_even" => m % 2 = 0}

\* A library that drops a parameter sends the default.
Ignoring(p, f) ==
  [p EXCEPT ![f] = IF f = "min_size" THEN 0
                   ELSE IF f \in {"unique", "exclude_min", "exclude_max"} THEN FALSE ELSE None]
Droppable == {"min_value", "max_value", "min_size", "max_size", "unique", "exclude_min", "exclude_max",
              "allow_nan", "allow_infinity", "min_codepoint", "max_codepoint", "codec", "categories",
              "exclude_categories", "include_characters", "exclude_characters", "min_key", "max_key"}

\* The compound schemas a right library and a flawed one send.
Sent ==
  UNION {UNION {{SchemaOf(k, q) : q \in {p} \cup {Ignoring(p, f) : f \in Droppable \cap DOMAIN p}} :
                  p \in params_strategy(k)} : k \in Kinds \cap {"list", "one_of", "dict"}}
ASSUME SentAssumption ==
  Sent \subseteq Compounds /\ \A s \in Asked : Known(s, Compounds)

Flaws(t) ==
  {"none", "exit", "unlined"} \cup {f \in Droppable \cap DOMAIN t.params : Ignoring(t.params, f) # t.params}
    \cup CASE t.kind = "boolean" -> {"numbers"}
           [] t.kind = "one_of" -> {"path"}
           [] t.kind = "origin" -> {"message", "trace"}
           [] OTHER -> {}

Written ==
  CASE flaw = "numbers" -> {<<"int", 0>>, <<"int", 1>>}
    [] flaw \in Droppable -> Metrics(test.kind, test.mode, Ignoring(test.params, flaw))
    [] OTHER -> Metrics(test.kind, test.mode, test.params)

\* The generate commands of a test case: one for a schema, an index and up to
\* three attempts where the branches are filtered.
Calls == IF (test.mode = "filter_even") # (flaw = "path") THEN 2..4 ELSE {1}

\* A test fails above 0; its origin is where, or says too much.
Origin(v) == CASE flaw = "message" /\ test.mode = "value_in_error_message" -> v
               [] flaw = "trace" /\ test.mode = "multiple_call_sites" -> v % 2
               [] OTHER -> 0
interesting_test_cases == Cardinality({Origin(m[2]) : m \in {x \in Range(lines) : x # None /\ x[2] > 0}})

-----------------------------------------------------------------------------
(* validate: what each test asserts of the paired metrics.                  *)

ValidateBoolean(m) == m[1] = "bool" \/ m \in {<<"int", 0>>, <<"int", 1>>}     \* in (True, False)
ValidateInteger(m, p) == Within(m[2], p.min_value, p.max_value)
ValidateBinary(m, p) == Within(m[2], p.min_size, p.max_size)
ValidateSampledFrom(m, p) == m \in Range(p.options)
ValidateOrigin == interesting_test_cases = 1

ValidateFloat(ms, p) ==
  LET nan == IF p.allow_nan = None THEN p.min_value = None /\ p.max_value = None ELSE p.allow_nan
      infinity == IF p.allow_infinity = None THEN p.min_value = None \/ p.max_value = None ELSE p.allow_infinity
  IN /\ nan => \E i \in DOMAIN ms : ms[i].value[1] = "nan"
     /\ infinity => \E i \in DOMAIN ms : ms[i].value[1] = "inf"
     /\ \A i \in DOMAIN ms : ms[i].value[1] = "float" =>
          /\ Within(ms[i].value[2], p.min_value, p.max_value)
          /\ p.exclude_min => ms[i].value[2] # p.min_value
          /\ p.exclude_max => ms[i].value[2] # p.max_value

\* An empty list of categories is as good as none.
ValidateText(m, p) ==
  /\ Within(Len(m), p.min_size, p.max_size)
  /\ \A c \in Range(m) \ (IF p.include_characters = None THEN {} ELSE p.include_characters) :
       /\ Within(c, p.min_codepoint, p.max_codepoint)
       /\ p.codec # None => c \in Encodable
       /\ p.categories \notin {None, {}} => Category[c] \in p.categories
       /\ p.exclude_categories # None => Category[c] \notin p.exclude_categories
       /\ p.exclude_characters # None => c \notin p.exclude_characters

ValidateList(m, p) ==
  /\ Within(Len(m), p.min_size, p.max_size)
  /\ m # <<>> => Within(Min(Range(m)), p.min_value, None) /\ Within(Max(Range(m)), None, p.max_value)
  /\ p.unique => Cardinality(Range(m)) = Len(m)

\* The branch a value came from, 0 for none.
BranchOf(v, mode, ranges) ==
  LET hit == {i \in DOMAIN ranges : LET x == IF mode = "map_negate" THEN -v ELSE v
                                    IN Within(x, ranges[i].min_value, ranges[i].max_value)}
  IN IF hit = {} THEN 0 ELSE Min(hit)
BranchesUsed(ms, mode, ranges) == {BranchOf(ms[i].value, mode, ranges) : i \in DOMAIN ms}

ValidateOneOf(ms, mode, p) ==
  /\ \A i \in DOMAIN ms :
       /\ ms[i].calls # None => IF mode = "filter_even" THEN ms[i].calls >= 2 ELSE ms[i].calls = 1
       /\ mode = "filter_even" => ms[i].value % 2 = 0
  /\ 0 \notin BranchesUsed(ms, mode, p.ranges)
  /\ Cardinality(BranchesUsed(ms, mode, p.ranges)) >= 2

ValidateDict_Least(m, p) ==  \* mutant: compares the least value with both bounds
  /\ p.min_size <= m.size /\ m.size <= p.max_size
  /\ m.size > 0 =>
       /\ p.min_value <= m.values[1] /\ m.values[1] <= p.max_value
       /\ p.key_type = "integer" => p.min_key <= m.keys[1] /\ m.keys[2] <= p.max_key

ValidateDict(m, p) ==
  /\ p.min_size <= m.size /\ m.size <= p.max_size
  /\ m.size > 0 =>
       /\ p.min_value <= m.values[1] /\ m.values[2] <= p.max_value
       /\ p.key_type = "integer" => p.min_key <= m.keys[1] /\ m.keys[2] <= p.max_key

\* A line without the metric looked up is a KeyError.
validate(ms) ==
  LET p == test.params
      metrics == {ms[i].value : i \in DOMAIN ms}
  IN /\ test.kind \notin {"error", "origin"} => None \notin metrics
     /\ CASE test.kind = "error" -> TRUE
          [] test.kind = "origin" -> ValidateOrigin
          [] test.kind = "boolean" -> \A m \in metrics : ValidateBoolean(m)
          [] test.kind = "integer" -> \A m \in metrics : ValidateInteger(m, p)
          [] test.kind = "float" -> ValidateFloat(ms, p)
          [] test.kind = "text" -> \A m \in metrics : ValidateText(m, p)
          [] test.kind = "binary" -> \A m \in metrics : ValidateBinary(m, p)
          [] test.kind = "list" -> \A m \in metrics : ValidateList(m, p)
          [] test.kind = "sampled_from" -> \A m \in metrics : ValidateSampledFrom(m, p)
          [] test.kind = "one_of" -> ValidateOneOf(ms, test.mode, p)
          [] test.kind = "dict" -> \A m \in metrics : ValidateDict(m, p)

-----------------------------------------------------------------------------
(* ConformanceTest.run.                                                    *)

Discarded == {"INVALID", "OVERRUN"}

Kept == {i \in DOMAIN lines : served[i].status \notin Discarded}

Paired_Early ==  \* mutant: the server's discarded lines are dropped before the pairing
  [i \in Kept |-> [value |-> lines[Cardinality({j \in Kept : j <= i})], calls |-> served[i].calls]]

\* The client's and the server's line of each test case that was not discarded.
Paired == [i \in Kept |-> [value |-> lines[i], calls |-> served[i].calls]]
Unpaired == [i \in DOMAIN lines |-> [value |-> lines[i], calls |-> None]]

Verdict(exitCode) ==
  CASE exitCode # 0 -> "binary failed"
    [] exitCode = 0 /\ served # <<>> /\ Len(served) # Len(lines) -> "unequal"
    [] exitCode = 0 /\ served = <<>> /\ ~test.skip -> "no server metrics"
    [] OTHER -> IF validate(IF served = <<>> THEN Unpaired ELSE Paired) THEN "passed" ELSE "failed"

-----------------------------------------------------------------------------
(* Actions.                                                                *)

Init ==
  /\ phase = "start" /\ question = None /\ answer = None /\ test = None /\ flaw = None
  /\ lines = <<>> /\ served = <<>> /\ verdict = None

\* handle_client_request: a generate command.
Generate ==
  /\ phase = "start" /\ phase' = "answered"
  /\ \E s \in Asked : question' = s /\ answer' \in Answers(s)
  /\ UNCHANGED <<test, flaw, lines, served, verdict>>

\* run_conformance_tests: a test in one of its modes, with parameters drawn for
\* it.  skip_server_metrics is for a library that does without the server.
RunTest ==
  /\ phase = "start" /\ phase' = "running"
  /\ \E kind \in Kinds, skip \in BOOLEAN :
       \E mode \in modes(kind), p \in params_strategy(kind) :
         /\ kind = "origin" => ~skip
         /\ test' = [kind |-> kind, mode |-> mode, params |-> p, skip |-> skip]
  /\ flaw' \in Flaws(test')
  /\ UNCHANGED <<question, answer, lines, served, verdict>>

\* The test server keeps no metrics.
Metered == ~test.skip /\ test.kind # "error"

\* A test case of the binary's run ends; the server writes its line whatever
\* became of it.
TestCase(status) ==
  /\ phase = "running" /\ test.kind # "error"
  /\ Max({Len(lines), Len(served)}) < Cases[test.kind]
  /\ IF status \in Discarded
     THEN Metered /\ lines' = IF flaw = "unlined" THEN lines ELSE Append(lines, None)
     ELSE \E m \in Written : lines' = Append(lines, m)
  /\ IF Metered THEN \E n \in Calls : served' = Append(served, [calls |-> n, status |-> status])
     ELSE UNCHANGED served
  /\ UNCHANGED <<phase, question, answer, test, flaw, verdict>>

\* The binary exits: in error if it has to ask for what cannot be drawn, and
\* maybe if a parameter is none of its language's integers.
Foreign == test.kind = "dict" /\ test.params.min_key > Native
Judge ==
  /\ phase = "running" /\ phase' = "judged"
  /\ Written # {} /\ test.kind # "error" => lines # <<>> \/ served # <<>>
  /\ \E code \in IF flaw = "exit" \/ Written = {} THEN {1} ELSE IF Foreign THEN {0, 1} ELSE {0} :
       verdict' = Verdict(code)
  /\ UNCHANGED <<question, answer, test, flaw, lines, served>>

Next ==
  \/ Generate \/ RunTest \/ Judge
  \/ \E status \in {"VALID"} \cup Discarded : TestCase(status)

Spec == Init /\ [][Next]_vars

-----------------------------------------------------------------------------
(* Properties.                                                             *)

\* What a client is sent for a schema is what the documentation of that schema
\* says: of its type, within its bounds and magnitudes, of permitted characters
\* and as its pattern has it, nothing twice where nothing may be, strings under the
\* string tag at any depth, a dict as pairs, a one_of as index and value; of a
\* number's width and a format's text nothing is said (schema.py:29-151).
AnswerFits == phase = "answered" => Fits(answer, question)

\* Enough test cases to see what must be seen of the library.
Counted == {i \in DOMAIN lines : served = <<>> \/ served[i].status \notin Discarded}
Shown ==
  LET some(tag) == \E i \in Counted : lines[i][1] = tag
      p == test.params
  IN CASE test.kind = "float" ->
            /\ <<"nan">> \in Written => some("nan")
            /\ (\E m \in Written : m[1] = "inf") => some("inf")
       [] test.kind = "one_of" ->
            Cardinality({BranchOf(lines[i], test.mode, p.ranges) : i \in Counted}) >= 2
       [] test.kind = "origin" -> interesting_test_cases > 0
       [] OTHER -> TRUE

\* No false alarm: a library that draws what the server draws for the parameters
\* passes, whichever were drawn and whichever test cases were discarded
\* (conformance.py:183-273 and every validate), but for two cases: the error tests
\* unless told to skip the metrics their server does not keep (:255), and a dict
\* of no entries, whose least key may be past the greatest allowed (:830).
RightLibraryPasses ==
  phase = "judged" /\ flaw = "none" /\ Shown =>
    \/ verdict = "passed"
    \/ test.kind = "error" /\ ~test.skip
    \/ Foreign /\ test.params.max_size = 0

\* What a validator does not look at: a number for a boolean, since 0 and 1 are in
\* (True, False) (:347); a NaN or an infinity that was not allowed (:501); the
\* categories where none is left (:558).
Unseen(m) ==
  \/ test.kind = "boolean" /\ m[1] = "int"
  \/ test.kind = "float" /\ m[1] \in {"nan", "inf"}
  \/ test.kind = "text" /\ test.params.categories = {}

\* No flaw passes: of a library that passes, every test case that counts is one
\* the server could have drawn for the parameters, by the promised number of
\* requests, and failures in one place are one failure (conformance.py:341-929).
PassMeansLegal ==
  phase = "judged" /\ verdict = "passed" =>
    /\ \A i \in Counted : test.kind # "origin" =>
         \/ lines[i] \in Metrics(test.kind, test.mode, test.params)
         \/ Unseen(lines[i])
    /\ test.kind = "one_of" /\ ~test.skip =>
         \A i \in Counted : served[i].calls = 1 <=> test.mode # "filter_even"
    /\ test.kind = "origin" => interesting_test_cases = 1
=============================================================================
