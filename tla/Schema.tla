-------------------------------- MODULE Schema --------------------------------
(***************************************************************************)
(* What the server draws for a schema and how it writes it down             *)
(* (src/hegel/schema.py).                                                   *)
(*                                                                          *)
(* A strategy is the set of the values it can draw, and one Hypothesis      *)
(* refuses is the empty set.  Values carry a tag: <<"int", 3>>,             *)
(* <<"str", <<1, 2>>>>, <<"list", <<v, w>>>>.  A string is its code points, *)
(* bytes are their number, a float is a point of a grid, a NaN or an        *)
(* infinity.  An absent key and a null are both None.                       *)
(***************************************************************************)
EXTENDS Integers, Sequences, SequencesExt

CONSTANTS
  None,
  Reach,      \* how far an unbounded number goes: -Reach..Reach
  Longest,    \* the size a collection without a max_size grows to
  Category,   \* code point -> general category: the characters there are
  Encodable,  \* the code points the one codec can encode
  Levels      \* schemas with others inside, in order: a set of Levels holds
              \* those whose inner ones are in the sets before it

\* schema.get(key, default)
Get(schema, key, default) == IF key \in DOMAIN schema THEN schema[key] ELSE default

\* The schemas inside a schema.
Parts(s) ==
  CASE s.type = "list" -> {s.elements}
    [] s.type = "dict" -> {s.keys, s.values}
    [] s.type = "tuple" -> Range(s.elements)
    [] s.type = "one_of" -> Range(s.generators)
    [] OTHER -> {}

Below(n) == UNION {Levels[m] : m \in 1..(n - 1)}
Compounds == UNION Range(Levels)

-----------------------------------------------------------------------------
(* Values, and what is on the wire: the array and the tagged string are the *)
(* wire's, the list, the tuple and the numbers of two parts are Python's.   *)

Plain ==
  ({"int", "float", "bytes"} \X Int) \cup ({"bool"} \X BOOLEAN) \cup ({"inf"} \X {-1, 1})
    \cup {<<"nan">>, <<"null">>}
Atoms ==
  Plain \cup ({"str", "tag91"} \X Seq(Nat)) \cup ({"fraction"} \X Int \X Int)
    \cup ({"complex"} \X Plain \X Plain)

\* At most n deep; a schema of the next set draws values up to two deeper.
Deepest == 2 * Len(Levels) + 1
Nested[n \in 0..Deepest] ==
  IF n = 0 THEN Atoms ELSE Atoms \cup ({"list", "tuple", "array"} \X Seq(Nested[n - 1]))
Values == Nested[Deepest]

\* The values with no NaN in them: a NaN is equal to no other object, not even to
\* another NaN, and neither is what holds one.
NaNs == ({"complex"} \X {<<"nan">>} \X Plain) \cup ({"complex"} \X Plain \X {<<"nan">>}) \cup {<<"nan">>}
NaNFree[n \in 0..Deepest] ==
  IF n = 0 THEN Atoms \ NaNs ELSE (Atoms \ NaNs) \cup ({"list", "tuple", "array"} \X Seq(NaNFree[n - 1]))
HoldsNaN(v) == v \notin NaNFree[Deepest]

\* No two of them equal, as a set of Python's counts them.
Distinct(q) == \A i, j \in DOMAIN q : q[i] = q[j] => i = j \/ HoldsNaN(q[i])

\* A schema of the protocol: a bound is a number or none, a character to include
\* is a character, and a constant is what the wire carries as it is; not a NaN,
\* which would be one object however often it is drawn.
WellFormed(s) ==
  LET bound(key) == Get(s, key, None)
      charset(t) == Get(t, "include_characters", None) \in {None} \cup SUBSET DOMAIN Category
  IN /\ {bound("min_value"), bound("max_value")} \subseteq Int \cup {None}
     /\ Get(s, "min_size", 0) \in Nat /\ bound("max_size") \in Nat \cup {None}
     /\ bound("max_denominator") \in (Nat \ {0}) \cup {None}
     /\ Get(s, "min_magnitude", 0) \in Nat /\ bound("max_magnitude") \in Nat \cup {None}
     /\ {Get(s, key, FALSE) : key \in {"unique", "exclude_min", "exclude_max", "fullmatch"}} \subseteq BOOLEAN
     /\ charset(s) /\ (s.type = "regex" /\ bound("alphabet") # None => charset(s.alphabet))
     /\ s.type = "constant" => s.value \in Plain \ {<<"nan">>}
     /\ s.type = "tuple" => s.elements \in Seq(Parts(s))
     /\ s.type = "one_of" => s.generators \in Seq(Parts(s))

\* A schema that can be drawn for, with S the compound ones that can.
Known(s, S) == WellFormed(s) /\ (Parts(s) # {} => s \in S)

ASSUME SchemaAssumption ==
  /\ Reach \in Nat \ {0} /\ Longest \in Nat \ {0}
  /\ DOMAIN Category \subseteq Nat /\ Encodable \subseteq DOMAIN Category
  /\ None \notin Int \cup BOOLEAN
  /\ Levels \in Seq(SUBSET Compounds)
  /\ \A n \in DOMAIN Levels : \A s \in Levels[n] :
       WellFormed(s) /\ Parts(s) # {} /\ \A t \in Parts(s) : Known(t, Below(n))

-----------------------------------------------------------------------------
(* The strategies of Hypothesis.                                           *)

Within(i, lo, hi) == (lo = None \/ i >= lo) /\ (hi = None \/ i <= hi)
Span(lo, hi) == (IF lo = None THEN -Reach ELSE lo)..(IF hi = None THEN Reach ELSE hi)

integers(lo, hi) == {<<"int", i>> : i \in Span(lo, hi)}

\* A NaN is allowed where there is no bound, an infinity where one is missing,
\* unless the schema says no; it may not ask for more, nor exclude no bound.
floats(lo, hi, nan, infinity, exMin, exMax) ==
  LET refused == \/ exMin /\ lo = None
                 \/ exMax /\ hi = None
                 \/ nan = TRUE /\ {lo, hi} # {None}
                 \/ infinity = TRUE /\ None \notin {lo, hi}
      nans == IF nan # FALSE /\ {lo, hi} = {None} THEN {<<"nan">>} ELSE {}
      infinities == IF infinity = FALSE THEN {}
                    ELSE {<<"inf", side>> : side \in (IF lo = None THEN {-1} ELSE {})
                                                      \cup (IF hi = None THEN {1} ELSE {})}
      finite == Span(lo, hi) \ ((IF exMin THEN {lo} ELSE {}) \cup (IF exMax THEN {hi} ELSE {}))
  IN IF refused \/ finite = {} THEN {}
     ELSE {<<"float", x>> : x \in finite} \cup nans \cup infinities

\* In lowest terms; halves are the only proper fractions.
fractions(lo, hi, maxDenominator) ==
  {f \in {<<"fraction", n, d>> : n \in -Reach..Reach, d \in {1, 2}} :
     /\ f[3] = 2 => f[2] % 2 = 1 /\ maxDenominator # 1
     /\ (lo = None \/ f[2] >= lo * f[3]) /\ (hi = None \/ f[2] <= hi * f[3])}

\* The magnitude of re + im*i is within bounds: its square within theirs.
OfMagnitude(re, im, least, most) ==
  Within(re * re + im * im, least * least, IF most = None THEN None ELSE most * most)

\* As for floats, of each part; a NaN only where there is no bound at all.
complex(least, most, nan, infinity) ==
  LET refused == \/ infinity = TRUE /\ most # None
                 \/ nan = TRUE /\ <<least, most>> # <<0, None>>
      nans == IF nan # FALSE /\ <<least, most>> = <<0, None>> THEN {<<"nan">>} ELSE {}
      infinities == IF infinity # FALSE /\ most = None THEN {"inf"} \X {-1, 1} ELSE {}
      parts == ({"float"} \X Span(None, None)) \cup nans \cup infinities
  IN IF refused THEN {}
     ELSE {z \in {"complex"} \X parts \X parts :
             z[2][1] = "float" /\ z[3][1] = "float" => OfMagnitude(z[2][2], z[3][2], least, most)}

\* The characters allowed by every filter, and those always included; the
\* empty set where Hypothesis refuses the combination.
characters(s) ==
  LET least == Get(s, "min_codepoint", None)    most == Get(s, "max_codepoint", None)
      cats == Get(s, "categories", None)        notCats == Get(s, "exclude_categories", None)
      codec == Get(s, "codec", None)
      given == Get(s, "include_characters", None)  banned == Get(s, "exclude_characters", None)
      include == IF given = None THEN {} ELSE given
      exclude == IF banned = None THEN {} ELSE banned
      allowed == {c \in DOMAIN Category :
                    /\ Within(c, least, most)
                    /\ codec # None => c \in Encodable
                    /\ cats # None => Category[c] \in cats
                    /\ notCats # None => Category[c] \notin notCats}
      refused == \/ include \cap exclude # {}
                 \/ codec # None /\ ~(include \subseteq Encodable)
                 \/ cats # None /\ notCats # None
                 \/ given # None /\ <<least, most, cats, notCats, codec>> = [i \in 1..5 |-> None]
  IN IF refused THEN {} ELSE (allowed \cup include) \ exclude

Sizes(least, most) ==
  least..(IF most # None THEN most ELSE IF least > Longest THEN least ELSE Longest)
Collections(elements, least, most) ==
  IF elements = {} /\ most # 0 THEN {} ELSE UNION {[1..n -> elements] : n \in Sizes(least, most)}

text(alphabet, least, most) ==
  IF alphabet = {} THEN {} ELSE {<<"str", q>> : q \in Collections(alphabet, least, most)}
binary(least, most) == {<<"bytes", n>> : n \in Sizes(least, most)}
lists(elements, least, most, unique) ==
  {<<"list", q>> : q \in {e \in Collections(elements, least, most) : unique => Distinct(e)}}
\* A dictionary is drawn as its items, each key once.
dictionaries(keys, values, least, most) ==
  {<<"list", q>> : q \in {e \in Collections({<<"tuple", kv>> : kv \in keys \X values}, least, most) :
     Distinct([i \in DOMAIN e |-> e[i][2][1]])}}
tuples(parts) ==
  {<<"tuple", q>> : q \in {e \in [DOMAIN parts -> UNION Range(parts)] : \A i \in DOMAIN parts : e[i] \in parts[i]}}

\* A pattern is the set of the strings it matches; without fullmatch one of them
\* is somewhere in what is drawn.
Matches(q, pattern, fullmatch) ==
  IF fullmatch THEN q \in pattern
  ELSE \E i \in 1..(Len(q) + 1), j \in 0..Len(q) : SubSeq(q, i, j) \in pattern
from_regex(pattern, fullmatch, alphabet) ==
  {<<"str", q>> : q \in {e \in Collections(alphabet, 0, None) : Matches(e, pattern, fullmatch)}}

-----------------------------------------------------------------------------
(* schema.py.                                                              *)

Formats == {"email", "url", "domain", "ip_address", "date", "time", "datetime", "uuid"}

\* Emails, urls and domains are drawn as strings, the others as objects that are
\* then formatted; one string stands for all of a format's.
Formatted(object) == <<"str", <<Len(object)>>>>
formats(type) == IF type \in {"email", "url", "domain"} THEN {<<"str", <<1>>>>} ELSE {Formatted(<<type>>)}

\* One step of the recursion: drawn is what is drawn for the parts.
Strategy(s, drawn) ==
  LET bound(key) == Get(s, key, None)
      least == Get(s, "min_size", 0)
      most == Get(s, "max_size", None)
  IN CASE s.type = "constant" -> {s.value}
       [] s.type = "one_of" ->
            UNION {{<<"tuple", <<<<"int", i - 1>>, v>>>> : v \in drawn[s.generators[i]]} :
                     i \in DOMAIN s.generators}
       [] s.type = "boolean" ->
            {<<"bool", b>> : b \in CASE Get(s, "p", "half") = "zero" -> {FALSE}
                                     [] Get(s, "p", "half") = "one" -> {TRUE}
                                     [] OTHER -> BOOLEAN}
       [] s.type = "integer" -> integers(bound("min_value"), bound("max_value"))
       [] s.type = "float" ->
            floats(bound("min_value"), bound("max_value"), bound("allow_nan"), bound("allow_infinity"),
                   Get(s, "exclude_min", FALSE), Get(s, "exclude_max", FALSE))
       [] s.type = "fraction" ->
            fractions(bound("min_value"), bound("max_value"), bound("max_denominator"))
       [] s.type = "complex" ->
            complex(Get(s, "min_magnitude", 0), bound("max_magnitude"), bound("allow_nan"), bound("allow_infinity"))
       [] s.type = "string" -> text(characters(s), least, most)
       [] s.type = "binary" -> binary(least, most)
       [] s.type = "regex" ->
            from_regex(s.pattern, Get(s, "fullmatch", FALSE),
                       IF bound("alphabet") = None THEN DOMAIN Category ELSE characters(s.alphabet))
       [] s.type = "list" -> lists(drawn[s.elements], least, most, Get(s, "unique", FALSE))
       [] s.type = "dict" -> dictionaries(drawn[s.keys], drawn[s.values], least, most)
       [] s.type = "tuple" -> tuples([i \in DOMAIN s.elements |-> drawn[s.elements[i]]])
       [] s.type \in Formats -> formats(s.type)
       [] OTHER -> {}     \* ValueError

Drawn[s \in Compounds] ==
  Strategy(s, [t \in Parts(s) |-> IF Parts(t) = {} THEN Strategy(t, <<>>) ELSE Drawn[t]])
_from_schema(s) == IF Parts(s) = {} THEN Strategy(s, <<>>) ELSE Drawn[s]

Encode_Flat(v, encoded) ==  \* mutant: a tuple is passed on as it is
  CASE v[1] = "str" -> <<"tag91", v[2]>>
    [] v[1] = "list" -> <<"array", [i \in DOMAIN v[2] |-> encoded[v[2][i]]]>>
    [] v[1] = "tuple" -> <<"array", v[2]>>
    [] v[1] = "fraction" -> <<"array", <<<<"int", v[2]>>, <<"int", v[3]>>>>>>
    [] v[1] = "complex" -> <<"array", <<v[2], v[3]>>>>
    [] OTHER -> v

\* What a value is on the wire: strings under their own tag, lists and tuples
\* as arrays, a fraction and a complex number as the pair of their parts.
\* One step of the recursion: encoded is what the items are.
Encode(v, encoded) ==
  CASE v[1] = "str" -> <<"tag91", v[2]>>
    [] v[1] \in {"list", "tuple"} -> <<"array", [i \in DOMAIN v[2] |-> encoded[v[2][i]]]>>
    [] v[1] = "fraction" -> <<"array", <<<<"int", v[2]>>, <<"int", v[3]>>>>>>
    [] v[1] = "complex" -> <<"array", <<v[2], v[3]>>>>
    [] OTHER -> v

_encode_value[v \in Values] == Encode(v, _encode_value)

-----------------------------------------------------------------------------
(* What docs/library-api.md and tests/test_schema.py promise of the answer, *)
(* schema by schema; of a format, that it is a string.                     *)

\* The filters of a string's characters (docs/library-api.md:196-202).
Permitted(c, s) ==
  LET bound(key) == Get(s, key, None)
  IN /\ bound("exclude_characters") # None => c \notin s.exclude_characters
     /\ \/ bound("include_characters") # None /\ c \in s.include_characters
        \/ /\ Within(c, bound("min_codepoint"), bound("max_codepoint"))
           /\ bound("codec") # None => c \in Encodable
           /\ bound("categories") # None => Category[c] \in s.categories
           /\ bound("exclude_categories") # None => Category[c] \notin s.exclude_categories

\* One step of the recursion: fitting is what fits the parts.
Fit(w, s, fitting) ==
  LET bound(key) == Get(s, key, None)
      pair == w[1] = "array" /\ Len(w[2]) = 2
      ranged(i) == Within(i, bound("min_value"), bound("max_value"))
      sized(n) == Within(n, Get(s, "min_size", 0), bound("max_size"))
      free == bound("min_value") = None /\ bound("max_value") = None
      open(side) == bound(IF side = 1 THEN "max_value" ELSE "min_value") = None
      unbounded == Get(s, "min_magnitude", 0) = 0 /\ bound("max_magnitude") = None
  IN CASE s.type = "constant" -> w = s.value
       [] s.type = "one_of" ->
            /\ pair /\ w[2][1][1] = "int" /\ w[2][1][2] + 1 \in DOMAIN s.generators
            /\ w[2][2] \in fitting[s.generators[w[2][1][2] + 1]]
       [] s.type = "boolean" ->
            /\ w[1] = "bool"
            /\ Get(s, "p", "half") = "zero" => w[2] = FALSE
            /\ Get(s, "p", "half") = "one" => w[2] = TRUE
       [] s.type = "integer" -> w[1] = "int" /\ ranged(w[2])
       [] s.type = "float" ->
            \/ /\ w[1] = "float" /\ ranged(w[2])
               /\ Get(s, "exclude_min", FALSE) => w[2] # s.min_value
               /\ Get(s, "exclude_max", FALSE) => w[2] # s.max_value
            \/ w[1] = "nan" /\ bound("allow_nan") # FALSE /\ free
            \/ w[1] = "inf" /\ bound("allow_infinity") # FALSE /\ open(w[2])
       [] s.type = "fraction" ->
            /\ pair /\ \A i \in 1..2 : w[2][i][1] = "int"
            /\ w[2][2][2] > 0 /\ Within(w[2][2][2], None, bound("max_denominator"))
            /\ bound("min_value") # None => w[2][1][2] >= s.min_value * w[2][2][2]
            /\ bound("max_value") # None => w[2][1][2] <= s.max_value * w[2][2][2]
       [] s.type = "complex" ->
            /\ pair
            /\ \A i \in 1..2 :
                 \/ w[2][i][1] = "float"
                 \/ w[2][i][1] = "nan" /\ bound("allow_nan") # FALSE /\ unbounded
                 \/ w[2][i][1] = "inf" /\ bound("allow_infinity") # FALSE /\ bound("max_magnitude") = None
            /\ w[2][1][1] = "float" /\ w[2][2][1] = "float" =>
                 OfMagnitude(w[2][1][2], w[2][2][2], Get(s, "min_magnitude", 0), bound("max_magnitude"))
       [] s.type = "string" ->
            w[1] = "tag91" /\ sized(Len(w[2])) /\ \A i \in DOMAIN w[2] : Permitted(w[2][i], s)
       [] s.type = "regex" ->
            /\ w[1] = "tag91" /\ Matches(w[2], s.pattern, Get(s, "fullmatch", FALSE))
            /\ bound("alphabet") # None => \A i \in DOMAIN w[2] : Permitted(w[2][i], s.alphabet)
       [] s.type \in Formats -> w[1] = "tag91"
       [] s.type = "binary" -> w[1] = "bytes" /\ sized(w[2])
       [] s.type = "list" ->
            /\ w[1] = "array" /\ sized(Len(w[2])) /\ \A i \in DOMAIN w[2] : w[2][i] \in fitting[s.elements]
            /\ Get(s, "unique", FALSE) => Distinct(w[2])
       [] s.type = "dict" ->
            /\ w[1] = "array" /\ sized(Len(w[2]))
            /\ \A i \in DOMAIN w[2] :
                 /\ w[2][i][1] = "array" /\ Len(w[2][i][2]) = 2
                 /\ w[2][i][2][1] \in fitting[s.keys] /\ w[2][i][2][2] \in fitting[s.values]
            /\ Distinct([i \in DOMAIN w[2] |-> w[2][i][2][1]])
       [] s.type = "tuple" ->
            /\ w[1] = "array" /\ Len(w[2]) = Len(s.elements)
            /\ \A i \in DOMAIN w[2] : w[2][i] \in fitting[s.elements[i]]
       [] OTHER -> FALSE

ThatFit(s, fitting) == {w \in Values : Fit(w, s, fitting)}
Fitting[s \in Compounds] ==
  ThatFit(s, [t \in Parts(s) |-> IF Parts(t) = {} THEN ThatFit(t, <<>>) ELSE Fitting[t]])
Fits(w, s) == w \in IF Parts(s) = {} THEN ThatFit(s, <<>>) ELSE Fitting[s]
=============================================================================
