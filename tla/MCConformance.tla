---------------------------- MODULE MCConformance ----------------------------
(* An instance of Conformance for TLC.                                      *)
EXTENDS Conformance

\* Two characters: a letter the codec has, and a surrogate.
MCCategory == <<"Lu", "Cs">>
MCPoints == {-1, 1}
MCCases == [k \in Kinds |-> IF k \in {"boolean", "integer", "float", "one_of", "origin"} THEN 2 ELSE 1]

Num(lo, hi) == [type |-> "integer", min_value |-> lo, max_value |-> hi]
Str(n) == [type |-> "string", min_size |-> 1, max_size |-> n]
Flag == [type |-> "boolean"]

\* A schema of every type, and some nested.
MCAsked ==
  { [type |-> "constant", value |-> <<"null">>],
    Flag, [type |-> "boolean", p |-> "zero"], [type |-> "boolean", p |-> "one"],
    Num(None, 1), [type |-> "integer"],
    [type |-> "float", exclude_max |-> TRUE, max_value |-> 2, min_value |-> None],
    [type |-> "fraction", min_value |-> 0, max_value |-> 1],
    [type |-> "fraction", max_denominator |-> 1],
    [type |-> "complex", min_magnitude |-> 0, max_magnitude |-> 1], [type |-> "complex"],
    [type |-> "complex", min_magnitude |-> 2],
    Str(2), [type |-> "string", categories |-> {"Lu"}], [type |-> "string", exclude_categories |-> {"Cs"}],
    [type |-> "string", codec |-> "codec"], [type |-> "string", min_codepoint |-> 2],
    [type |-> "string", max_codepoint |-> 1], [type |-> "string", exclude_characters |-> {1}],
    [type |-> "string", max_codepoint |-> 0, include_characters |-> {2}],
    [type |-> "binary", max_size |-> 2],
    [type |-> "regex", pattern |-> {<<1>>}], [type |-> "regex", pattern |-> {<<1>>}, fullmatch |-> TRUE],
    [type |-> "regex", pattern |-> {<<1>>}, alphabet |-> [codec |-> "codec"]],
    [type |-> "list", elements |-> Str(1), unique |-> TRUE, min_size |-> 1],
    [type |-> "list", elements |-> [type |-> "float"], unique |-> TRUE, min_size |-> 2],
    [type |-> "list", elements |-> [type |-> "fraction", max_denominator |-> 1], max_size |-> 1],
    [type |-> "dict", keys |-> Str(1), values |-> Flag, min_size |-> 1],
    [type |-> "dict", keys |-> [type |-> "complex", max_magnitude |-> 1], values |-> [type |-> "float"], max_size |-> 1],
    [type |-> "dict", keys |-> [type |-> "float"], values |-> [type |-> "constant", value |-> <<"null">>]],
    [type |-> "tuple", elements |-> <<Str(1), Flag>>],
    [type |-> "tuple", elements |-> << >>],
    [type |-> "one_of", generators |-> <<Flag, Str(1), [type |-> "tuple", elements |-> <<Num(0, 1), Str(1)>>]>>],
    [type |-> "list", elements |-> [type |-> "one_of", generators |-> <<[type |-> "uuid"], [type |-> "email"]>>]]
  } \cup {[type |-> f] : f \in Formats}

\* The compound ones, with those the libraries send.
MCLevels ==
  LET all == {s \in Sent \cup MCAsked \cup UNION {Parts(s) : s \in MCAsked} : Parts(s) # {}}
      low == {s \in all : \A t \in Parts(s) : Parts(t) = {}}
  IN <<low, all \ low>>
=============================================================================
