-------------------------------- MODULE Json --------------------------------
(***************************************************************************)
(* JsonParser (json_parser.cpp) driving JsonDomBuilder, and JsonWriter.    *)
(* The text is read lazily, one lexical unit a step: any text up to        *)
(* MaxUnits units.  The recursion of parse_value is the builder's stack    *)
(* and the place where the parser stands in the container on top.          *)
(* Blanks and comments are units that change nothing and are left out.     *)
(***************************************************************************)
EXTENDS Naturals, Sequences, SequencesExt

CONSTANTS MaxUnits,     \* bound: the length of the text
          MaxDepth      \* JsonParserOptions::max_depth

\* Scalars: an integer, one that overflows i64, a float, a float out of range.
Scalars == {"int", "big", "float", "huge", "null"}
\* Inside a string: raw characters of one, two and four bytes and a control
\* character, the simple escapes, \u of a BMP character, of either surrogate.
StringUnits == {"a", "b", "s", "ctl", "\\q", "\\c", "\\ub", "\\uhi", "\\ulo", "\\bad"}

VARIABLES
  trailing,             \* JsonParserOptions::allow_trailing_comma
  read,                 \* the units consumed
  jplace,               \* where the parser stands
  stack_,               \* JsonDomBuilder::stack_
  lexeme,               \* parse_string_into: the characters decoded so far
  high,                 \* ... the last unit was a high surrogate
  root_                 \* JsonDomBuilder::root_, <<>> before the root value

vars == <<trailing, read, jplace, stack_, lexeme, high, root_>>

Init ==
  /\ trailing \in BOOLEAN
  /\ read = <<>> /\ jplace = "value" /\ stack_ = <<>>
  /\ lexeme = <<>> /\ high = FALSE /\ root_ = <<>>

Top == stack_[Len(stack_)]
Consume(unit) == Len(read) < MaxUnits /\ read' = Append(read, unit)
InArray == stack_ # <<>> /\ Top.array
\* Where parse_value is called: at the root, in an array, after a colon.
AtValue == jplace = "value" \/ (jplace \in {"first", "comma"} /\ InArray)
AtKey == jplace \in {"first", "comma"} /\ ~InArray

fail(unit) ==
  /\ Consume(unit) /\ jplace' = "failed"
  /\ UNCHANGED <<trailing, stack_, lexeme, high, root_>>

\* JsonDomBuilder::emit_value; what follows the root is the parser's affair.
emit_value(v, stack) ==
  /\ jplace' = "after"
  /\ IF stack = <<>>
     THEN root_' = <<v>> /\ stack_' = stack
     ELSE LET frame == stack[Len(stack)]
              item  == IF frame.array THEN v ELSE [key |-> frame.key, value |-> v]
          IN  /\ stack_' = [stack EXCEPT ![Len(stack)].items = Append(@, item)]
              /\ UNCHANGED root_
-----------------------------------------------------------------------------
\* parse_literal and parse_number: an integer that overflows is a float.
parse_number(unit) ==
  /\ AtValue /\ Consume(unit) /\ unit # "huge"
  /\ emit_value([type |-> "scalar", of |-> IF unit = "big" THEN "float" ELSE unit], stack_)
  /\ UNCHANGED <<trailing, lexeme, high>>

parse_open(unit) ==
  /\ AtValue /\ Len(stack_) < MaxDepth /\ Consume(unit)
  /\ stack_' = Append(stack_, [array |-> unit = "[", items |-> <<>>, key |-> <<>>])
  /\ jplace' = "first"
  /\ UNCHANGED <<trailing, lexeme, high, root_>>

\* Mutant: a close bracket is accepted after a comma whatever the options say.
ClosesAnywhere(unit) ==
  stack_ # <<>> /\ Top.array = (unit = "]") /\ jplace \in {"first", "after", "comma"}
\* parse_array, parse_object: where a close bracket ends the container.
Closes(unit) ==
  /\ stack_ # <<>> /\ Top.array = (unit = "]")
  /\ jplace \in {"first", "after"} \/ (jplace = "comma" /\ trailing)

parse_close(unit) ==
  /\ Closes(unit) /\ Consume(unit)
  /\ emit_value([type |-> IF Top.array THEN "array" ELSE "object", of |-> Top.items],
                Front(stack_))
  /\ UNCHANGED <<trailing, lexeme, high>>

parse_comma ==
  /\ jplace = "after" /\ stack_ # <<>> /\ Consume(",")
  /\ jplace' = "comma"
  /\ UNCHANGED <<trailing, stack_, lexeme, high, root_>>

parse_colon ==
  /\ jplace = "colon" /\ Consume(":")
  /\ jplace' = "value"
  /\ UNCHANGED <<trailing, stack_, lexeme, high, root_>>

open_quote ==
  /\ AtValue \/ AtKey
  /\ Consume("\"")
  /\ jplace' = IF AtKey THEN "key" ELSE "string"
  /\ lexeme' = <<>> /\ high' = FALSE
  /\ UNCHANGED <<trailing, stack_, root_>>

\* What a unit of a string stands for; "none" ends the parse.
Decoded(unit) ==
  CASE unit \in {"a", "b", "s"} /\ ~high -> unit
    [] unit = "\\q" /\ ~high   -> "q"
    [] unit = "\\c" /\ ~high   -> "c"
    [] unit = "\\ub" /\ ~high  -> "b"
    [] unit = "\\ulo" /\ high  -> "s"
    [] OTHER -> "none"

\* parse_string_into: a surrogate is half a character, escaped as a pair.
in_string(unit) ==
  /\ jplace \in {"string", "key"} /\ Consume(unit)
  /\ \/ unit = "\\uhi" /\ ~high /\ high' = TRUE /\ UNCHANGED lexeme
     \/ /\ Decoded(unit) # "none"
        /\ lexeme' = Append(lexeme, Decoded(unit)) /\ high' = FALSE
  /\ UNCHANGED <<trailing, jplace, stack_, root_>>

close_quote ==
  /\ jplace \in {"string", "key"} /\ ~high /\ Consume("\"")
  /\ IF jplace = "string"
     THEN emit_value([type |-> "string", of |-> lexeme], stack_)
     ELSE /\ stack_' = [stack_ EXCEPT ![Len(stack_)].key = lexeme]
          /\ jplace' = "colon" /\ UNCHANGED root_
  /\ UNCHANGED <<trailing, lexeme, high>>

\* parse: the text ends, with nothing but the root value read.
finish ==
  /\ jplace = "after" /\ stack_ = <<>>
  /\ jplace' = "accepted"
  /\ UNCHANGED <<trailing, read, stack_, lexeme, high, root_>>

\* Each call of fail: a unit that has no place here, the end of the text too
\* early, or a text that is not UTF-8, which parse finds before anything else.
InString == jplace \in {"string", "key"}
Fits(unit) ==
  IF InString
  THEN Decoded(unit) # "none" \/ (unit \in {"\"", "\\uhi"} /\ ~high)
  ELSE \/ unit \in Scalars \ {"huge"} /\ AtValue
       \/ unit \in {"[", "{"} /\ AtValue /\ Len(stack_) < MaxDepth
       \/ unit \in {"]", "}"} /\ Closes(unit)
       \/ unit = "," /\ jplace = "after" /\ stack_ # <<>>
       \/ unit = ":" /\ jplace = "colon"
       \/ unit = "\"" /\ (AtValue \/ AtKey)
       \/ unit = "end" /\ jplace = "after" /\ stack_ = <<>>
reject ==
  \E unit \in {"\"", "end"}
             \cup (IF InString THEN StringUnits
                   ELSE Scalars \cup {"[", "{", "]", "}", ",", ":"})
             \cup (IF read = <<>> THEN {"invalid UTF-8"} ELSE {}) :
    ~Fits(unit) /\ fail(unit)

Next ==
  /\ jplace \notin {"failed", "accepted"}
  /\ \/ \E unit \in Scalars : parse_number(unit)
     \/ \E unit \in {"[", "{"} : parse_open(unit)
     \/ \E unit \in {"]", "}"} : parse_close(unit)
     \/ parse_comma \/ parse_colon \/ open_quote \/ close_quote
     \/ \E unit \in StringUnits : in_string(unit)
     \/ finish \/ reject

Spec == Init /\ [][Next]_vars
-----------------------------------------------------------------------------
\* JsonWriter::write, with ensure_ascii or without.
Escape(c, ascii) ==
  CASE c = "q" -> <<"\\q">>
    [] c = "c" -> <<"\\c">>
    [] c = "b" /\ ascii -> <<"\\ub">>
    [] c = "s" /\ ascii -> <<"\\uhi", "\\ulo">>
    [] OTHER -> <<c>>
write_string(s, ascii) ==
  <<"\"">> \o FoldLeft(LAMBDA out, c : out \o Escape(c, ascii), <<>>, s) \o <<"\"">>

Joined(parts) ==
  IF parts = <<>> THEN <<>>
  ELSE FoldLeft(LAMBDA out, p : out \o <<",">> \o p, Head(parts), Tail(parts))

RECURSIVE write_value(_, _)
write_value(v, ascii) ==
  CASE v.type = "scalar" -> <<v.of>>
    [] v.type = "string" -> write_string(v.of, ascii)
    [] v.type = "array" ->
         <<"[">> \o Joined([k \in DOMAIN v.of |-> write_value(v.of[k], ascii)]) \o <<"]">>
    [] v.type = "object" ->
         <<"{">> \o Joined([k \in DOMAIN v.of |->
             write_string(v.of[k].key, ascii) \o <<":">> \o write_value(v.of[k].value, ascii)])
         \o <<"}">>

\* Two texts mean the same: escapes or raw characters, with or without a last
\* comma, an integer too large for i64 or the float it becomes.
Plain(text) ==
  FoldLeft(LAMBDA out, u :
             CASE u = "\\ub" -> Append(out, "b")
               [] u = "\\uhi" -> out
               [] u = "\\ulo" -> Append(out, "s")
               [] u = "big" -> Append(out, "float")
               [] u \in {"]", "}"} /\ out # <<>> /\ Last(out) = "," -> Append(Front(out), u)
               [] OTHER -> Append(out, u),
           <<>>, text)

\* What is accepted is kept: the document of an accepted text, written again
\* with or without ensure_ascii, is that text up to its meaning, so that no
\* member, element or character is lost, doubled or attached elsewhere.
DocumentIsText ==
  jplace = "accepted" =>
    \A ascii \in BOOLEAN : Plain(write_value(root_[1], ascii)) = Plain(read)

\* The strict reader takes no trailing comma, and containers nest as deep as
\* max_depth and no deeper.
StrictIsStrict ==
  /\ jplace = "accepted" /\ ~trailing =>
       \A k \in 2..Len(read) : ~(read[k] \in {"]", "}"} /\ read[k - 1] = ",")
  /\ Len(stack_) <= MaxDepth

-----------------------------------------------------------------------------
(* validate (json_schema.cpp).  A schema is an object or not, with the     *)
(* keywords it has; "int" stands for 1 and "float" for 1.5, doubled.       *)

JsonType(v) == IF v.type = "scalar" THEN v.of ELSE v.type
IsNumber(v) == JsonType(v) \in {"int", "float"}
Doubled(v) == IF v.of = "int" THEN 2 ELSE 3

match_one(name, v) ==
  CASE name = "integer" -> JsonType(v) = "int"
    [] name = "number" -> IsNumber(v)
    [] OTHER -> JsonType(v) = name

\* JsonValue::find: the first member of that name, if any.
find(v, key) == SelectSeq(v.of, LAMBDA m : m.key = key)

RECURSIVE json_equal(_, _)
json_equal(a, b) ==
  /\ JsonType(a) = JsonType(b)
  /\ CASE a.type = "array" ->
            Len(a.of) = Len(b.of) /\ \A i \in DOMAIN a.of : json_equal(a.of[i], b.of[i])
       [] a.type = "object" ->
            /\ Len(a.of) = Len(b.of)
            /\ \A i \in DOMAIN a.of :
                 LET found == find(b, a.of[i].key)
                 IN  found # <<>> /\ json_equal(a.of[i].value, found[1].value)
       [] OTHER -> a.of = b.of

\* validate_type_keyword_shape and the other tests of the schema itself.
KnownTypes == {"null", "boolean", "integer", "number", "string", "array", "object"}
validate_type_keyword_shape(t) ==
  t.form \in {"string", "array"} /\ \A i \in DOMAIN t.names : t.names[i] \in KnownTypes

\* The keywords that a node fails, in the order in which they are looked at.
Has(s, keyword) == keyword \in DOMAIN s.keys
Fails(v, s, keyword) ==
  /\ Has(s, keyword)
  /\ LET k == s.keys[keyword] IN
     CASE keyword = "type" -> ~\E i \in DOMAIN k.names : match_one(k.names[i], v)
       [] keyword = "const" -> ~json_equal(v, k)
       [] keyword = "enum" -> ~\E i \in DOMAIN k.of : json_equal(v, k.of[i])
       [] keyword = "minimum" -> IsNumber(v) /\ Doubled(v) < k
       [] keyword = "maximum" -> IsNumber(v) /\ Doubled(v) > k
       [] keyword = "minLength" -> v.type = "string" /\ Len(v.of) < k
       [] keyword = "maxLength" -> v.type = "string" /\ Len(v.of) > k
Simple == <<"type", "const", "enum", "minimum", "maximum", "minLength", "maxLength">>

record(path, keyword) == [at |-> path, keyword |-> keyword]

Missing(v, s) ==
  IF v.type = "object" /\ Has(s, "required")
    THEN SelectSeq(s.keys.required.of, LAMBDA key : find(v, key) = <<>>) ELSE <<>>

\* A schema that is not one, as far as this node makes the code look at it;
\* "array" says of required that it is an array of strings.
Malformed(v, s) ==
  \/ ~s.object
  \/ Has(s, "type") /\ ~validate_type_keyword_shape(s.keys.type)
  \/ Has(s, "enum") /\ ~s.keys.enum.array
  \/ v.type = "object" /\ Has(s, "required") /\ ~s.keys.required.array
  \/ v.type = "object" /\ Has(s, "properties") /\ ~s.keys.properties.object

\* The nodes that are looked at below this one, each with its schema.
Below(v, s, path) ==
  CASE v.type = "object" /\ Has(s, "properties") ->
         FoldLeft(LAMBDA out, p : IF find(v, p.key) = <<>> THEN out
                    ELSE Append(out, [node |-> find(v, p.key)[1].value, schema |-> p.value,
                                      path |-> Append(path, p.key)]),
                  <<>>, s.keys.properties.of)
    [] v.type = "array" /\ Has(s, "items") ->
         [i \in DOMAIN v.of |->
            [node |-> v.of[i], schema |-> s.keys.items, path |-> Append(path, i)]]
    [] OTHER -> <<>>

\* Mutant: the first failure of a node ends the validation of what is below it.
RECURSIVE fail_fast_node(_, _, _)
fail_fast_node(v, s, path) ==
  LET failed == SelectSeq(Simple, LAMBDA keyword : Fails(v, s, keyword))
      own == [i \in DOMAIN failed |-> record(path, failed[i])]
             \o [i \in DOMAIN Missing(v, s) |-> record(path, "required")]
  IN  IF Malformed(v, s) THEN [bad |-> TRUE, errors |-> <<>>]
      ELSE IF own # <<>> THEN [bad |-> FALSE, errors |-> own]
      ELSE FoldLeft(LAMBDA r, b : LET q == fail_fast_node(b.node, b.schema, b.path)
                                  IN  [bad |-> r.bad \/ q.bad, errors |-> r.errors \o q.errors],
                    [bad |-> FALSE, errors |-> own], Below(v, s, path))

RECURSIVE validate_node(_, _, _)
validate_node(v, s, path) ==
  IF Malformed(v, s) THEN [bad |-> TRUE, errors |-> <<>>]
  ELSE LET failed == SelectSeq(Simple, LAMBDA keyword : Fails(v, s, keyword))
           own == [i \in DOMAIN failed |-> record(path, failed[i])]
                  \o [i \in DOMAIN Missing(v, s) |-> record(path, "required")]
       IN  FoldLeft(LAMBDA r, b : IF r.bad THEN r
                      ELSE LET q == validate_node(b.node, b.schema, b.path)
                           IN  [bad |-> q.bad, errors |-> r.errors \o q.errors],
                    [bad |-> FALSE, errors |-> own], Below(v, s, path))

validate(v, s) == validate_node(v, s, <<>>)

\* Schemas: of every keyword, nested, and wrongly written at the root or below.
Schema(keys) == [object |-> TRUE, keys |-> keys]
TypeIs(names) == [form |-> "array", names |-> names]
IntegerSchema == Schema([type |-> TypeIs(<<"integer">>), maximum |-> 2])
TextSchema == Schema([type |-> TypeIs(<<"string", "null">>), minLength |-> 1, maxLength |-> 1])
WrongSchema == Schema([type |-> TypeIs(<<"integre">>)])
Schemas ==
  {IntegerSchema, TextSchema, WrongSchema, [object |-> FALSE, keys |-> [x |-> 0]],
   Schema([minimum |-> 3, const |-> [type |-> "scalar", of |-> "float"]]),
   Schema([enum |-> [array |-> TRUE, of |-> <<[type |-> "array", of |-> <<>>],
                                              [type |-> "object", of |-> <<>>]>>]])}
  \cup {Schema([type |-> TypeIs(<<"array", "object">>), items |-> i,
                required |-> [array |-> TRUE, of |-> <<<<>>, <<"a">>>>],
                properties |-> [object |-> TRUE,
                                of |-> <<[key |-> <<>>, value |-> i],
                                         [key |-> <<"a">>, value |-> TextSchema]>>]]) :
         i \in {IntegerSchema, TextSchema, WrongSchema}}

\* What can be said of a node and what is below it by the schema alone.
RECURSIVE Reached(_, _, _)
Reached(v, s, path) ==
  {[node |-> v, schema |-> s, path |-> path]}
  \cup (IF Malformed(v, s) THEN {}
        ELSE UNION {Reached(b.node, b.schema, b.path) : b \in Range(Below(v, s, path))})

\* validate collects every failure of every node the schema speaks of, each under
\* the path of its node, and gives up exactly when it meets a schema that is wrong
\* (json_schema.hpp: all failures, not the first).
AllFailuresAreFound ==
  jplace = "accepted" =>
    \A s \in Schemas :
      LET r == validate(root_[1], s)
          nodes == Reached(root_[1], s, <<>>)
      IN  /\ r.bad <=> \E n \in nodes : Malformed(n.node, n.schema)
          /\ ~r.bad =>
               Range(r.errors) =
                 UNION {{record(n.path, k) : k \in {f \in Range(Simple) : Fails(n.node, n.schema, f)}}
                        : n \in nodes}
                 \cup {record(n.path, "required") : n \in {m \in nodes : Missing(m.node, m.schema) # <<>>}}

\* The parser, the DOM builder, the writer and the validator agree.
JsonSound == DocumentIsText /\ StrictIsStrict /\ AllFailuresAreFound
=============================================================================
