-------------------------------- MODULE Toml --------------------------------
(***************************************************************************)
(* How ca::toml organises a document (toml_parser.cpp) and how TomlWriter  *)
(* lays it out again (toml_writer.cpp): [headers], [[arrays of tables]],   *)
(* dotted keys, inline tables.  One line is read a step.  A document is a  *)
(* function from node paths (keys and array indices) to kinds;             *)
(* the text of scalars is the second half of the module.                   *)
(***************************************************************************)
EXTENDS Integers, Sequences, FiniteSets, SequencesExt

CONSTANTS TomlKeys,     \* model values: the keys
          MaxLines      \* bound: lines of a document

\* A value as written: a scalar, an array of values, an inline table of
\* <<dotted key, value>> entries.
Scalar == [v |-> "scalar"]
Arr(elems) == [v |-> "array", elems |-> elems]
Inline(entries) == [v |-> "inline", entries |-> entries]

VARIABLES
  state,                \* TomlParser with its document
  nlines,               \* lines read
  section,              \* history: the line of the last header
  owner                 \* history: node path -> the line and section that made the node
vars == <<state, nlines, section, owner>>

EmptyState ==
  [tree |-> (<<>> :> "table"), failed_ |-> FALSE, current_table_ |-> <<>>,
   current_table_path_ |-> <<>>, defined_paths_ |-> {}, dotted_paths_ |-> {}, inline_paths_ |-> {}]
fail(s) == [s EXCEPT !.failed_ = TRUE]

Kind(tree, n) == IF n \in DOMAIN tree THEN tree[n] ELSE "none"
Last_(tree, n) == Cardinality({i \in 1..Cardinality(DOMAIN tree) : Append(n, i) \in DOMAIN tree})
Set(tree, n, k) == (n :> k) @@ tree
\* A tree hung at n.
Graft(tree, n, sub) == tree @@ [m \in {n \o r : r \in DOMAIN sub} |-> sub[SubSeq(m, Len(n) + 1, Len(m))]]
-----------------------------------------------------------------------------
(* values *)

\* The dotted key of an inline table: tables are made or entered on the way.
RECURSIVE InlineInsert(_, _, _, _)
InlineInsert(tree, parent, segs, sub) ==
  LET n == Append(parent, Head(segs)) IN
  IF Len(segs) = 1
  THEN IF n \in DOMAIN tree THEN <<>> ELSE <<Graft(tree, n, sub)>>
  ELSE IF Kind(tree, n) \notin {"none", "table"} THEN <<>>
  ELSE InlineInsert(IF Kind(tree, n) = "none" THEN Set(tree, n, "table") ELSE tree,
                    n, Tail(segs), sub)

\* <<the tree of a value>>, or <<>> if the parser fails in it
RECURSIVE parse_value(_)
parse_array(elems) ==
  FoldLeft(LAMBDA acc, e :
             IF acc = <<>> \/ parse_value(e) = <<>> THEN <<>>
             ELSE <<Graft(acc[1], <<Last_(acc[1], <<>>) + 1>>, parse_value(e)[1])>>,
           <<(<<>> :> "array")>>, elems)
parse_inline_table(entries) ==
  FoldLeft(LAMBDA acc, e :
             IF acc = <<>> \/ parse_value(e[2]) = <<>> THEN <<>>
             ELSE InlineInsert(acc[1], <<>>, e[1], parse_value(e[2])[1]),
           <<(<<>> :> "table")>>, entries)
parse_value(v) ==
  CASE v.v = "scalar" -> <<(<<>> :> "scalar")>>
    [] v.v = "array" -> parse_array(v.elems)
    [] v.v = "inline" -> parse_inline_table(v.entries)
-----------------------------------------------------------------------------
(* key = value *)

global_path(s, segs, i) == s.current_table_path_ \o SubSeq(segs, 1, i)

DottedMayEnter(s, p) == p \notin s.defined_paths_ \cup s.inline_paths_

RECURSIVE Descend(_, _, _, _)
Descend(s, parent, segs, i) ==
  LET n == Append(parent, segs[i])
      p == global_path(s, segs, i)
  IN
  IF s.failed_ \/ i = Len(segs) THEN [s |-> s, parent |-> parent]
  ELSE IF Kind(s.tree, n) = "none"
  THEN Descend([s EXCEPT !.tree = Set(@, n, "table"), !.dotted_paths_ = @ \cup {p}], n, segs, i + 1)
  ELSE IF Kind(s.tree, n) # "table" \/ ~DottedMayEnter(s, p)
  THEN [s |-> fail(s), parent |-> parent]
  ELSE Descend(s, n, segs, i + 1)

parse_key_value(s, segs, v) ==
  LET sub == parse_value(v)
      d == Descend(s, s.current_table_, segs, 1)
      leaf == Append(d.parent, segs[Len(segs)])
  IN
  IF sub = <<>> THEN fail(s)
  ELSE IF d.s.failed_ \/ leaf \in DOMAIN d.s.tree THEN fail(d.s)
  ELSE [d.s EXCEPT !.tree = Graft(@, leaf, sub[1]),
                   !.inline_paths_ = @ \cup IF v.v = "inline"
                                            THEN {global_path(s, segs, Len(segs))} ELSE {}]
-----------------------------------------------------------------------------
(* [header] and [[header]] *)

\* Mutant: a table that dotted keys made may be opened again.
OpensDotted(s, p) == p \notin s.inline_paths_
HeaderMayOpen(s, p) == p \notin s.dotted_paths_ \cup s.inline_paths_

RECURSIVE Walk(_, _, _, _, _)
Walk(s, cur, segs, i, aot) ==
  LET n == Append(cur, segs[i])
      k == Kind(s.tree, n)
      p == SubSeq(segs, 1, i)
      enter(t, m) == [s EXCEPT !.tree = t, !.current_table_ = m]
  IN
  IF s.failed_ \/ Kind(s.tree, cur) # "table" THEN fail(s)
  ELSE IF i = Len(segs)
  THEN CASE aot /\ k \in {"none", "array"} ->
              LET m == Append(n, Last_(s.tree, n) + 1)
              IN  enter(Set(Set(s.tree, n, "array"), m, "table"), m)
         [] ~aot /\ k = "none" -> enter(Set(s.tree, n, "table"), n)
         [] ~aot /\ k = "table" /\ HeaderMayOpen(s, p) -> enter(s.tree, n)
         [] OTHER -> fail(s)
  ELSE CASE k = "none" -> Walk([s EXCEPT !.tree = Set(@, n, "table")], n, segs, i + 1, aot)
         [] k = "array" -> Walk(s, Append(n, Last_(s.tree, n)), segs, i + 1, aot)
         [] k = "table" /\ p \notin s.inline_paths_ -> Walk(s, n, segs, i + 1, aot)
         [] OTHER -> fail(s)

mark_header_defined(s, segs) ==
  [s EXCEPT !.defined_paths_ = @ \cup {segs}, !.current_table_path_ = segs]

parse_table_header(s, segs, aot) ==
  IF ~aot /\ segs \in s.defined_paths_ THEN fail(s)
  ELSE LET w == Walk(s, <<>>, segs, 1, aot)
       IN  IF w.failed_ THEN w ELSE mark_header_defined(w, segs)

parse_line(s, line) ==
  IF line.l = "kv" THEN parse_key_value(s, line.segs, line.value)
  ELSE parse_table_header(s, line.segs, line.l = "aot")
-----------------------------------------------------------------------------
(* the writer *)

Children(tree, n) == {m \in DOMAIN tree : Len(m) = Len(n) + 1 /\ SubSeq(m, 1, Len(n)) = n}
is_table_like(tree, n) ==
  /\ Children(tree, n) # {}
  /\ tree[n] = "table" \/ (tree[n] = "array" /\ \A m \in Children(tree, n) : tree[m] = "table")

RECURSIVE write_inline_value(_, _)
write_inline_value(tree, n) ==
  CASE tree[n] = "scalar" -> Scalar
    [] tree[n] = "array" -> Arr([i \in 1..Last_(tree, n) |-> write_inline_value(tree, Append(n, i))])
    [] tree[n] = "table" ->
         Inline(FoldSet(LAMBDA m, out : Append(out, <<<<m[Len(m)]>>, write_inline_value(tree, m)>>),
                        <<>>, Children(tree, n)))

\* The members that are no tables first, then a section for each that is.
RECURSIVE write_table(_, _, _)
Header(tree, m, path, l) ==
  <<[l |-> l, segs |-> path]>> \o write_table(tree, m, path)
write_table(tree, n, path) ==
  LET members == Children(tree, n)
      key(m) == m[Len(m)]
      plain == {m \in members : ~is_table_like(tree, m)}
  IN  FoldSet(LAMBDA m, out : Append(out, [l |-> "kv", segs |-> <<key(m)>>,
                                           value |-> write_inline_value(tree, m)]), <<>>, plain)
      \o FoldSet(LAMBDA m, out : out \o
                   IF tree[m] = "table" THEN Header(tree, m, Append(path, key(m)), "header")
                   ELSE FlattenSeq([i \in 1..Last_(tree, m) |->
                          Header(tree, Append(m, i), Append(path, key(m)), "aot")]),
                 <<>>, members \ plain)
write(tree) == write_table(tree, <<>>, <<>>)
-----------------------------------------------------------------------------
Paths == {<<k>> : k \in TomlKeys} \cup {<<k, m>> : k, m \in TomlKeys}
Deeper == Paths \cup {<<k, k, m>> : k, m \in TomlKeys}
Values ==
  LET k == CHOOSE x \in TomlKeys : TRUE IN
  {Scalar, Arr(<<>>), Arr(<<Scalar>>),
   Arr([i \in 1..2 |-> Inline(<<<<<<k, k>>, Scalar>>>>)])}
  \cup {Inline(e) : e \in {<<>>, <<<<<<k, k>>, Scalar>>>>,
                           <<<<<<k>>, Scalar>>, <<<<k, k>>, Scalar>>>>,
                           <<<<<<k>>, Inline(<<>>)>>, <<<<k, k>>, Scalar>>>>}}

\* A header under an array without elements takes back() of an empty vector:
\* what happens then is undefined, such lines are left out.
WalksEmpty(s, segs) ==
  \E i \in 1..(Len(segs) - 1) : Kind(s.tree, SubSeq(segs, 1, i)) = "array"
                                /\ Last_(s.tree, SubSeq(segs, 1, i)) = 0

Init ==
  /\ state = EmptyState /\ nlines = 0 /\ section = 0
  /\ owner = (<<>> :> [line |-> 0, section |-> 0, how |-> "path"])

Made(n, line) ==
  [line |-> nlines',
   section |-> section',
   how |-> IF line.l = "kv" /\ IsPrefix(state.current_table_ \o line.segs, n)
           THEN "value" ELSE "path"]

Read(line) ==
  /\ ~state.failed_ /\ nlines < MaxLines
  /\ state' = parse_line(state, line)
  /\ nlines' = nlines + 1
  /\ section' = IF line.l = "kv" THEN section ELSE nlines'
  /\ owner' = [n \in DOMAIN state'.tree |-> IF n \in DOMAIN owner THEN owner[n] ELSE Made(n, line)]

Next ==
  \/ \E segs \in Paths, v \in Values : Read([l |-> "kv", segs |-> segs, value |-> v])
  \/ \E segs \in Deeper, l \in {"header", "aot"} :
       ~WalksEmpty(state, segs) /\ Read([l |-> l, segs |-> segs])

Spec == Init /\ [][Next]_vars
-----------------------------------------------------------------------------
Accepted == ~state.failed_
HasArrayOfTables == \E n \in DOMAIN state.tree : state.tree[n] = "array" /\ is_table_like(state.tree, n)

\* The text of a document without arrays of tables is read back as the
\* same document.
TextRoundTrips ==
  LET again == FoldLeft(parse_line, EmptyState, write(state.tree))
  IN  Accepted /\ ~HasArrayOfTables => ~again.failed_ /\ again.tree = state.tree

\* A table has one definition: no dotted key adds to a table of another
\* header, and no header opens one that dotted keys or braces made
\* (tables inside an array value: InlineIsClosed).
OneDefinition ==
  Accepted => \A n \in {m \in DOMAIN state.tree : owner[m].how = "path"} :
    LET scalars == {m \in Children(state.tree, n) : state.tree[m] = "scalar"}
    IN  \A m1, m2 \in scalars : owner[m1].section = owner[m2].section

\* Together.
TomlSound == TextRoundTrips /\ OneDefinition

\* What braces made is never added to (toml_spec_v1.0.0.md, Inline Table:
\* "fully self-contained and define all keys and sub-tables within them").
InlineIsClosed ==
  Accepted => \A n \in DOMAIN state.tree : \A m \in Children(state.tree, n) :
    owner[n].how = "value" => owner[m].line = owner[n].line

\* toml_writer.hpp: the output conforms to TOML 1.0; TomlReader reads it.
WriterIsReadable ==
  Accepted => ~FoldLeft(parse_line, EmptyState, write(state.tree)).failed_
-----------------------------------------------------------------------------
(***************************************************************************)
(* Strings, numbers and date-times of ca::toml: what toml_writer.cpp       *)
(* writes and toml_parser.cpp reads.  Characters are the classes the code  *)
(* tells apart; "u" after a backslash stands for \uXXXX of a control       *)
(* character.  A string, or the text of a number, grows by one character a *)
(* step; a date-time is chosen at the start.                               *)
(***************************************************************************)
CONSTANTS MaxText,      \* bound: characters of a string
          MaxNumber,    \* bound: characters of a number
          NanoDigits,   \* digits of TomlDatetime::nanos (9 in the code)
          Offsets       \* tz_minutes tried, with either sign

VARIABLES text, number, datetime
scalarVars == <<text, number, datetime>>

Chars == {"q", "bs", "nl", "cr", "tab", "sp", "ctl", "ch"}
Digit == {"0", "1"}
Raw(c) == <<c>>
Esc(c) == <<"bs", c>>
Quotes(n) == [i \in 1..n |-> "q"]
-----------------------------------------------------------------------------
(* strings *)

\* The escape of c in a one line string, and what each escape means.
EscapeOf(c) ==
  CASE c = "q" -> Esc("q") [] c = "bs" -> Esc("bs") [] c = "tab" -> Esc("t")
    [] c = "nl" -> Esc("n") [] c = "cr" -> Esc("r") [] c = "ctl" -> Esc("u")
    [] OTHER -> Raw(c)
Escapes == [q |-> "q", bs |-> "bs", t |-> "tab", n |-> "nl", r |-> "cr", u |-> "ctl"]

write_basic_string(s) ==
  FoldLeft(LAMBDA out, c : out \o EscapeOf(c), <<"q">>, s) \o <<"q">>

\* Only three quotes in a row are escaped.
RECURSIVE MultilineBody(_)
MultilineBody(s) ==
  IF s = <<>> THEN <<>>
  ELSE IF Len(s) >= 3 /\ SubSeq(s, 1, 3) = Quotes(3)
       THEN Esc("q") \o Esc("q") \o Esc("q") \o MultilineBody(SubSeq(s, 4, Len(s)))
  ELSE (IF Head(s) \in {"bs", "cr", "ctl"} THEN EscapeOf(Head(s)) ELSE Raw(Head(s)))
       \o MultilineBody(Tail(s))

write_multiline_basic_string(s) == Quotes(3) \o <<"nl">> \o MultilineBody(s) \o Quotes(3)

write_string(s) ==
  IF Contains(s, "nl") THEN write_multiline_basic_string(s) ELSE write_basic_string(s)

At(t, i) == IF i <= Len(t) THEN t[i] ELSE "end"
Failed == [ok |-> FALSE, out |-> <<>>]
\* A value has to take up the whole text: skip_to_newline_or_end follows it.
Ends(t, i, out) == IF i > Len(t) THEN [ok |-> TRUE, out |-> out] ELSE Failed

RECURSIVE parse_basic_string(_, _, _)
parse_basic_string(t, i, out) ==
  LET c == At(t, i) IN
  CASE c = "q" -> Ends(t, i + 1, out)
    [] c \in {"end", "nl", "cr", "ctl"} -> Failed
    [] c = "bs" -> IF At(t, i + 1) \in DOMAIN Escapes
                   THEN parse_basic_string(t, i + 2, Append(out, Escapes[t[i + 1]])) ELSE Failed
    [] OTHER -> parse_basic_string(t, i + 1, Append(out, c))

\* Mutant: the quotes just before the closing three are not counted.
NoExtra(t, i) == 0
ExtraQuotes(t, i) ==
  IF At(t, i + 3) # "q" THEN 0 ELSE IF At(t, i + 4) # "q" THEN 1 ELSE 2

\* The first character at or after i that is not white space of a line.
RECURSIVE AfterBlanks(_, _, _)
AfterBlanks(t, i, blanks) == IF At(t, i) \in blanks THEN AfterBlanks(t, i + 1, blanks) ELSE i

RECURSIVE parse_multiline_basic(_, _, _)
parse_multiline_basic(t, i, out) ==
  LET c == At(t, i)
      eol == AfterBlanks(t, i + 1, {"sp", "tab", "cr"})
  IN
  CASE c \in {"end", "ctl"} -> Failed
    [] c = "q" /\ At(t, i + 1) = "q" /\ At(t, i + 2) = "q" ->
         Ends(t, i + 3 + ExtraQuotes(t, i), out \o Quotes(ExtraQuotes(t, i)))
    [] c = "bs" /\ At(t, eol) = "nl" ->       \* the line goes on
         parse_multiline_basic(t, AfterBlanks(t, i + 1, {"sp", "tab", "cr", "nl"}), out)
    [] c = "bs" /\ At(t, eol) # "nl" ->
         IF At(t, i + 1) \in DOMAIN Escapes
         THEN parse_multiline_basic(t, i + 2, Append(out, Escapes[t[i + 1]])) ELSE Failed
    [] c = "cr" -> parse_multiline_basic(t, IF At(t, i + 1) = "nl" THEN i + 2 ELSE i + 1,
                                         Append(out, "nl"))
    [] OTHER -> parse_multiline_basic(t, i + 1, Append(out, c))

\* parse_value on a quote: three open a multi-line string, whose first line
\* break is dropped.
parse_string_value(t) ==
  IF At(t, 1) = "q" /\ At(t, 2) = "q" /\ At(t, 3) = "q"
  THEN parse_multiline_basic(t, CASE At(t, 4) = "nl" -> 5
                                  [] At(t, 4) = "cr" /\ At(t, 5) = "nl" -> 6
                                  [] At(t, 4) = "cr" /\ At(t, 5) # "nl" -> 5
                                  [] OTHER -> 4, <<>>)
  ELSE IF At(t, 1) = "q" THEN parse_basic_string(t, 2, <<>>) ELSE Failed
-----------------------------------------------------------------------------
(* numbers *)

NumberChars == Digit \cup {".", "e", "_", "+", "-", "x"}
Sign == {"+", "-"}
AllDigits(s) == s # <<>> /\ \A i \in DOMAIN s : s[i] \in Digit
Without(s, c) == SelectSeq(s, LAMBDA x : x # c)
Strip(s, C) == IF s # <<>> /\ Head(s) \in C THEN Tail(s) ELSE s
Before(s, c) == IF Contains(s, c) THEN SubSeq(s, 1, SelectInSeq(s, LAMBDA x : x = c) - 1) ELSE s
After(s, c) == SubSeq(s, SelectInSeq(s, LAMBDA x : x = c) + 1, Len(s))

\* std::from_chars of a double and of a long long, on the whole buffer (external).
FromCharsFloat(b) ==
  LET m == Before(Strip(b, {"-"}), "e") IN
  /\ AllDigits(Without(m, "."))
  /\ Contains(b, "e") => AllDigits(Strip(After(b, "e"), Sign))
FromCharsInteger(b) == AllDigits(Strip(b, {"-"}))

\* Mutant: an underscore only has to be inside the literal.
UnderscoreInside(s, i, D) == 1 < i /\ i < Len(s)
UnderscoreOk(s, i, D) == 1 < i /\ i < Len(s) /\ s[i - 1] \in D /\ s[i + 1] \in D

LeadingZero(s) ==
  LET u == Strip(s, Sign) IN Len(u) > 1 /\ u[1] = "0" /\ u[2] \notin {".", "e", "_"}
DotOk(s, i) ==
  /\ UnderscoreOk(s, i, Digit)
  /\ \A j \in 1..(i - 1) : s[j] \notin {".", "e"}

parse_number_decimal(s) ==
  LET buf == Strip(Without(s, "_"), {"+"}) IN
  /\ ~LeadingZero(s)
  /\ \A i \in DOMAIN s : /\ s[i] = "_" => UnderscoreOk(s, i, Digit)
                         /\ s[i] = "." => DotOk(s, i)
                         /\ s[i] = "e" => \A j \in 1..(i - 1) : s[j] # "e"
  /\ IF Contains(s, ".") \/ Contains(s, "e") THEN FromCharsFloat(buf) ELSE FromCharsInteger(buf)

HexDigit == Digit \cup {"e"}
parse_integer_radix(s) ==
  LET d == SubSeq(s, 3, Len(s)) IN
  /\ \A i \in DOMAIN d : d[i] = "_" => UnderscoreOk(d, i, HexDigit)
  /\ Without(d, "_") # <<>> /\ \A i \in DOMAIN d : d[i] \in HexDigit \cup {"_"}

parse_number_or_datetime_value(s) ==
  /\ s # <<>>
  /\ IF Len(s) >= 2 /\ s[1] = "0" /\ s[2] = "x" THEN parse_integer_radix(s)
     ELSE parse_number_decimal(s)
-----------------------------------------------------------------------------
(* date-times: the fraction of a second and the offset *)

\* n as d digits, most significant first.
Digits(n, d) == [i \in 1..d |-> (n \div 10 ^ (d - i)) % 10]
Trimmed(s) == SubSeq(s, 1, SelectLastInSeq(s, LAMBDA x : x # 0))

format_hms(nanos) == IF nanos = 0 THEN <<>> ELSE Trimmed(Digits(nanos, NanoDigits))

write_datetime(dt) ==
  LET off == dt.tz_minutes
      abs == IF off < 0 THEN -off ELSE off
  IN [frac |-> format_hms(dt.nanos),
      tz   |-> IF ~dt.has_tz THEN <<>>
               ELSE IF off = 0 THEN <<"Z">>
               ELSE <<IF off < 0 THEN "-" ELSE "+", abs \div 60, abs % 60>>]

\* Digits after NanoDigits are dropped, missing ones are zero.
Fraction(s) ==
  FoldLeft(LAMBDA n, i : n * 10 + (IF i <= Len(s) THEN s[i] ELSE 0), 0,
           [i \in 1..NanoDigits |-> i])

try_parse_datetime(w) ==
  [nanos |-> Fraction(w.frac), has_tz |-> w.tz # <<>>,
   tz_minutes |-> IF Len(w.tz) < 3 THEN 0
                  ELSE (IF w.tz[1] = "-" THEN -1 ELSE 1) * (w.tz[2] * 60 + w.tz[3])]
-----------------------------------------------------------------------------
NoDatetime == [nanos |-> 0, has_tz |-> FALSE, tz_minutes |-> 0]
Datetimes == [nanos : 0..(10 ^ NanoDigits - 1), has_tz : {TRUE}, tz_minutes : Offsets \cup {-o : o \in Offsets}]
             \cup [nanos : 0..(10 ^ NanoDigits - 1), has_tz : {FALSE}, tz_minutes : {0}]

ScalarInit == text = <<>> /\ number = <<>> /\ datetime \in Datetimes

TypeText(c) ==
  /\ number = <<>> /\ datetime = NoDatetime /\ Len(text) < MaxText
  /\ text' = Append(text, c) /\ UNCHANGED <<number, datetime>>

TypeNumber(c) ==
  /\ text = <<>> /\ datetime = NoDatetime /\ Len(number) < MaxNumber
  /\ number' = Append(number, c) /\ UNCHANGED <<text, datetime>>

ScalarNext == (\E c \in Chars : TypeText(c)) \/ (\E c \in NumberChars : TypeNumber(c))
-----------------------------------------------------------------------------
\* The grammar of numbers (toml_spec_v1.0.0.md, Integer and Float).
Separated(s, D) ==
  /\ s # <<>> /\ s[1] \in D /\ s[Len(s)] \in D
  /\ \A i \in DOMAIN s : s[i] \in D \/ (s[i] = "_" /\ s[i + 1] \in D)
DecInt(s) == LET u == Strip(s, Sign) IN Separated(u, Digit) /\ (Len(u) = 1 \/ u[1] = "1")
IsNumber(s) ==
  LET m == Before(s, "e") IN
  \/ /\ Contains(s, "e") => Separated(Strip(After(s, "e"), Sign), Digit)
     /\ Contains(m, ".") => Separated(After(m, "."), Digit)
     /\ DecInt(Before(m, "."))
  \/ Len(s) > 2 /\ SubSeq(s, 1, 2) = <<"0", "x">> /\ Separated(SubSeq(s, 3, Len(s)), HexDigit)

\* What is written is read back: strings with quotes, backslashes and line
\* breaks anywhere, fractions with zeros at either end, offsets of either sign.
ScalarsRoundTrip ==
  /\ parse_string_value(write_string(text)) = [ok |-> TRUE, out |-> text]
  /\ try_parse_datetime(write_datetime(datetime)) = datetime

\* Every number of the grammar is read; one that is not is refused, but for
\* two spellings: a + before a -, and an underscore after a leading zero.
Tolerated(s) ==
  LET u == Strip(s, Sign) IN
  \/ Len(s) > 1 /\ s[1] = "+" /\ s[2] = "-"
  \/ Len(u) > 1 /\ u[1] = "0" /\ u[2] = "_"
NumbersAreToml ==
  number # <<>> =>
    /\ IsNumber(number) => parse_number_or_datetime_value(number)
    /\ parse_number_or_datetime_value(number) => IsNumber(number) \/ Tolerated(number)

\* Together.
TomlScalarSound == ScalarsRoundTrip /\ NumbersAreToml

\* toml_spec_v1.0.0.md: leading zeros are not allowed, one sign at most.
OnlyTomlNumbers == number # <<>> => (parse_number_or_datetime_value(number) => IsNumber(number))
=============================================================================
