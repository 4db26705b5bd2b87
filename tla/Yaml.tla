-------------------------------- MODULE Yaml --------------------------------
(***************************************************************************)
(* ca::yaml: block structure by indentation (yaml_parser.cpp) and the      *)
(* writer that lays it out (yaml_writer.cpp).  A line is its tokens with   *)
(* their columns; a document grows by one line a step.  One-line strings   *)
(* (plain, quoted) are text of character classes.                          *)
(***************************************************************************)
EXTENDS Naturals, Sequences, SequencesExt

CONSTANTS YamlKeys,     \* model values: mapping keys
          Columns,      \* indentations of lines
          Indent,       \* YamlWriterOptions::indent
          YamlDepth,    \* max_depth
          MaxYamlLines, \* bound: lines
          MaxPlain      \* bound: characters of a one-line string

VARIABLES lines_, document_, plain
vars == <<lines_, document_, plain>>

\* Values: scalars, strings of several lines (the lines, and how many line
\* breaks end the text), sequences, mappings as <<key, value>> entries.
Null == [y |-> "null"]
Word == [y |-> "word"]
Str(ls, nl) == [y |-> "str", ls |-> ls, nl |-> nl]
ListOf(items) == [y |-> "seq", items |-> items]
MapOf(entries) == [y |-> "map", entries |-> entries]
Break == Str(<<>>, 1)   \* the string "\n"

Tok(c, t, x) == [c |-> c, t |-> t, x |-> x]
Line(i, toks) == [indent |-> i, toks |-> toks]
Blank(i) == Line(i, <<>>)
Shift(toks, by) == [k \in DOMAIN toks |-> [toks[k] EXCEPT !.c = @ + by]]
-----------------------------------------------------------------------------
(* the cursor: line and token *)

Pos(li, k) == [li |-> li, k |-> k]
finish_line(p) == Pos(p.li + 1, 1)
AtEof(L, p) == p.li > Len(L)
LineDone(L, p) == p.k > Len(L[p.li].toks) \/ L[p.li].toks[p.k].t = "#"

RECURSIVE advance_to_content(_, _)
advance_to_content(L, p) ==
  IF AtEof(L, p) \/ ~LineDone(L, p) THEN p ELSE advance_to_content(L, finish_line(p))

Here(L, p) == L[p.li].toks[p.k]
cur_indent(L, p) == Here(L, p).c
at_sequence_dash(L, p) == Here(L, p).t = "-"
at_document_marker(L, p) == Here(L, p).t = "---"

Ok(v, p) == [ok |-> TRUE, v |-> v, at |-> p]
fail == [ok |-> FALSE, v |-> Null, at |-> Pos(0, 0)]
-----------------------------------------------------------------------------
(* block scalars *)

\* The lines of the body: those at or beyond the first one's indentation;
\* blank lines at the end are counted, not kept.
RECURSIVE Body(_, _, _, _)
Body(L, i, m, pending) ==
  IF i > Len(L) THEN [content |-> <<>>, blanks |-> Len(pending), next |-> i]
  ELSE IF L[i].toks = <<>> THEN Body(L, i + 1, m, Append(pending, <<>>))
  ELSE IF L[i].indent < m THEN [content |-> <<>>, blanks |-> Len(pending), next |-> i]
  ELSE LET rest == Body(L, i + 1, m, <<>>)
           own == [k \in DOMAIN L[i].toks |-> [L[i].toks[k] EXCEPT !.c = @ - m]]
       IN  [rest EXCEPT !.content = pending \o <<own>> \o @]

\* > joins neighbours with a space, keeps k line breaks for k blank lines
\* and the breaks around more indented lines.
Fold(content) ==
  FoldLeft(LAMBDA acc, seg :
    IF seg = <<>> THEN [acc EXCEPT !.blanks = @ + 1]
    ELSE LET more == seg[1].c > 0
             empty == [i \in 1..(acc.blanks - 1) |-> <<>>]
         IN  [out |-> IF acc.out = <<>> THEN [i \in 1..acc.blanks |-> <<>>] \o <<seg>>
                      ELSE IF acc.blanks > 0 THEN acc.out \o empty \o <<seg>>
                      ELSE IF acc.more \/ more THEN Append(acc.out, seg)
                      ELSE [acc.out EXCEPT ![Len(acc.out)] = @ \o Shift(seg, @[Len(@)].c + 1)],
              blanks |-> 0, more |-> more],
    [out |-> <<>>, blanks |-> 0, more |-> FALSE], content).out

parse_block_scalar(L, p, n) ==
  LET head == Here(L, p).x
      li == p.li + 1
      later == {i \in li..Len(L) : L[i].toks # <<>>}
      first == CHOOSE i \in later : \A j \in later : i <= j
  IN
  IF later = {} THEN Ok(Str(<<>>, 0), Pos(li, 1))
  ELSE IF L[first].indent <= n THEN Ok(Str(<<>>, 0), Pos(li, 1))
  ELSE IF \E i \in li..(first - 1) : L[i].indent > L[first].indent THEN fail
  ELSE LET b == Body(L, li, L[first].indent, <<>>)
           nl == CASE head.chomp = "-" -> 0 [] head.chomp = "" -> 1 [] head.chomp = "+" -> 1 + b.blanks
       IN  Ok(Str(IF head.style = "|" THEN b.content ELSE Fold(b.content), nl), Pos(b.next, 1))
-----------------------------------------------------------------------------
(* block nodes *)

RECURSIVE parse_block_node(_, _, _, _)
RECURSIVE parse_block_sequence(_, _, _, _, _)
RECURSIVE parse_block_mapping(_, _, _, _, _)

\* A value on the line of its key.
parse_scalar_node(L, p) ==
  IF Here(L, p).t = "word" /\ LineDone(L, Pos(p.li, p.k + 1))
  THEN Ok(Here(L, p).x, finish_line(p)) ELSE fail

\* "- item" in the column of the key is its value.
ZeroIndentSequence(L, p, n) == cur_indent(L, p) = n /\ at_sequence_dash(L, p)

parse_mapping_value(L, p, n, d) ==
  IF LineDone(L, p)
  THEN LET q == advance_to_content(L, finish_line(p)) IN
       IF AtEof(L, q) THEN Ok(Null, q)
       ELSE IF cur_indent(L, q) > n THEN parse_block_node(L, q, n + 1, d)
       ELSE IF ZeroIndentSequence(L, q, n) THEN parse_block_sequence(L, q, n, <<>>, d)
       ELSE Ok(Null, q)
  ELSE IF Here(L, p).t = "block" THEN parse_block_scalar(L, p, n)
  ELSE parse_scalar_node(L, p)

parse_block_node(L, p, min_indent, d) ==
  LET q == advance_to_content(L, p) IN
  IF d = YamlDepth THEN fail
  ELSE IF AtEof(L, q) THEN Ok(Null, q)
  ELSE IF cur_indent(L, q) < min_indent THEN Ok(Null, q)
  ELSE CASE at_document_marker(L, q) -> fail
         [] at_sequence_dash(L, q) -> parse_block_sequence(L, q, cur_indent(L, q), <<>>, d + 1)
         [] Here(L, q).t = "block" -> parse_block_scalar(L, q, L[q.li].indent)
         [] Here(L, q).t = "key" -> parse_block_mapping(L, q, cur_indent(L, q), <<>>, d + 1)
         [] OTHER -> parse_scalar_node(L, q)

parse_block_sequence(L, p, n, items, d) ==
  LET q == advance_to_content(L, p) IN
  IF AtEof(L, q) THEN Ok(ListOf(items), q)
  ELSE IF cur_indent(L, q) < n THEN Ok(ListOf(items), q)
  ELSE IF at_document_marker(L, q) \/ cur_indent(L, q) > n THEN fail
  ELSE IF ~at_sequence_dash(L, q) THEN Ok(ListOf(items), q)
  ELSE LET after == Pos(q.li, q.k + 1)
           r == parse_block_node(L, IF LineDone(L, after) THEN finish_line(q) ELSE after, n + 1, d)
       IN  IF ~r.ok THEN fail ELSE parse_block_sequence(L, r.at, n, Append(items, r.v), d)

parse_block_mapping(L, p, n, entries, d) ==
  LET q == advance_to_content(L, p) IN
  IF AtEof(L, q) THEN Ok(MapOf(entries), q)
  ELSE IF cur_indent(L, q) < n THEN Ok(MapOf(entries), q)
  ELSE IF cur_indent(L, q) > n \/ Here(L, q).t # "key" THEN fail
  ELSE IF \E i \in DOMAIN entries : entries[i][1] = Here(L, q).x THEN fail
  ELSE LET r == parse_mapping_value(L, Pos(q.li, q.k + 1), n, d)
       IN  IF ~r.ok THEN fail
           ELSE parse_block_mapping(L, r.at, n, Append(entries, <<Here(L, q).x, r.v>>), d)

run(L) ==
  LET p == advance_to_content(L, Pos(1, 1))
      start == IF AtEof(L, p) THEN p
               ELSE IF at_document_marker(L, p) THEN finish_line(p) ELSE p
      r == parse_block_node(L, start, 0, 0)
  IN  IF AtEof(L, p) THEN Ok(Null, p)
      ELSE IF r.ok /\ AtEof(L, advance_to_content(L, r.at)) THEN r ELSE fail
-----------------------------------------------------------------------------
(* the writer *)

IsMultiline(v) == v.y = "str" /\ (Len(v.ls) > 1 \/ v.nl > 0)
block_scalar_is_faithful(v) == \A i \in DOMAIN v.ls : v.ls[i] # <<>> => v.ls[i][1].c = 0
\* Mutant: a text that ends with a line break is clipped to one.
AlwaysClip(v) == IF v.nl = 0 THEN "-" ELSE ""
block_chomp_suffix(v) == CASE v.nl = 0 -> "-" [] v.nl = 1 -> "" [] OTHER -> "+"
BlockHead(c, v) == Tok(c, "block", [style |-> "|", chomp |-> block_chomp_suffix(v)])

write_block_scalar_body(v, depth) ==
  LET at == depth * Indent
      text == [i \in DOMAIN v.ls |-> Line(at, Shift(v.ls[i], at))]
  IN  (IF text = <<>> THEN <<Blank(at)>> ELSE text) \o [i \in 1..(v.nl - 1) |-> Blank(0)]

RECURSIVE write_mapping(_, _, _)
RECURSIVE write_sequence(_, _)

\* What follows "key:" or "-": <<the rest of its line, the lines below>>.
write_child(v, c, depth) ==
  CASE v.y = "map" /\ v.entries # <<>> -> <<<<>>, write_mapping(v, depth + 1, (depth + 1) * Indent)>>
    [] v.y = "seq" /\ v.items # <<>> -> <<<<>>, write_sequence(v, depth + 1)>>
    [] IsMultiline(v) /\ block_scalar_is_faithful(v) ->
         <<<<BlockHead(c, v)>>, write_block_scalar_body(v, depth + 1)>>
    [] OTHER -> <<<<Tok(c, "word", v)>>, <<>>>>

\* The first key stands where the caller's "- " left off.
write_mapping(v, depth, first) ==
  FlattenSeq([i \in DOMAIN v.entries |->
    LET c == IF i = 1 THEN first ELSE depth * Indent
        child == write_child(v.entries[i][2], c + 1, depth)
    IN  <<Line(c, <<Tok(c, "key", v.entries[i][1])>> \o child[1])>> \o child[2]])

write_sequence(v, depth) ==
  FlattenSeq([i \in DOMAIN v.items |->
    LET c == depth * Indent
        item == v.items[i]
        child == IF item.y = "map" /\ item.entries # <<>>
                 THEN LET m == write_mapping(item, depth + 1, c + 2) IN <<m[1].toks, Tail(m)>>
                 ELSE write_child(item, c + 2, depth)
    IN  <<Line(c, <<Tok(c, "-", Null)>> \o child[1])>> \o child[2]])

write(v) ==
  CASE v.y = "map" /\ v.entries # <<>> -> write_mapping(v, 0, 0)
    [] v.y = "seq" /\ v.items # <<>> -> write_sequence(v, 0)
    [] IsMultiline(v) /\ block_scalar_is_faithful(v) ->
         <<Line(0, <<BlockHead(0, v)>>)>> \o write_block_scalar_body(v, 1)
    [] OTHER -> <<Line(0, <<Tok(0, "word", v)>>)>>
-----------------------------------------------------------------------------
(* one-line strings *)

PlainChars == {"a", "7", " ", ":", "#", "'", "dq", "bs", "-", "ctl"}
CharAt(s, i) == IF i \in DOMAIN s THEN s[i] ELSE "end"
\* resolve_plain_scalar: digits alone, signed or not, are a number.
resolve_plain_scalar(s) ==
  LET u == IF s # <<>> /\ s[1] = "-" THEN Tail(s) ELSE s
  IN  IF s = <<>> THEN "Null"
      ELSE IF u # <<>> /\ \A i \in DOMAIN u : u[i] = "7" THEN "Integer" ELSE "String"

IsSeparator(s, i) == s[i] = ":" /\ CharAt(s, i + 1) \in {" ", "end"}
StartsComment(s, i) == s[i] = "#" /\ i > 1 /\ s[i - 1] = " "

plain_is_safe(s) ==
  /\ s # <<>> /\ resolve_plain_scalar(s) = "String"
  /\ s[1] \notin {" ", "-", ":", "#", "'", "dq"} /\ s[Len(s)] # " "
  /\ \A i \in DOMAIN s : s[i] # "ctl" /\ ~IsSeparator(s, i) /\ ~StartsComment(s, i)

Replace(s, with) == FoldLeft(LAMBDA out, c : out \o (IF c \in DOMAIN with THEN with[c] ELSE <<c>>), <<>>, s)
SingleEscapes == [x \in {"'"} |-> <<"'", "'">>]
DoubleEscapes == [x \in {"dq", "bs", "ctl"} |-> <<"bs", x>>]
write_string_inline(s) ==
  IF plain_is_safe(s) THEN s
  ELSE IF Contains(s, "ctl") THEN <<"dq">> \o Replace(s, DoubleEscapes) \o <<"dq">>
  ELSE <<"'">> \o Replace(s, SingleEscapes) \o <<"'">>

Bad == <<"failed">>
RECURSIVE parse_single_quoted(_, _, _)
parse_single_quoted(t, i, out) ==
  IF i > Len(t) THEN Bad
  ELSE IF t[i] # "'" THEN parse_single_quoted(t, i + 1, Append(out, t[i]))
  ELSE IF CharAt(t, i + 1) = "'" THEN parse_single_quoted(t, i + 2, Append(out, "'"))
  ELSE IF i = Len(t) THEN out ELSE Bad
RECURSIVE parse_double_quoted(_, _, _)
parse_double_quoted(t, i, out) ==
  IF i > Len(t) THEN Bad
  ELSE IF t[i] = "dq" THEN (IF i = Len(t) THEN out ELSE Bad)
  ELSE IF t[i] # "bs" THEN parse_double_quoted(t, i + 1, Append(out, t[i]))
  ELSE IF i = Len(t) THEN Bad ELSE parse_double_quoted(t, i + 2, Append(out, t[i + 1]))

parse_plain_scalar(t) ==
  LET comment == {i \in DOMAIN t : StartsComment(t, i)}
      cut == IF comment = {} THEN t ELSE SubSeq(t, 1, (CHOOSE i \in comment : \A j \in comment : i <= j) - 1)
      s == SubSeq(cut, 1, SelectLastInSeq(cut, LAMBDA c : c # " "))
  IN  IF (\E i \in DOMAIN cut : IsSeparator(t, i)) \/ resolve_plain_scalar(s) # "String" THEN Bad ELSE s

ReadBack(t) ==
  CASE CharAt(t, 1) = "'" -> parse_single_quoted(t, 2, <<>>)
    [] CharAt(t, 1) = "dq" -> parse_double_quoted(t, 2, <<>>)
    [] OTHER -> parse_plain_scalar(t)
-----------------------------------------------------------------------------
\* The lines tried: what may follow the dashes, after 0, 1 or 2 of them.
Contents(c) ==
  {<<Tok(c, "word", Word)>>, <<Tok(c, "word", Break)>>,
   <<Tok(c, "block", [style |-> "|", chomp |-> "+"])>>}
  \cup {<<Tok(c, "key", k)>> : k \in YamlKeys}
  \cup {<<Tok(c, "key", k), t>> : k \in YamlKeys,
          t \in {Tok(c + 1, "word", Word), Tok(c + 1, "block", [style |-> ">", chomp |-> ""])}}
Texts(c) ==
  Contents(c) \cup {<<>>, <<Tok(c, "#", Null)>>, <<Tok(c, "-", Null)>>}
  \cup {<<Tok(c, "-", Null)>> \o t : t \in Contents(c + 2)}
  \cup {<<Tok(c, "-", Null), Tok(c + 2, "-", Null), Tok(c + 4, "word", Word)>>}

Init == lines_ = <<>> /\ document_ = run(<<>>) /\ plain = <<>>

ReadLine(line) ==
  /\ plain = <<>> /\ Len(lines_) < MaxYamlLines /\ document_.ok
  /\ lines_' = Append(lines_, line) /\ document_' = run(lines_') /\ UNCHANGED plain

TypeChar(c) ==
  /\ lines_ = <<>> /\ Len(plain) < MaxPlain
  /\ plain' = Append(plain, c) /\ UNCHANGED <<lines_, document_>>

Next ==
  \/ \E c \in Columns : \E t \in Texts(c) : ReadLine(Line(c, t))
  \/ lines_ = <<>> /\ ReadLine(Line(0, <<Tok(0, "---", Null)>>))
  \/ \E c \in PlainChars : TypeChar(c)

Spec == Init /\ [][Next]_vars
-----------------------------------------------------------------------------
\* The string "\n" somewhere in a value.
RECURSIVE HasBreak(_)
HasBreak(v) ==
  CASE v.y = "seq" -> \E i \in DOMAIN v.items : HasBreak(v.items[i])
    [] v.y = "map" -> \E i \in DOMAIN v.entries : HasBreak(v.entries[i][2])
    [] OTHER -> v = Break

Rewritten(v) == run(write(v)).ok /\ run(write(v)).v = v

\* What is read is written and read again as the same value.
StructureRoundTrips == document_.ok /\ ~HasBreak(document_.v) => Rewritten(document_.v)

\* A string keeps its type and its characters, whatever quotes it needs.
PlainRoundTrips == ReadBack(write_string_inline(plain)) = plain

\* Together.
YamlSound == StructureRoundTrips /\ PlainRoundTrips

\* yaml_writer.hpp: write, then read, is faithful.
EveryValueRoundTrips == document_.ok => Rewritten(document_.v)
=============================================================================
