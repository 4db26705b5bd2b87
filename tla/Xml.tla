-------------------------------- MODULE Xml ---------------------------------
(***************************************************************************)
(* ca::xml: XmlParser (xml_parser.cpp) as a machine that is fed the text   *)
(* one piece at a time (a tag, a character, a reference, a comment, ...),  *)
(* and XmlWriter (xml_writer.cpp), which gives the pieces of a document.   *)
(***************************************************************************)
EXTENDS Naturals, Sequences, SequencesExt

CONSTANTS Trim,         \* XmlParserOptions::trim_whitespace
          XmlDepth,     \* max_depth
          MaxPieces     \* bound: pieces of the text

VARIABLES parser, npieces
vars == <<parser, npieces>>

\* Pieces.  A character stands for itself or is referred to (&lt; &#xA; ...).
Raw(c) == [p |-> "char", c |-> c]
Ref(c) == [p |-> "ref", c |-> c]
OpenTag(n, attrs) == [p |-> "open", name |-> n, attrs |-> attrs]
EmptyTag(n, attrs) == [p |-> "empty", name |-> n, attrs |-> attrs]
CloseTag(n) == [p |-> "close", name |-> n]
Comment(c) == [p |-> "comment", c |-> c]
Cdata(s) == [p |-> "cdata", c |-> s]
Other(p) == [p |-> p]

\* Nodes.
Element(n, attrs, kids) == [t |-> "element", name |-> n, attrs |-> attrs, kids |-> kids]
Leaf(t, v) == [t |-> t, v |-> v]
IsText(node) == node.t \in {"text", "cdata"}
-----------------------------------------------------------------------------
(* the parser *)

Start ==
  [stack |-> <<>>, text |-> <<>>, roots |-> <<>>, prolog |-> <<>>, epilog |-> <<>>,
   present |-> FALSE, begun |-> FALSE, failed |-> FALSE]
fail(s) == [s EXCEPT !.failed = TRUE]
all_whitespace(s) == \A i \in DOMAIN s : s[i] = "ws"

append_child(s, node) ==
  IF s.stack = <<>> THEN [s EXCEPT !.roots = Append(@, node)]
  ELSE [s EXCEPT !.stack[Len(s.stack)].kids = Append(@, node)]

\* Mutant: white space is kept if an element came before it.
TrimsFirst(s) == Trim /\ all_whitespace(s.text) /\ s.stack[Len(s.stack)].kids = <<>>
Drops(s) == Trim /\ all_whitespace(s.text)
flush_text(s) ==
  IF s.text = <<>> THEN s
  ELSE LET out == [s EXCEPT !.text = <<>>]
       IN  IF Drops(s) THEN out ELSE append_child(out, Leaf("text", s.text))

\* A value in double quotes: no raw < or quote, the rest decoded.
parse_attr_value(v) ==
  IF \E i \in DOMAIN v : v[i] \in {Raw("lt"), Raw("quot"), Raw("amp"), Ref("unknown")}
  THEN <<>> ELSE <<[i \in DOMAIN v |-> v[i].c]>>

parse_attributes(attrs) ==
  FoldLeft(LAMBDA acc, a :
             IF acc = <<>> THEN <<>>
             ELSE IF parse_attr_value(a[2]) = <<>> \/ \E i \in DOMAIN acc[1] : acc[1][i][1] = a[1]
             THEN <<>> ELSE <<Append(acc[1], <<a[1], parse_attr_value(a[2])[1]>>)>>,
           <<<<>>>>, attrs)

Inside(s) == s.stack # <<>>
\* parse_misc stands at the element's start; run refuses a second root.
MayOpen(s) == (Inside(s) \/ s.roots = <<>>) /\ Len(s.stack) < XmlDepth

parse_element(s, piece) ==
  LET attrs == parse_attributes(piece.attrs)
      f == flush_text(s)
  IN
  IF ~MayOpen(s) \/ attrs = <<>> THEN fail(s)
  ELSE IF piece.p = "empty" THEN append_child(f, Element(piece.name, attrs[1], <<>>))
  ELSE [f EXCEPT !.stack = Append(@, Element(piece.name, attrs[1], <<>>))]

parse_end_tag(s, piece) ==
  IF ~Inside(s) THEN fail(s)
  ELSE LET f == flush_text(s)
           el == f.stack[Len(f.stack)]
       IN  IF el.name # piece.name THEN fail(s)
           ELSE append_child([f EXCEPT !.stack = Front(@)], el)

parse_reference(s, c) ==
  IF c = "unknown" \/ ~Inside(s) THEN fail(s) ELSE [s EXCEPT !.text = Append(@, c)]

\* A character between the tags; outside the root only white space.
parse_content(s, c) ==
  IF c = "lt" THEN fail(s)
  ELSE IF Inside(s) THEN [s EXCEPT !.text = Append(@, c)]
  ELSE IF c = "ws" THEN s ELSE fail(s)

parse_comment(s, c) ==
  IF Inside(s) THEN append_child(flush_text(s), Leaf("comment", c))
  ELSE IF s.roots = <<>> THEN [s EXCEPT !.prolog = Append(@, Leaf("comment", c))]
  ELSE [s EXCEPT !.epilog = Append(@, Leaf("comment", c))]

parse_cdata(s, c) == IF ~Inside(s) THEN fail(s) ELSE append_child(flush_text(s), Leaf("cdata", c))

\* Only at the very start.
parse_declaration(s) == IF s.begun THEN fail(s) ELSE [s EXCEPT !.present = TRUE]

Feed(s, piece) ==
  LET next ==
        CASE piece.p \in {"open", "empty"} -> parse_element(s, piece)
          [] piece.p = "close" -> parse_end_tag(s, piece)
          [] piece.p = "char" -> parse_content(s, piece.c)
          [] piece.p = "ref" -> parse_reference(s, piece.c)
          [] piece.p = "comment" -> parse_comment(s, piece.c)
          [] piece.p = "cdata" -> parse_cdata(s, piece.c)
          [] piece.p = "decl" -> parse_declaration(s)
          [] piece.p \in {"doctype", "pi"} -> fail(s)
  IN  IF s.failed THEN s ELSE [next EXCEPT !.begun = TRUE]

\* run() returns true
Complete(s) == ~s.failed /\ s.stack = <<>> /\ Len(s.roots) = 1
run(pieces) == FoldLeft(Feed, Start, pieces)
-----------------------------------------------------------------------------
(* the writer *)

newline == <<Raw("ws")>>
indent(depth) == [i \in 1..depth |-> Raw("ws")]
emit_text_escaped(s) ==
  [i \in DOMAIN s |-> IF s[i] \in {"amp", "lt", "gt"} THEN Ref(s[i]) ELSE Raw(s[i])]
emit_attr_escaped(s) ==
  [i \in DOMAIN s |-> IF s[i] \in {"amp", "lt", "quot", "ws"} THEN Ref(s[i]) ELSE Raw(s[i])]

element_has_text(el) == \E i \in DOMAIN el.kids : IsText(el.kids[i])

Written(el) == [i \in DOMAIN el.attrs |-> <<el.attrs[i][1], emit_attr_escaped(el.attrs[i][2])>>]
emit_open_tag(el) ==
  IF el.kids = <<>> THEN <<EmptyTag(el.name, Written(el))>> ELSE <<OpenTag(el.name, Written(el))>>

emit_leaf_inline(node) ==
  CASE node.t = "text" -> emit_text_escaped(node.v)
    [] node.t = "cdata" -> <<Cdata(node.v)>>
    [] node.t = "comment" -> <<Comment(node.v)>>

RECURSIVE write_inline(_)
write_inline(node) ==
  IF node.t # "element" THEN emit_leaf_inline(node)
  ELSE emit_open_tag(node)
       \o IF node.kids = <<>> THEN <<>>
          ELSE FlattenSeq([i \in DOMAIN node.kids |-> write_inline(node.kids[i])])
               \o <<CloseTag(node.name)>>

\* An element with text among its children is written in one line.
RECURSIVE write_block_child(_, _)
write_block_child(node, depth) ==
  indent(depth)
  \o (IF node.t # "element" THEN emit_leaf_inline(node)
      ELSE IF node.kids = <<>> \/ element_has_text(node) THEN write_inline(node)
      ELSE emit_open_tag(node) \o newline
           \o FlattenSeq([i \in DOMAIN node.kids |-> write_block_child(node.kids[i], depth + 1)])
           \o indent(depth) \o <<CloseTag(node.name)>>)
  \o newline

write(s) ==
  (IF s.present THEN <<Other("decl")>> \o newline ELSE <<>>)
  \o FlattenSeq([i \in DOMAIN s.prolog |-> write_block_child(s.prolog[i], 0)])
  \o write_block_child(s.roots[1], 0)
  \o FlattenSeq([i \in DOMAIN s.epilog |-> write_block_child(s.epilog[i], 0)])
-----------------------------------------------------------------------------
Attrs == {<<>>, <<<<"k", <<Raw("x")>>>>>>, <<<<"k", <<Ref("lt"), Raw("gt")>>>>>>,
          <<<<"k", <<Raw("lt")>>>>>>, <<<<"k", <<>>>>, <<"k", <<Ref("ws")>>>>>>,
          <<<<"k", <<Ref("quot"), Raw("ws")>>>>, <<"m", <<Ref("amp")>>>>>>}
Pieces ==
  {OpenTag("e", at) : at \in Attrs} \cup {OpenTag("f", <<>>)}
  \cup {EmptyTag("f", at) : at \in Attrs}
  \cup {CloseTag("e"), CloseTag("f"), Comment("c"), Cdata("d")}
  \cup {Raw(c) : c \in {"x", "ws", "gt", "lt"}}
  \cup {Ref(c) : c \in {"lt", "ws", "unknown"}}
  \cup {Other(p) : p \in {"decl", "doctype", "pi"}}

Init == parser = Start /\ npieces = 0

Read(piece) ==
  /\ ~parser.failed /\ npieces < MaxPieces
  /\ parser' = Feed(parser, piece) /\ npieces' = npieces + 1

Next == \E piece \in Pieces : Read(piece)
Spec == Init /\ [][Next]_vars
-----------------------------------------------------------------------------
Same(a, b) ==
  /\ a.roots = b.roots /\ a.prolog = b.prolog /\ a.epilog = b.epilog /\ a.present = b.present

\* Indentation is added only where the reader drops it: a document that was
\* read is written and read again as the same nodes.
DocumentRoundTrips ==
  Trim /\ Complete(parser) =>
    LET again == run(write(parser)) IN Complete(again) /\ Same(again, parser)

\* No run of white space alone is a text node, and no text node is empty or
\* stands next to another, at any depth.
RECURSIVE CleanText(_)
CleanText(el) ==
  \A i \in DOMAIN el.kids :
    LET kid == el.kids[i] IN
    /\ kid.t = "text" => /\ kid.v # <<>> /\ Trim => ~all_whitespace(kid.v)
                         /\ i < Len(el.kids) => el.kids[i + 1].t # "text"
    /\ kid.t = "element" => CleanText(kid)

\* Together.
XmlSound ==
  /\ DocumentRoundTrips
  /\ Complete(parser) => CleanText(parser.roots[1])
=============================================================================
