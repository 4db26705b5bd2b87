-------------------------------- MODULE Ini --------------------------------
(***************************************************************************)
(* The format-preserving INI document (ini_reader.cpp, ini_document.cpp,   *)
(* ini_writer.cpp).  `raw` is one key line as the reader splits it, and    *)
(* records_ a document that is edited with set, remove and remove_section. *)
(* A document's line is [kind, section, key, value, raw, quoted, ended]:   *)
(* value is what a lookup answers, raw the value in the text of the line,  *)
(* quoted is value_quoted, ended is FALSE for a last line without line     *)
(* ending.  A value is a text and the pairs of quotes around it.  The CSV  *)
(* reader and writer have a section and variables of their own.            *)
(***************************************************************************)
EXTENDS Naturals, Sequences, SequencesExt, FiniteSets

CONSTANTS
  MaxRaw, IniSections, IniKeys,
  IniValues, QuotedValues,           \* texts of bare values, and of values in quotes
  MaxRecords, MaxEdits, MaxCsv

VARIABLES
  raw, records_, values_of, edits,   \* INI
  csv, trim_unquoted_space           \* CSV

vars == <<raw, records_, values_of, edits>>
csvVars == <<csv, trim_unquoted_space>>
-----------------------------------------------------------------------------
(* parse_line over the characters that steer it *)

Chars == {"k", " ", "=", "#", "'", "\\"}

IsSpace(c) == c = " "

\* Positions that an odd run of backslashes escapes (escaped is reset by any other character).
Escaped(s) ==
  LET E[i \in 0 .. Len(s)] == IF i = 0 THEN FALSE
                              ELSE i > 1 /\ s[i - 1] = "\\" /\ ~E[i - 1]
  IN  [i \in 1 .. Len(s) |-> E[i]]

\* A position inside quotes, the closing quote excluded.
InQuote(s) ==
  LET esc == Escaped(s)
      Q[i \in 0 .. Len(s)] == IF i = 0 THEN FALSE
                              ELSE IF s[i] = "'" /\ ~esc[i] THEN ~Q[i - 1] ELSE Q[i - 1]
  IN  [i \in 1 .. Len(s) |-> Q[i]]

\* inline_comment_strict_whitespace
MarkerMayBegin(s, i) == i = 1 \/ IsSpace(s[i - 1])

\* One past the text before an inline comment.
find_inline_comment(s) ==
  LET esc == Escaped(s)
      quoted == InQuote(s)
      at == {i \in 1 .. Len(s) : s[i] = "#" /\ ~quoted[i] /\ ~esc[i] /\ MarkerMayBegin(s, i)}
  IN  IF at = {} THEN Len(s) + 1 ELSE Min(at)

Solid(s) == {i \in 1 .. Len(s) : ~IsSpace(s[i])}

\* First character that is not a space, and one past the last one that is not.
Begin(s) == Min(Solid(s) \cup {Len(s) + 1})
Past(s) == Max(Solid(s) \cup {0}) + 1

detect_quotes(v) == Len(v) >= 2 /\ v[1] = "'" /\ v[Len(v)] = "'" /\ ~Escaped(v)[Len(v)]

\* A text between the spaces around it, which are kept.
Piece(s, from, past) ==
  [before |-> SubSeq(s, 1, from - 1), text |-> SubSeq(s, from, past - 1),
   after |-> SubSeq(s, past, Len(s))]

KeyPiece(s) == Piece(s, Begin(s), Max({Begin(s), Past(s)}))

ValuePiece(s, comment) == Piece(s, Begin(s), Max({Begin(s), Past(SubSeq(s, 1, comment - 1))}))

KeyLine(k, v) ==
  [kind |-> "key", key_prefix |-> k.before, key |-> k.text, key_suffix |-> k.after,
   value_prefix |-> v.before, value |-> v.text, comment_suffix |-> v.after,
   value_quoted |-> detect_quotes(v.text)]

SplitAt(s, sep) ==
  KeyLine(KeyPiece(SubSeq(s, 1, sep - 1)),
          ValuePiece(SubSeq(s, sep + 1, Len(s)), find_inline_comment(SubSeq(s, sep + 1, Len(s)))))

\* The separators in front of an inline comment.
Separators(s, comment) == {i \in 1 .. comment - 1 : s[i] = "="}

\* The pieces a key/value line is split into; blank, comment and broken lines have none.
parse_line(s) ==
  IF Solid(s) = {} THEN [kind |-> "blank"]
  ELSE IF s[Begin(s)] = "#" THEN [kind |-> "comment"]
  ELSE IF Separators(s, find_inline_comment(s)) = {} THEN [kind |-> "error"]
  ELSE SplitAt(s, Min(Separators(s, find_inline_comment(s))))

Rebuilt(r, text) ==
  r.key_prefix \o r.key \o r.key_suffix \o <<"=">> \o r.value_prefix \o text \o r.comment_suffix

Quoted(text) == <<"'">> \o text \o <<"'">>

\* Mutant: the quotes of the old value are lost.
RebuiltBare(r, value) == Rebuilt(r, value)

\* set on an existing line: the quotes it had are put back around the new value.
rebuild_key_raw(r, value) == Rebuilt(r, IF r.value_quoted THEN Quoted(value) ELSE value)
-----------------------------------------------------------------------------
(* the document: find, set, remove *)

Lines(kind, s) == {i \in 1 .. Len(records_) : records_[i].kind = kind /\ records_[i].section = s}

KeyLines(s, k) == {i \in Lines("key", s) : records_[i].key = k}

\* KeepLast: rebuild_index leaves the last line of a section or key in the index.
IndexOf(S) == Max(S)

HeaderAfter(i) == {j \in i + 1 .. Len(records_) : records_[j].kind = "section"}

\* One past the last line before the next header.
EndFrom(i) == IF HeaderAfter(i) = {} THEN Len(records_) + 1 ELSE Min(HeaderAfter(i))

\* Mutant: a new key always goes to the end of the document.
AtTheEnd(s) == Len(records_) + 1

find_insert_position(s) ==
  IF s = "" THEN EndFrom(0)
  ELSE IF Lines("section", s) = {} THEN Len(records_) + 1
  ELSE EndFrom(IndexOf(Lines("section", s)))

Line(kind, s, k, v) ==
  [kind |-> kind, section |-> s, key |-> k, value |-> v, raw |-> v, quoted |-> FALSE, ended |-> TRUE]

\* Values of a document: a text and the pairs of quotes around it.
None == <<"none", 0>>
Glue == <<"glued", 0>>
DocValues == {<<v, 0>> : v \in IniValues} \cup {<<v, 1>> : v \in QuotedValues}
InQuotes(v) == <<v[1], v[2] + 1>>

\* A new section gets a blank line unless the document is empty or ends in one.
NewSection(s) ==
  (IF records_ # <<>> /\ Last(records_).kind # "blank"
   THEN <<Line("blank", "", "", None)>> ELSE <<>>)
  \o <<Line("section", s, "", None)>>

InsertedAt(seq, i, e) == SubSeq(seq, 1, i - 1) \o <<e>> \o SubSeq(seq, i, Len(seq))

\* The line of a key is rebuilt: its quotes are put around what it is set to.
SetLine(s, k, v) ==
  IF KeyLines(s, k) # {}
  THEN LET i == IndexOf(KeyLines(s, k))
       IN  [records_ EXCEPT ![i].value = v,
                            ![i].raw = IF records_[i].quoted THEN InQuotes(v) ELSE v]
  ELSE IF s # "" /\ Lines("section", s) = {}
       THEN records_ \o NewSection(s) \o <<Line("key", s, k, v)>>
       ELSE InsertedAt(records_, find_insert_position(s), Line("key", s, k, v))

\* Blank lines and comments before the next header stay behind a removed section.
SectionEnd(start) ==
  LET end == EndFrom(start)
      kept == {j \in start + 1 .. end : \A i \in j .. end - 1 : records_[i].kind \in {"blank", "comment"}}
  IN  IF end > Len(records_) THEN end ELSE Min(kept)

Dropped(start, end) == SubSeq(records_, 1, start - 1) \o SubSeq(records_, end, Len(records_))

\* What a lookup of every key answers.
find_value(recs) ==
  [p \in IniSections \X IniKeys |->
     LET at == {i \in 1 .. Len(recs) : recs[i].kind = "key" /\ recs[i].section = p[1] /\ recs[i].key = p[2]}
     IN  IF at = {} THEN None ELSE recs[IndexOf(at)].value]

\* IniWriter and IniReader again: a line without ending is glued to the one that follows it.
Reread(recs) ==
  LET Glued(i) == ~recs[i].ended /\ i < Len(recs)
      Sec[i \in 0 .. Len(recs)] == IF i = 0 THEN ""
                                   ELSE IF recs[i].kind = "section" THEN recs[i].section ELSE Sec[i - 1]
      kept == SelectSeq([i \in 1 .. Len(recs) |-> i], LAMBDA i : i = 1 \/ ~Glued(i - 1))
  IN  [n \in 1 .. Len(kept) |->
         LET i == kept[n] IN
         [recs[i] EXCEPT !.section = Sec[i],
                         !.value = IF recs[i].kind = "key" /\ Glued(i) /\ recs[i + 1].kind # "blank"
                                   THEN Glue ELSE recs[i].raw,
                         !.ended = TRUE]]
-----------------------------------------------------------------------------
(* behaviour *)

DocLines == {Line("section", s, "", None) : s \in IniSections \ {""}}
            \cup {Line("comment", "", "", None), Line("blank", "", "", None)}
            \cup {[Line("key", "", k, v) EXCEPT !.quoted = v[2] > 0] : k \in IniKeys, v \in DocValues}

Init == /\ raw = <<>> /\ records_ = <<>> /\ edits = 0
        /\ values_of = [p \in IniSections \X IniKeys |-> None]

SectionNow == LET at == {i \in 1 .. Len(records_) : records_[i].kind = "section"}
              IN  IF at = {} THEN "" ELSE records_[Max(at)].section

\* IniReader::read takes the next line of the file; the last one may lack a line ending.
ReadLine(l, ended) ==
  /\ raw = <<>> /\ edits = 0 /\ Len(records_) < MaxRecords
  /\ records_ # <<>> => Last(records_).ended
  /\ l.kind \in {"blank", "comment"} => ended
  /\ records_' = Append(records_, [l EXCEPT !.section = IF l.kind = "key" THEN SectionNow ELSE @,
                                            !.ended = ended])
  /\ values_of' = find_value(records_')
  /\ UNCHANGED <<raw, edits>>

Set(s, k, v) ==
  /\ raw = <<>> /\ edits < MaxEdits /\ edits' = edits + 1
  /\ records_' = SetLine(s, k, v)
  /\ values_of' = [values_of EXCEPT ![<<s, k>>] = v]
  /\ UNCHANGED raw

\* A removed key uncovers the line of the same name before it.
RemoveKey(s, k) ==
  /\ raw = <<>> /\ edits < MaxEdits /\ edits' = edits + 1
  /\ KeyLines(s, k) # {}
  /\ records_' = Dropped(IndexOf(KeyLines(s, k)), IndexOf(KeyLines(s, k)) + 1)
  /\ values_of' = [values_of EXCEPT ![<<s, k>>] = find_value(records_')[<<s, k>>]]
  /\ UNCHANGED raw

remove_section(s) ==
  /\ raw = <<>> /\ edits < MaxEdits /\ edits' = edits + 1
  /\ IF s = ""
     THEN /\ Lines("key", "") # {}
          /\ records_' = SelectSeq(records_, LAMBDA r : ~(r.kind = "key" /\ r.section = ""))
     ELSE /\ Lines("section", s) # {}
          /\ LET start == IndexOf(Lines("section", s))
             IN  records_' = Dropped(start, SectionEnd(start))
  /\ values_of' = [p \in DOMAIN values_of |->
                     IF p[1] = s THEN find_value(records_')[p] ELSE values_of[p]]
  /\ UNCHANGED raw

\* One more character of a single key line.
Type(c) == /\ records_ = <<>> /\ edits = 0 /\ Len(raw) < MaxRaw
           /\ raw' = Append(raw, c) /\ UNCHANGED <<records_, values_of, edits>>

Next == \/ \E c \in Chars : Type(c)
        \/ \E l \in DocLines, ended \in BOOLEAN : ReadLine(l, ended)
        \/ \E s \in IniSections, k \in IniKeys : RemoveKey(s, k) \/ \E v \in DocValues : Set(s, k, v)
        \/ \E s \in IniSections : remove_section(s)

Spec == Init /\ [][Next]_vars
-----------------------------------------------------------------------------
(* Properties *)

\* The pieces of a key line put together again are the line; a line without quotes
\* whose value is set to itself is not reformatted, and one with quotes gets a
\* second pair around the ones that are part of its value. A new value written into
\* a line whose comment stands apart is what the reader then finds there, with the
\* quotes the old value had, the comment unchanged.
LineIsKept ==
  LET r == parse_line(raw) IN
  r.kind = "key" =>
    /\ Rebuilt(r, r.value) = raw
    /\ rebuild_key_raw(r, r.value) = IF r.value_quoted THEN Rebuilt(r, Quoted(r.value)) ELSE raw
    /\ (r.comment_suffix # <<>> => IsSpace(r.comment_suffix[1])) =>
         LET again == parse_line(rebuild_key_raw(r, <<"k">>)) IN
         /\ again.kind = "key"
         /\ again.value = (IF r.value_quoted THEN Quoted(<<"k">>) ELSE <<"k">>)
         /\ again.comment_suffix = r.comment_suffix /\ again.key = r.key

\* However the document was edited, a lookup answers the last value set. If the file
\* ended with a line ending, so does the document read back from the text written:
\* keys stay in their section, removed ones stay removed, and a value is as it was
\* read or set, but for one pair of quotes around what was set on a line that had
\* quotes when it was read.
EditsAreKept ==
  /\ find_value(records_) = values_of
  /\ (\A i \in 1 .. Len(records_) : records_[i].ended \/ i = Len(records_)) =>
       \A s \in IniSections, k \in IniKeys :
         LET again == find_value(Reread(records_))[<<s, k>>]
             was == values_of[<<s, k>>]
         IN  \/ again = was
             \/ /\ edits > 0 /\ again = InQuotes(was)
                /\ KeyLines(s, k) # {} /\ records_[IndexOf(KeyLines(s, k))].quoted

\* Together.
IniSound == LineIsKept /\ EditsAreKept

\* Not so: what get answers can be given to set and leaves the line as it is.
SetToItselfIsKept ==
  LET r == parse_line(raw) IN r.kind = "key" => rebuild_key_raw(r, r.value) = raw

\* ini设计文档: a document that is read, edited and written keeps its lines.
\* A new key behind a last line without line ending is glued to it.
EditedTextReads ==
  \A p \in DOMAIN values_of :
    find_value(Reread(records_))[p] \in {values_of[p], InQuotes(values_of[p])}
-----------------------------------------------------------------------------
(* The other table-like format: CsvReader::read and CsvWriter::write        *)
(* (csv_reader.cpp, csv_writer.cpp).  The text is written character by      *)
(* character; the reader's state after it is a fold of one step per         *)
(* character.  Two looks ahead are states here: "closing" (a quote inside   *)
(* quotes, doubled or last) and "cr" (a line end that swallows a following  *)
(* LF).                                                                     *)

CsvChars == {"x", " ", ",", "q", "CR", "LF"}
-----------------------------------------------------------------------------
(* the reader *)

Empty == [mode |-> "plain", rows |-> <<>>, row |-> <<>>, field |-> <<>>, quoted |-> FALSE]

SpaceChars == {" ", "CR", "LF"}

trim_ascii_space(f) ==
  LET solid == {i \in 1 .. Len(f) : f[i] \notin SpaceChars}
  IN  IF solid = {} THEN <<>> ELSE SubSeq(f, Min(solid), Max(solid))

Trims(p) == ~p.quoted /\ trim_unquoted_space

finish_field(p) ==
  [p EXCEPT !.row = Append(@, IF Trims(p) THEN trim_ascii_space(p.field) ELSE p.field),
            !.field = <<>>, !.quoted = FALSE, !.mode = "plain"]

finish_row(p) ==
  LET f == finish_field(p) IN [f EXCEPT !.rows = Append(@, f.row), !.row = <<>>]

\* A character outside quotes.
Plain(p, ch) ==
  IF ch = "q" /\ p.field = <<>> THEN [p EXCEPT !.mode = "quotes", !.quoted = TRUE]
  ELSE IF ch = "," THEN finish_field(p)
  ELSE IF ch = "LF" /\ p.mode = "cr" THEN [p EXCEPT !.mode = "plain"]
  ELSE IF ch = "LF" THEN finish_row(p)
  ELSE IF ch = "CR" THEN [finish_row(p) EXCEPT !.mode = "cr"]
  ELSE IF p.quoted THEN [p EXCEPT !.mode = "error"]
  ELSE [p EXCEPT !.field = Append(@, ch), !.mode = "plain"]

Take(p, ch) ==
  CASE p.mode = "error" -> p
    [] p.mode = "quotes" -> IF ch = "q" THEN [p EXCEPT !.mode = "closing"]
                            ELSE [p EXCEPT !.field = Append(@, ch)]
    [] p.mode = "closing" /\ ch = "q" -> [p EXCEPT !.mode = "quotes", !.field = Append(@, "q")]
    [] OTHER -> Plain(p, ch)

\* A last row without line ending; an unterminated quoted field is an error.
Finish(p, t) ==
  IF p.mode \in {"error", "quotes"} THEN [p EXCEPT !.mode = "error"]
  ELSE IF t # <<>> /\ (p.field # <<>> \/ p.row # <<>> \/ Last(t) = "," \/ p.quoted)
       THEN finish_row(p) ELSE p

Read(t) == Finish(FoldLeft(Take, Empty, t), t)

Rejected(t) == Read(t).mode = "error"
-----------------------------------------------------------------------------
(* the writer *)

needs_quote(f) ==
  /\ f # <<>>
  /\ f[1] = " " \/ Last(f) = " " \/ \E i \in 1 .. Len(f) : f[i] \in {",", "q", "CR", "LF"}

\* Mutant: a quote inside the field is not doubled.
NotDoubled(ch) == <<ch>>

Doubled(ch) == IF ch = "q" THEN <<"q", "q">> ELSE <<ch>>

write_field(f) ==
  IF needs_quote(f)
  THEN <<"q">> \o FlattenSeq([i \in 1 .. Len(f) |-> Doubled(f[i])]) \o <<"q">>
  ELSE f

write_row(r) == FlattenSeq([i \in 1 .. Len(r) |-> IF i = 1 THEN write_field(r[i])
                                                  ELSE <<",">> \o write_field(r[i])])

write_to_stream(rows) == FlattenSeq([i \in 1 .. Len(rows) |-> IF i = 1 THEN write_row(rows[i])
                                                              ELSE <<"LF">> \o write_row(rows[i])])
-----------------------------------------------------------------------------
CsvInit == csv = <<>> /\ trim_unquoted_space \in BOOLEAN

TypeCsv(ch) == Len(csv) < MaxCsv /\ csv' = Append(csv, ch) /\ UNCHANGED trim_unquoted_space

CsvNext == \E ch \in CsvChars : TypeCsv(ch)
-----------------------------------------------------------------------------
(* Properties *)

\* A row of one empty field is written as an empty line, which the reader does
\* not see at the end of the text.
EndsInEmptyRow(rows) == rows # <<>> /\ Last(rows) = << <<>> >>

\* The table read from any text survives being written and read again: no
\* field gains or loses a space, a quote, a delimiter or a line end, and no
\* row splits or merges, unless the last row is one empty field.
CsvSound ==
  LET rows == Read(csv).rows
      again == Read(write_to_stream(rows))
  IN  ~Rejected(csv) /\ ~EndsInEmptyRow(rows) => again.mode # "error" /\ again.rows = rows
=============================================================================
