-------------------------------- MODULE Opt ---------------------------------
(***************************************************************************)
(* ca::opt::Parser::parse (opt.cpp): options in their spellings, injected  *)
(* initial values, subcommands, mutually exclusive groups.  The command    *)
(* line is read lazily, one argument a step; any line up to MaxArgs is a   *)
(* behaviour.  Help text and messages are left out.                        *)
(***************************************************************************)
EXTENDS Naturals, Sequences, FiniteSets, SequencesExt

CONSTANTS Root,         \* the root command
          Command,      \* command -> its definition: a record with
                        \*   args, required, mutex (sets), positional, subs,
                        \*   default (option -> value), valid (build_lookup)
          Kind,         \* option -> "flag", "string", "int", "list", "optional"
          Initials,     \* option -> injected value, "none" for no injection
          MaxArgs       \* bound: the arguments on the line

\* What may stand as a value: nothing, a number, a word.
OptValues == {"", "1", "x"}
Options == DOMAIN Kind
NoValue == "none"

VARIABLES
  current,              \* the command whose options are looked up
  path,                 \* the subcommands entered
  only_positional,      \* after --
  values_, sources_, lists_, positionals_,
  outcome,              \* "parsing", "ok" or a ParseErrorCategory
  argc,                 \* arguments consumed
  given                 \* history: option -> the values the line gave it

vars == <<current, path, only_positional, values_, sources_, lists_, positionals_,
          outcome, argc, given>>

kind_takes_value(k) == k \in {"string", "int", "list", "optional"}
parse_int_strict(v) == v = "1"
-----------------------------------------------------------------------------
\* Mutant: a seed overwrites what the line gave an outer command.
SeedsAll(cmd, n, src) == kind_takes_value(Kind[n])
Seeds(cmd, n, src) == kind_takes_value(Kind[n]) /\ src[n] # "CommandLine"

\* seed_option_values: the default, or the injected value in its place.
Injected(cmd) == {n \in Command[cmd].args : Seeds(cmd, n, sources_) /\ Initials[n] # NoValue}
Defaulted(cmd) == {n \in Command[cmd].args :
                     /\ Seeds(cmd, n, sources_) /\ Initials[n] = NoValue
                     /\ Command[cmd].default[n] # NoValue}
SeedError(cmd) ==
  IF \E n \in Injected(cmd) : Initials[n] = "" THEN "EmptyValue"
  ELSE IF \E n \in Injected(cmd) : Kind[n] = "int" /\ ~parse_int_strict(Initials[n])
       THEN "InvalidInteger" ELSE NoValue

seed_option_values(cmd) ==
  /\ sources_' = [n \in Options |-> IF n \in Injected(cmd) THEN "Initial"
                    ELSE IF n \in Defaulted(cmd) THEN "Default" ELSE sources_[n]]
  /\ values_' = [n \in Options |-> IF n \in Injected(cmd) THEN Initials[n]
                    ELSE IF n \in Defaulted(cmd) THEN Command[cmd].default[n] ELSE values_[n]]
  /\ lists_' = [n \in Options |-> IF n \in Injected(cmd) /\ Kind[n] = "list"
                    THEN Append(lists_[n], Initials[n]) ELSE lists_[n]]

\* required options and mutex groups, checked when a command is left.
chosen(n) == sources_[n] \in {"CommandLine", "Initial"}
FinalizeError(cmd) ==
  LET def == Command[cmd]
      Picked(g) == Cardinality({n \in g.names : chosen(n)})
  IN  IF \E n \in def.required : kind_takes_value(Kind[n]) /\ values_[n] = NoValue
      THEN "MissingRequired"
      ELSE IF \E g \in def.mutex : Picked(g) > 1 THEN "MutexConflict"
      ELSE IF \E g \in def.mutex : g.required /\ Picked(g) = 0 THEN "MutexRequired"
      ELSE NoValue

Init ==
  /\ current = NoValue /\ path = <<>> /\ only_positional = FALSE
  /\ values_ = [n \in Options |-> NoValue] /\ sources_ = [n \in Options |-> "None"]
  /\ lists_ = [n \in Options |-> <<>>] /\ positionals_ = <<>>
  /\ outcome = "parsing" /\ argc = 0 /\ given = [n \in Options |-> <<>>]

Parsing == outcome = "parsing"
Args(n) == Parsing /\ current # NoValue /\ argc + n <= MaxArgs /\ argc' = argc + n
Rest == <<current, path, only_positional, positionals_>>
Results == <<values_, sources_, lists_>>

fail(category) ==
  /\ outcome' = category
  /\ UNCHANGED <<Rest, Results, given>>

\* build_lookup, validate_mutex_groups and the seeds, on entering a command
enter(cmd) ==
  IF ~Command[cmd].valid
  THEN outcome' = "InvalidDefinition" /\ UNCHANGED <<current, Results>>
  ELSE IF SeedError(cmd) # NoValue
  THEN outcome' = SeedError(cmd) /\ UNCHANGED <<current, Results>>
  ELSE current' = cmd /\ seed_option_values(cmd) /\ UNCHANGED outcome

start ==
  /\ Parsing /\ current = NoValue
  /\ enter(Root)
  /\ UNCHANGED <<path, only_positional, positionals_, argc, given>>

put_value(n, v) ==
  /\ values_' = [values_ EXCEPT ![n] = v]
  /\ sources_' = [sources_ EXCEPT ![n] = "CommandLine"]
  /\ lists_' = [lists_ EXCEPT ![n] = IF Kind[n] = "list" THEN Append(@, v) ELSE @]
  /\ given' = [given EXCEPT ![n] = Append(@, v)]
  /\ UNCHANGED <<outcome, Rest>>

Known(n) == n \in Command[current].args
ValueError(n, v) ==
  IF v = "" THEN "EmptyValue"
  ELSE IF Kind[n] = "int" /\ ~parse_int_strict(v) THEN "InvalidInteger" ELSE NoValue

\* consume_option_value and the -x forms: how the value is spelt.
\*   bare: --name, -x;  inline: --name=v, -xv;  spaced: --name v, -x v
option_bare(n) ==
  /\ Args(1) /\ ~only_positional /\ Known(n)
  /\ \/ Kind[n] = "flag" /\ put_value(n, "true")
     \/ Kind[n] = "optional" /\ put_value(n, "")
     \/ Kind[n] \notin {"flag", "optional"} /\ fail("MissingValue")

option_inline(n, v) ==
  /\ Args(1) /\ ~only_positional /\ Known(n)
  /\ \/ Kind[n] = "flag" /\ fail("UnexpectedArgument")
     \/ Kind[n] = "optional" /\ put_value(n, v)
     \/ /\ Kind[n] \notin {"flag", "optional"}
        /\ IF ValueError(n, v) # NoValue THEN fail(ValueError(n, v)) ELSE put_value(n, v)

option_spaced(n, v) ==
  /\ Args(2) /\ ~only_positional /\ Known(n) /\ Kind[n] \notin {"flag", "optional"}
  /\ IF ValueError(n, v) # NoValue THEN fail(ValueError(n, v)) ELSE put_value(n, v)

\* -ab: the first is a flag; each must be known and a flag, those before a
\* wrong one are already set.
cluster(a, b) ==
  /\ Args(1) /\ ~only_positional /\ Known(a) /\ Kind[a] = "flag" /\ a # b
  /\ values_' = [n \in Options |-> IF n = a \/ (n = b /\ Known(b) /\ Kind[b] = "flag")
                                   THEN "true" ELSE values_[n]]
  /\ sources_' = [n \in Options |-> IF values_'[n] = "true" THEN "CommandLine" ELSE sources_[n]]
  /\ given' = [n \in Options |-> IF n = a \/ (n = b /\ Known(b) /\ Kind[b] = "flag")
                                 THEN Append(given[n], "true") ELSE given[n]]
  /\ outcome' = IF ~Known(b) THEN "UnknownOption"
                ELSE IF Kind[b] # "flag" THEN "UnexpectedArgument" ELSE outcome
  /\ UNCHANGED <<lists_, Rest>>

option_unknown(n) == Args(1) /\ ~only_positional /\ ~Known(n) /\ fail("UnknownOption")

help == ~only_positional /\ Args(1) /\ fail("HelpRequested")

double_dash ==
  /\ ~only_positional /\ Args(1) /\ only_positional' = TRUE
  /\ UNCHANGED <<current, path, positionals_, Results, outcome, given>>

\* A bare word: a subcommand first, then a positional, then an error.
subcommand(cmd) ==
  /\ ~only_positional /\ Args(1) /\ cmd \in Command[current].subs
  /\ IF FinalizeError(current) # NoValue
     THEN outcome' = FinalizeError(current) /\ UNCHANGED <<current, path, Results>>
     ELSE enter(cmd) /\ path' = Append(path, cmd)
  /\ UNCHANGED <<only_positional, positionals_, given>>

word(w) ==
  /\ Args(1)
  /\ IF only_positional \/ Command[current].positional
     THEN positionals_' = Append(positionals_, w) /\ UNCHANGED outcome
     ELSE outcome' = "UnexpectedArgument" /\ UNCHANGED positionals_
  /\ UNCHANGED <<current, path, only_positional, Results, given>>

finish ==
  /\ Parsing /\ current # NoValue
  /\ outcome' = IF FinalizeError(current) = NoValue THEN "ok" ELSE FinalizeError(current)
  /\ UNCHANGED <<Rest, Results, argc, given>>

Next ==
  \/ start \/ help \/ double_dash \/ word("w") \/ finish
  \/ \E n \in Options :
       \/ option_bare(n) \/ option_unknown(n)
       \/ \E v \in OptValues : option_inline(n, v) \/ option_spaced(n, v)
       \/ \E b \in Options : cluster(n, b)
  \/ \E cmd \in DOMAIN Command : subcommand(cmd)

Spec == Init /\ [][Next]_vars
-----------------------------------------------------------------------------
Visited == {Root} \cup Range(path)

\* default < injected < command line, in every command of the path: an inner
\* command's seeds do not undo what an outer one was given.  Lists append.
Precedence ==
  outcome = "ok" => \A n \in Options :
    LET holders == {c \in Visited : n \in Command[c].args}
    IN  IF given[n] # <<>>
        THEN /\ sources_[n] = "CommandLine" /\ values_[n] = Last(given[n])
             /\ Kind[n] = "list" => IsSuffix(given[n], lists_[n])
        ELSE IF holders # {} /\ kind_takes_value(Kind[n]) /\ Initials[n] # NoValue
        THEN sources_[n] = "Initial" /\ values_[n] = Initials[n]
        ELSE sources_[n] \in {"None", "Default"}
             /\ (sources_[n] = "Default") = (\E c \in holders : Command[c].default[n] # NoValue)

\* What is accepted satisfies the constraints of the innermost command, and
\* those that an outer one had when it was left are not undone by seeding.
ConstraintsHold ==
  outcome = "ok" =>
    /\ FinalizeError(current) = NoValue
    /\ \A c \in Visited : \A n \in Command[c].required :
         kind_takes_value(Kind[n]) => values_[n] # NoValue

\* Together.
OptSound == Precedence /\ ConstraintsHold
=============================================================================
