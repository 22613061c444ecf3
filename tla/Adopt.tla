------------------------------- MODULE Adopt -------------------------------
(***************************************************************************)
(* The option parser (libs/adopt.c:39-574), for the kinds of options that  *)
(* the commands have: switches, options with a value, "--" and a list of   *)
(* arguments, none of them required, a choice or hidden. One step is one   *)
(* call of adopt_parser_next.                                              *)
(*                                                                         *)
(* An argument is what its spelling makes of it: a long option, after its  *)
(* dashes, with or without "=" and a value; a cluster of letters; a word.  *)
(* Any of them may also be a value, or a file.                             *)
(***************************************************************************)
EXTENDS Integers, SequencesExt, FiniteSetsExt

CONSTANTS
    Options,        \* specs: a sequence of [type, name, alias]
    CommandLines    \* what may follow the name of the command

\* Switches and options with a value have names, and no two the same; only
\* switches have an alias, each its own. No alias is written "". There is an
\* option with a value, the first one without alias, and a "--"
\* (show.c:128-139).
ASSUME OptionsAssumption ==
    LET Settable == {"SWITCH", "VALUE"} IN
    /\ Options \in Seq(ToSet(Options))
    /\ \A o \in DOMAIN Options :
          /\ Options[o].type \in Settable \cup {"LITERAL", "ARGS"}
          /\ Options[o].type # "SWITCH" => Options[o].alias = ""
          /\ Options[o].type \in Settable => Options[o].name # ""
    /\ \A o, p \in DOMAIN Options :
          \/ /\ Options[o].type \in Settable /\ Options[p].type \in Settable
             /\ Options[o].name = Options[p].name
          \/ Options[o].alias = Options[p].alias /\ Options[o].alias # ""
          => o = p
    /\ \E o \in DOMAIN Options :
          /\ Options[o].type = "VALUE"
          /\ \A p \in 1..(o - 1) : Options[p].alias # ""
    /\ \E o \in DOMAIN Options : Options[o].type = "LITERAL"

VARIABLES
    argv,           \* the arguments
    idx,            \* parser->idx, from 1
    in_short,       \* letters of a cluster that have been read
    in_literal,     \* "--" has been read
    in_args,        \* length of the list of arguments
    list,           \* where the list begins in argv; 0 if there is none
    switches,       \* the switches that are set
    values,         \* the values that are set
    given,          \* given_idx: options found
    status          \* "parsing", then the result of adopt_parse

set == <<switches, values>>
parser == <<idx, in_short, in_literal, in_args, list>>
avars == <<argv, parser, set, given, status>>

NULL == [type |-> "NULL"]
Word(text)        == [type |-> "word", text |-> text]
Long(name, value) == [type |-> "long", name |-> name, value |-> value]
Short(letters)    == [type |-> "short", letters |-> letters]

\* "--name=" has the empty string for its value.
Empty == Word("")
\* Whatever is behind the end of an argument's string.
Beyond == [type |-> "beyond"]

\* A line is a sequence of arguments of three kinds. No letter is written "".
ASSUME LinesAssumption ==
    \A line \in CommandLines :
       /\ line \in Seq(ToSet(line))
       /\ \A a \in ToSet(line) :
             /\ a.type \in {"word", "long", "short"}
             /\ a.type = "long" => a = Long(a.name, a.value)
             /\ a.type = "short" => /\ a = Short(a.letters)
                                    /\ a.letters \in Seq(ToSet(a.letters) \ {""})

Names(type) == {Options[o].name : o \in {o \in DOMAIN Options : Options[o].type = type}}

OptionsInit ==
    /\ argv \in CommandLines
    /\ idx = 1 /\ in_short = 0 /\ in_literal = FALSE /\ in_args = 0
    /\ list = 0
    /\ switches = {} /\ values = [n \in Names("VALUE") |-> NULL]
    /\ given = 0
    /\ status = "parsing"

-----------------------------------------------------------------------------
(* The option an argument is, by its place in Options *)

MatchesLong(o, a) ==
    \/ o.type = "LITERAL" /\ a = Long("", NULL)
    \/ o.type \in {"SWITCH", "VALUE"} /\ a = Long(o.name, NULL)
    \/ o.type = "VALUE" /\ a.name = o.name /\ a.value # NULL

spec_for_long(a) == {o \in DOMAIN Options : MatchesLong(Options[o], a)}
spec_for_short(letter) == {o \in DOMAIN Options : Options[o].alias = letter}

arg == argv[idx]
letter == IF arg.letters = <<>> THEN "" ELSE arg.letters[in_short + 1]

AtLong == /\ status = "parsing" /\ idx <= Len(argv)
          /\ arg.type = "long" /\ in_short = 0 /\ ~in_literal
AtShort == /\ status = "parsing" /\ idx <= Len(argv)
           /\ arg.type = "short" /\ ~in_literal

Matches == IF arg.type = "long" THEN spec_for_long(arg) ELSE spec_for_short(letter)
option == Options[Min(Matches)]

-----------------------------------------------------------------------------
(* parse_long, parse_short, parse_arg *)

\* given_specs has room for an option an argument, and one more; what is
\* written behind it may do anything.
Record == /\ given' = given + 1
          /\ status' = IF given > Len(argv) THEN "undefined" ELSE "parsing"

Refuse(why) == status' = why /\ UNCHANGED <<argv, parser, set, given>>

UnknownOption ==
    /\ AtLong \/ AtShort
    /\ Matches = {}
    /\ Refuse("UNKNOWN_OPTION")

Literal ==
    /\ AtLong /\ Matches # {} /\ option.type = "LITERAL"
    /\ in_literal' = TRUE
    /\ idx' = idx + 1
    /\ Record
    /\ UNCHANGED <<argv, in_short, in_args, list, set>>

LongSwitch ==
    /\ AtLong /\ Matches # {} /\ option.type = "SWITCH"
    /\ switches' = switches \cup {option.name}
    /\ idx' = idx + 1
    /\ Record
    /\ UNCHANGED <<argv, in_short, in_literal, in_args, list, values>>

\* Faulty: in_short keeps its value at the end of a cluster.
ShortSwitch_stuck ==
    /\ AtShort /\ Matches # {} /\ option.type = "SWITCH"
    /\ switches' = switches \cup {option.name}
    /\ in_short' = IF in_short + 1 < Len(arg.letters) THEN in_short + 1 ELSE 0
    /\ idx' = idx + 1
    /\ Record
    /\ UNCHANGED <<argv, in_literal, in_args, list, values>>

\* One letter of a cluster.
ShortSwitch ==
    /\ AtShort /\ Matches # {} /\ option.type = "SWITCH"
    /\ switches' = switches \cup {option.name}
    /\ IF in_short + 1 < Len(arg.letters)
         THEN in_short' = in_short + 1 /\ UNCHANGED idx
         ELSE in_short' = 0 /\ idx' = idx + 1
    /\ Record
    /\ UNCHANGED <<argv, in_literal, in_args, list, values>>

\* The values there are for an option: after "=", the next argument, or none.
\* A lone dash is read as an option without alias, and past its end.
ValuesHere ==
    LET next == IF idx < Len(argv) THEN {<<argv[idx + 1], 2>>} ELSE {<<NULL, 1>>}
    IN  IF arg.type = "short"    THEN {<<Beyond, 1>>} \cup next
        ELSE IF arg.value = NULL THEN next
        ELSE {<<IF arg.value = Empty THEN NULL ELSE arg.value, 1>>}

Value ==
    /\ AtLong \/ AtShort
    /\ Matches # {} /\ option.type = "VALUE"
    /\ \E v \in ValuesHere :
          \/ /\ v[1] = NULL
             /\ Refuse("MISSING_VALUE")
          \/ /\ v[1] # NULL
             /\ values' = [values EXCEPT ![option.name] = v[1]]
             /\ idx' = idx + v[2]
             /\ in_short' = 0
             /\ Record
             /\ UNCHANGED <<argv, in_literal, in_args, list, switches>>

\* A word, or anything after "--": the rest of the line is not looked at.
parse_arg ==
    /\ status = "parsing" /\ idx <= Len(argv)
    /\ arg.type = "word" \/ in_literal
    /\ list' = idx
    /\ in_args' = Len(argv) - idx + 1
    /\ idx' = Len(argv) + 1
    /\ Record
    /\ UNCHANGED <<argv, in_short, in_literal, set>>

Finish ==
    /\ status = "parsing" /\ idx > Len(argv)
    /\ status' = IF given > Len(argv) THEN "undefined" ELSE "done"
    /\ UNCHANGED <<argv, parser, set, given>>

adopt_parse ==
    \/ UnknownOption
    \/ Literal \/ LongSwitch \/ ShortSwitch \/ Value
    \/ parse_arg
    \/ Finish

-----------------------------------------------------------------------------
(* What a command line says, from left to right *)

Meaning(sw, vs, files) ==
    [type |-> "ok", switches |-> sw, values |-> vs, files |-> files]

\* What adopt_parse has made of it.
Parsed == Meaning(switches, values,
                  IF list = 0 THEN <<>> ELSE SubSeq(argv, list, list + in_args - 1))

Refused     == [type |-> "refused"]
Unspecified == [type |-> "unspecified"]
NoValues    == [n \in Names("VALUE") |-> NULL]

\* What comes later on the line goes before.
Adding(sw, rest) ==
    IF rest.type = "ok" THEN Meaning(sw \cup rest.switches, rest.values, rest.files)
                        ELSE rest
Setting(name, value, rest) ==
    IF rest.type = "ok" /\ rest.values[name] = NULL
      THEN Meaning(rest.switches, [rest.values EXCEPT ![name] = value], rest.files)
      ELSE rest

Named(letters) == {Options[o].name : o \in
                      {o \in DOMAIN Options : Options[o].alias \in letters}}
Known(letters) == letters \subseteq {Options[o].alias : o \in DOMAIN Options}

\* The meaning of a line from its k-th argument on, given those from the
\* arguments after it on.
Reading(line, from, k) ==
    LET a       == line[k]
        rest(j) == SubSeq(line, j, Len(line))
    IN  IF k > Len(line) THEN Meaning({}, NoValues, <<>>) ELSE
        CASE a.type = "word"        -> Meaning({}, NoValues, rest(k))
          [] a = Long("", NULL)     -> Meaning({}, NoValues, rest(k + 1))
          [] a = Short(<<>>)        -> Unspecified
          [] a.type = "short" /\ a.letters # <<>> /\ Known(ToSet(a.letters)) ->
                Adding(Named(ToSet(a.letters)), from[k + 1])
          [] a.type = "long" /\ a.name \in Names("SWITCH") /\ a.value = NULL ->
                Adding({a.name}, from[k + 1])
          [] a.type = "long" /\ a.name \in Names("VALUE")
             /\ a.value \notin {NULL, Empty} ->
                Setting(a.name, a.value, from[k + 1])
          [] a.type = "long" /\ a.name \in Names("VALUE")
             /\ a.value = NULL /\ k < Len(line) ->
                Setting(a.name, line[k + 1], from[k + 2])
          [] OTHER                  -> Refused

Written(line) ==
    LET from[k \in 1..(Len(line) + 1)] == Reading(line, from, k) IN from[1]

\* However letters are put together, values attached and arguments put after
\* "--", the parser finds the options and the list the line is written with,
\* or else refuses the line (adopt.h:49-62, 74-79).
OptionsAsWritten ==
    Written(argv) # Unspecified =>
        /\ status = "done" => Parsed = Written(argv)
        /\ status \in {"UNKNOWN_OPTION", "MISSING_VALUE"} => Written(argv) = Refused
=============================================================================
