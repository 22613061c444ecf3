--------------------------- MODULE MCShowCommand ---------------------------
\* Instances of ShowCommand for TLC.
EXTENDS ShowCommand

CONSTANTS garbage

\* show.c:128-139
Switch(name, alias) == [type |-> "SWITCH", name |-> name, alias |-> alias]
Valued(name)        == [type |-> "VALUE", name |-> name, alias |-> ""]
Other(type)         == [type |-> type, name |-> "", alias |-> ""]

ShowOptions ==
    <<Switch("help", "h"), Switch("version", "v"), Switch("download", "d"),
      Switch("text", "t"), Valued("charset"), Valued("mimetype"),
      Valued("filename"), Other("LITERAL"), Other("ARGS")>>

\* Two files, one of which looks like an option, and a path of none.
a == Word("a")
t == Short(<<"t">>)
MCFile == {a, t}

MCArguments ==
    {a, t, Word("none"), Short(<<>>), Short(<<"d", "t">>), Short(<<"d", "q">>),
     Long("", NULL), Long("help", NULL), Long("text", Word("x")), Long("nope", NULL),
     Long("charset", NULL), Long("charset", Word("x")), Long("filename", Empty)}

MCCommandLines == SeqOf(MCArguments, 3)

\* Lengths on either side of one and of two chunks of three bytes.
MCContents == {[k \in 1..n |-> k] : n \in {0, 1, 3, 4, 7}}
=============================================================================
