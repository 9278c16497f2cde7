---------------------------- MODULE MCCommandLine ----------------------------
(* CommandLine.tla for TLC: the two programs' arguments, and programs that use    *)
(* the rest of the library.                                                       *)
EXTENDS CommandLine

Dash(s)    == [kind |-> "letters", of |-> s, value |-> ""]
With(f, v) == [kind |-> "letters", of |-> <<f>>, value |-> v]
Name(n)    == [kind |-> "name", of |-> n, value |-> ""]
Word(s)    == [kind |-> "text", of |-> s, value |-> ""]

Verbose == Argument("switch", "v", "verbose", FALSE, 0)
Program(adds, words) == [adds |-> adds, words |-> words \cup {Name(""), Word("7")}]

MCPrograms == {
  Program(parseArgs,
          {Dash(<<"p">>), With("p", "7"), Dash(<<"v">>), Name("port"), Dash(<<"v", "h">>),
           Word(""), Dash(<<>>)}),
  Program(parseArguments,
          {Dash(<<"s">>), With("s", "7"), Dash(<<"v">>), Dash(<<"v", "s">>), Word("x"),
           Dash(<<"v", "-">>), Name("version")}),
  \* required and repeated values, and what no label names
  Program(<<Argument("multi", "m", "many", TRUE, 0), Argument("value", "r", "req", TRUE, 0),
            Verbose, Argument("unlabeled", "", "file", TRUE, 0),
            Argument("unlabeledMulti", "", "files", FALSE, 0)>>,
          {With("m", "x"), With("r", "x"), Dash(<<"v">>), Dash(<<"v", "x">>), Dash(<<"v", "-">>)}),
  \* an xor list with a value that may be repeated
  Program(<<Number(Argument("multi", "m", "many", FALSE, 1)),
            Argument("switch", "c", "cc", FALSE, 1),
            Verbose, Argument("multiSwitch", "n", "nn", FALSE, 0)>>,
          {With("m", "7"), Dash(<<"m">>), Dash(<<"c">>), Dash(<<"c", "v">>), Dash(<<"n", "n">>),
           Dash(<<"n">>), Dash(<<"v", "n">>), Word("")}),
  \* an xor list with a switch that may be repeated
  Program(<<Argument("multiSwitch", "m", "many", FALSE, 1),
            [Argument("value", "c", "cc", FALSE, 1) EXCEPT !.allowed = {"7"}]>>,
          {Dash(<<"m">>), Dash(<<"m", "m">>), Dash(<<"c">>), Word("x")}),
  \* refused
  Program(<<Argument("unlabeled", "", "file", FALSE, 0),
            Argument("unlabeled", "", "more", TRUE, 0)>>, {}),
  Program(<<Verbose, Argument("switch", "v", "version", FALSE, 0)>>, {}),
  Program(<<Argument("switch", "xy", "two", FALSE, 0)>>, {})}
=============================================================================
