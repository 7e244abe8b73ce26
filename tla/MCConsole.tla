----------------------------- MODULE MCConsole ------------------------------
(* An instance for TLC: words of eight bits and a screen of two rows.  The  *)
(* first call is any directive with a width, the others are the kinds of   *)
(* text the kernel prints.                                                 *)
EXTENDS Console

Bits8 == 256
Some == {0, 1, 10, 127, 128, 200, 255}
Dir(flags, conv, long) == [flags |-> flags, conv |-> conv, long |-> long]
Flag(f) == [flag |-> f]
Number(n) == [flag |-> "number", digits |-> n]
Just == [right |-> <<>>, left |-> <<Flag("-")>>, center |-> <<Flag("~")>>, zero |-> <<Flag("0")>>]
Widths == {<<<<>>, 0>>, <<<<Number(<<"2">>)>>, 2>>, <<<<Number(<<"5">>)>>, 5>>,
           <<<<Number(<<"1", "0">>)>>, 10>>}
Printf(f, w, conv, long, v) ==
  [do |-> "printf", format |-> <<Dir(Just[f] \o w[1], conv, long)>>, args |-> <<v>>,
   field |-> [fmt |-> f, width |-> w[2]]]
(* Zeros come before the sign: only other paddings for "d". *)
Numbers ==
  {Printf(f, w, c, l, v) : f \in DOMAIN Just, w \in Widths, c \in {"u", "x", "X", "o", "b"},
                           l \in BOOLEAN, v \in Some}
  \cup {Printf(f, w, "d", FALSE, v) : f \in DOMAIN Just \ {"zero"}, w \in Widths, v \in Some}
  \cup {Printf("zero", w, "d", FALSE, v) : w \in Widths, v \in {0, 9, 100, 127}}
Texts ==
  {Printf(f, w, "s", FALSE, s) : f \in DOMAIN Just \ {"zero"}, w \in Widths,
                                 s \in {<<"k">>, <<"k", "e", "y">>}}
(* A width given as an argument, a precision, an address, and a percent.   *)
Others ==
  {[do |-> "printf", format |-> <<Dir(<<Flag("*")>>, "d", FALSE), [lit |-> "!"]>>, args |-> <<4, 200>>],
   [do |-> "printf", format |-> <<Dir(<<Flag("."), Number(<<"2">>)>>, "s", FALSE)>>,
    args |-> <<<<"k", "e", "y">>>>],
   [do |-> "printf", format |-> <<Dir(<<>>, "p", FALSE), Dir(<<>>, "%", FALSE)>>, args |-> <<171>>]}
Ints == {[do |-> "print_int", value |-> v, base |-> b] : v \in Some \cup {16, 129}, b \in {10, 16}}
String(s) == [do |-> "print_string", text |-> s]
Empty == String(<<>>)
First == Numbers \cup Texts \cup Others \cup Ints \cup {Empty}

Later ==
  {String(<<"a">>), String(<<"\r">>), String(<<"\n">>), String(<<"a", "b", "\n">>),
   [do |-> "log_debug", level |-> "ok", label |-> <<"O", "K">>,
    format |-> <<[lit |-> "x"]>>, args |-> <<>>]}
=============================================================================
