--------------------------- MODULE MCFunctionTable ---------------------------
EXTENDS FunctionTable

Row(address, file, line) == [address |-> address, file |-> file, line |-> line]

Named(start, end, name) ==
  [start |-> start, end |-> end, name |-> name,
   lines |-> <<>>, calls |-> <<>>, sites |-> {}, merged |-> <<>>]

\* The names 1 "_Z3foov", 2 "foo" and 3 "zed", in byte order.
Mangles == {<<1, 2>>}

\* Plain functions and rich ones, three of which rank alike at [1, 3); one that
\* refers to a file few tables have, one whose rows go back.
Functions == {
  Named(2, 2, 1), Named(2, 2, 3),
  [Named(2, 2, 2) EXCEPT !.lines = <<Row(3, 1, 6)>>],
  Named(1, 3, 1), Named(1, 3, 3), Named(2, 3, 3),
  [Named(1, 3, 2) EXCEPT !.lines = <<Row(1, 1, 5), Row(2, 1, 5), Row(2, 2, 5)>>],
  [Named(1, 3, 2) EXCEPT !.lines = <<Row(1, 2, 7), Row(2, 0, 7)>>],
  [Named(1, 3, 2) EXCEPT !.calls = <<0, 2>>],
  [Named(1, 3, 3) EXCEPT !.sites = {1}],
  [Named(1, 2, 3) EXCEPT !.lines = <<Row(1, 2, 8)>>],
  [Named(2, 4, 2) EXCEPT !.lines = <<Row(3, 1, 2), Row(2, 1, 9)>>]}

Text == <<[start |-> 0, end |-> 1], [start |-> 1, end |-> 4]>>
=============================================================================
