------------------------------ MODULE MCGsymImage ------------------------------
EXTENDS GsymImage

Row(address, file, line) == [address |-> address, file |-> file, line |-> line]

Plain(start, end, name) ==
  [start |-> start, end |-> end, name |-> name,
   lines |-> <<>>, inline |-> <<>>, merged |-> <<>>, sites |-> <<>>]

Node(ranges, name, file, line, children) ==
  [ranges |-> [i \in DOMAIN ranges |-> [start |-> ranges[i][1], end |-> ranges[i][2]]],
   name |-> name, file |-> file, line |-> line, children |-> children]

Site(offset, flags, patterns) == [offset |-> offset, flags |-> flags, patterns |-> patterns]

\* Names and the two files they may be in.
Main == <<1>>
Inner == <<2, 2>>
Leaf == <<3>>
Pattern == <<4, 1>>
TwoFiles == <<<<<<>>, <<>>>>, <<<<7>>, <<1>>>>, <<<<7>>, <<8>>>>>>

F == Plain(100, 140, Main)

\* Rows within and past one window of line deltas, with steps too long for a
\* special opcode, two files, equal addresses, numbers of several LEB bytes; the
\* last one goes back.
Lines == {
  <<Row(100, 1, 5)>>, <<Row(104, 2, 5)>>,
  <<Row(100, 1, 10), Row(101, 1, 11), Row(139, 2, 25), Row(139, 2, 24)>>,
  <<Row(100, 1, 10), Row(102, 1, 10), Row(103, 1, 24), Row(104, 1, 24)>>,
  <<Row(100, 1, 10), Row(102, 1, 25), Row(103, 1, 25), Row(139, 0, 26)>>,
  <<Row(100, 2, 300), Row(110, 2, 200), Row(111, 2, 70000), Row(120, 2, 70001)>>,
  <<Row(100, 1, 9), Row(120, 1, 7)>>, <<Row(100, 1, 9), Row(120, 1, 29)>>,
  <<Row(120, 1, 9), Row(100, 1, 9)>>}

FullRange == <<<<100, 140>>>>
\* Trees as deep as allowed and one deeper; siblings that overlap; a node of two
\* ranges whose child is in the second; a nameless node and a nameless root; a
\* root that is not the whole function; a child outside its parent; a missing file.
Deepest == Node(<<<<105, 115>>>>, Leaf, 2, 31, <<>>)
Trees == {
  Node(FullRange, Main, 0, 0, <<>>),
  Node(FullRange, Main, 0, 0, <<Node(<<<<100, 120>>>>, Inner, 1, 21, <<Deepest>>)>>),
  Node(FullRange, Main, 0, 0, <<Node(<<<<100, 120>>>>, Inner, 1, 21,
    <<Node(<<<<105, 115>>>>, Inner, 1, 22, <<Deepest>>)>>)>>),
  Node(FullRange, Main, 0, 0, <<Deepest, Node(<<<<110, 140>>>>, Inner, 1, 21, <<>>)>>),
  Node(FullRange, Main, 0, 0, <<Node(<<<<100, 103>>, <<105, 120>>>>, Inner, 1, 200,
    <<Node(<<<<110, 112>>, <<115, 120>>>>, Leaf, 2, 31, <<>>)>>)>>),
  Node(FullRange, Main, 0, 0, <<Node(<<<<100, 120>>>>, <<>>, 1, 21, <<Deepest>>)>>),
  Node(<<<<104, 139>>>>, Main, 0, 0, <<Deepest>>),
  Node(FullRange, Main, 0, 0, <<Node(<<<<110, 141>>>>, Inner, 1, 21, <<>>)>>),
  Node(FullRange, Main, 3, 0, <<>>)}

Aliases == {
  <<Plain(100, 140, Inner)>>, <<Plain(100, 139, Inner)>>,
  <<[Plain(100, 140, Inner) EXCEPT !.lines = <<Row(100, 2, 8)>>,
                                   !.sites = <<Site(5, 1, <<Main>>)>>], Plain(100, 140, Leaf)>>,
  <<[Plain(100, 140, Inner) EXCEPT !.merged = <<Plain(100, 140, Leaf)>>]>>}

Sites == {
  <<Site(5, 1, <<Pattern, Leaf>>), Site(5, 2, <<Inner>>), Site(39, 0, <<>>)>>,
  <<Site(40, 1, <<Pattern>>)>>}

Payloads ==
  {[F EXCEPT !.lines = rows] : rows \in Lines}
  \cup {[F EXCEPT !.inline = <<tree>>, !.lines = <<Row(100, 1, 5), Row(110, 2, 40)>>] : tree \in Trees}
  \cup {[F EXCEPT !.merged = aliases] : aliases \in Aliases}
  \cup {[F EXCEPT !.sites = sites] : sites \in Sites}
  \cup {[F EXCEPT !.lines = <<Row(100, 1, 5)>>, !.sites = <<Site(5, 1, <<Pattern>>)>>,
                  !.inline = <<Node(FullRange, Main, 0, 0, <<Deepest>>)>>,
                  !.merged = <<Plain(100, 140, Inner)>>]}

Model(version, base, buildId, files, functions) ==
  [version |-> version, base |-> base, buildId |-> buildId, files |-> files,
   functions |-> functions]

Ids(n) == [i \in 1..n |-> i]

\* Tables of one to three functions, one empty and two at one start, as far apart
\* as offsets of one, two and four bytes reach.
Tables == {
  <<>>, <<Plain(100, 140, Main)>>,
  <<Plain(100, 100, Leaf), Plain(105, 110, Main), Plain(105, 140, Inner)>>,
  <<Plain(100, 106, Main), Plain(355, 360, Inner), Plain(355, 355, Inner)>>,
  <<Plain(100, 140, Main), [Plain(356, 360, Inner) EXCEPT !.lines = <<Row(356, 1, 3)>>]>>,
  <<Plain(100, 140, Main), Plain(70000, 70001, Leaf)>>}

Files == {SubSeq(TwoFiles, 1, 1), TwoFiles}

AllModels ==
  {Model(v, Absent, <<9>>, TwoFiles, <<f>>) : v \in {1, 2}, f \in Payloads}
  \cup {Model(v, base, Ids(n), files, table) :
          v \in {1, 2}, base \in {Absent, 99, 103}, n \in {0, 3, 20, 21}, files \in Files,
          table \in Tables}

Everything == {Raw.lines, Raw.inline, Raw.sites}
Options == {Everything, {Raw.lines}, {}}
\* A root without a name.
NamelessRoot ==
  {Model(1, Absent, <<>>, TwoFiles,
         <<[F EXCEPT !.inline = <<Node(FullRange, <<>>, 0, 0, <<Deepest>>)>>]>>)}
=============================================================================
