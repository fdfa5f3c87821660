------------------------------ MODULE MCDwarfUnit ------------------------------
EXTENDS DwarfTrees

Validated(f) == ValidFunction(f, <<>>, 0)

R(start, end) == [start |-> start, end |-> end]

TextRanges == <<R(10, 30), R(40, 60)>>

None == <<>>
Sub(name, list, sequence, declaration, dies) ==
  [name |-> name, ranges |-> list, sequence |-> sequence, declaration |-> declaration,
   dies |-> dies]
Contents1(program, subs) == [program |-> program, subprograms |-> subs]
Nothing == Contents1(None, <<>>)
Unit(contents) ==
  [skeleton |-> FALSE, loose |-> <<>>, package |-> "none", own |-> contents, split |-> Nothing]

(* Programs of up to three of these sequences, the last one perhaps without its end. *)
I(emits, address, file, line) ==
  [size |-> 2, emits |-> emits, dead |-> FALSE, address |-> address, file |-> file, line |-> line]
End(address) == I("end", address, 1, 1)
Plain == [I("nothing", 0, 1, 1) EXCEPT !.size = 3]

First == <<Plain, I("row", 10, 1, 1), I("row", 12, 1, 2), I("row", 12, 2, 3), I("row", 14, 9, 4), End(20)>>
Second == <<I("row", 20, 1, 99), I("row", 21, 3, 5), I("row", 22, 1, 6), End(30)>>
Other == <<Plain, I("row", 10, 2, 7), I("row", 16, 0, 8), End(20)>>
Discarded == [i \in DOMAIN Second |-> [Second[i] EXCEPT !.dead = TRUE]]
Empty == <<End(25)>>
Unended == <<I("row", 24, 2, 9)>>

Pieces == {First, Second, Other, Discarded, Empty}
Codes == {a \o b : a \in Pieces, b \in {None, Unended}}
  \cup {p[1] \o p[2] : p \in {p \in Pieces \X Pieces : p[1] # p[2]}}
  \cup {p[1] \o p[2] \o p[3] : p \in {p \in {First, Second, Discarded} \X Pieces \X {Second, Other, Unended} :
                                        p[1] # p[2] /\ p[2] # p[3] /\ p[1] # p[3]}}
Program1(code) == [offset |-> 50, code |-> code, late |-> {0},
                   files |-> [i \in 0..3 |-> IF i = 3 THEN Nameless ELSE i + 1]]

Requests(code) == {None, <<7>>} \cup {<<o>> : o \in Range(ScanOffsets(Program1(code)))}

UnitsOf(codes) ==
  UNION {{Unit(Contents1(<<Program1(code)>>, <<Sub(<<1>>, <<range>>, request, None, <<>>)>>)) :
            range \in {R(10, 20), R(11, 13), R(15, 23), R(16, 20), R(20, 30), R(23, 30)},
            request \in Requests(code)} : code \in codes}

LineUnits == UnitsOf(Codes)
AfterDiscarded == UnitsOf({Discarded \o First \o Second})

(* Lists of ranges: live, discarded, outside, too large, empty, unreadable. *)
SomeRanges == {R(10, 14), R(40, 50), R(0, 4), R(99, 103), R(25, 35), R(40, 60), R(12, 12), Broken}
Lists == {<<>>} \cup {<<a>> : a \in SomeRanges} \cup SomeRanges \X SomeRanges
         \cup {R(10, 14), R(0, 4), Broken} \X SomeRanges \X {R(40, 50), R(12, 12)}
Declared == {None, <<[file |-> 1, line |-> 3]>>, <<[file |-> 9, line |-> 3]>>}
RangeUnits ==
  {Unit(Contents1(<<Program1(First)>>,
     <<Sub(name, list, None, d, <<>>), Sub(<<2>>, <<R(50, 55)>>, None, d, <<>>)>>)) :
     name \in {<<>>, <<1>>}, list \in Lists, d \in Declared}

(* Split units: what each path and the package give, with and without tables. *)
Loose == {<<>>} \cup {<<a>> : a \in Outcomes} \cup Outcomes \X Outcomes
Entry(depth, tag, name, list, file, line, return) ==
  [depth |-> depth, tag |-> tag, name |-> name, ranges |-> list, file |-> file, line |-> line,
   return |-> return]
Inlined(name, list) == Entry(1, "inlined", name, list, <<1>>, 4, None)
Imported(program, name) ==
  Contents1(program, <<Sub(name, <<R(10, 20)>>, None, None, <<Inlined(<<3>>, <<R(11, 12)>>)>>)>>)
SplitUnits ==
  {[skeleton |-> TRUE, loose |-> loose, package |-> package,
    own |-> Imported(mine, <<1>>), split |-> Imported(its, <<2>>)] :
     loose \in Loose, package \in Packages,
     mine \in {None, <<Program1(First)>>},
     its \in {None, <<[Program1(Other) EXCEPT !.files = [i \in {0, 2} |-> 5]]>>}}

(* Forests of at most four DIEs. *)
Kinds == {
  Inlined(<<3>>, <<R(10, 20)>>), Inlined(<<4>>, <<R(16, 18), R(12, 15), R(14, 16)>>),
  Inlined(<<>>, <<R(10, 20), Broken>>), Inlined(<<5>>, <<R(13, 17), R(18, 22), R(20, 29), R(29, 29)>>),
  Inlined(<<6>>, <<R(10, 12), Broken>>),
  Entry(1, "inlined", <<7>>, <<R(10, 30)>>, <<9>>, 99, None),
  Entry(1, "call_site", <<8>>, <<>>, None, 0, <<15>>), Entry(1, "call_site", <<>>, <<>>, None, 0, <<30>>),
  Entry(1, "other", <<9>>, <<R(10, 20)>>, None, 0, None)}
FewKinds == {Inlined(<<3>>, <<R(10, 20)>>), Inlined(<<4>>, <<R(12, 16)>>),
             Entry(1, "call_site", <<8>>, <<>>, None, 0, <<15>>)}
Shapes(n) == {d \in [1..n -> 1..n] : d[1] = 1 /\ \A i \in 2..n : d[i] <= d[i - 1] + 1}
Forest(depths, kinds) == [i \in DOMAIN depths |-> [kinds[i] EXCEPT !.depth = depths[i]]]
TreeUnits ==
  {Unit(Contents1(<<Program1(First)>>, <<Sub(<<1>>, <<R(10, 30)>>, None, None, dies)>>)) :
     dies \in UNION {{Forest(d, k) : d \in Shapes(n), k \in [1..n -> IF n = 4 THEN FewKinds ELSE Kinds]} :
                     n \in 1..4}}

AllUnits == LineUnits \cup RangeUnits \cup SplitUnits \cup TreeUnits

=============================================================================
