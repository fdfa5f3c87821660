------------------------------- MODULE DwarfUnit -------------------------------
(***************************************************************************)
(* The import of one DWARF unit (src/src/convert/dwarf.rs, dwarf/dies.rs): *)
(* where its details come from when the executable holds a skeleton, which *)
(* ranges of its subprograms become functions, and the walk over the DIEs  *)
(* below a subprogram that builds its inline tree and its call sites.      *)
(*                                                                         *)
(* A unit is data: whether it is a skeleton, what reading each path of its *)
(* DWO file gives, what the package holds for it, and the contents of the  *)
(* executable and of the split unit: a line program and subprograms.  A    *)
(* subprogram has ranges, the last perhaps Broken, and the DIEs below it   *)
(* in document order with their depths.  Names and declaration lines are   *)
(* those DwarfReferences finds.  Reader errors nothing catches, which end  *)
(* the conversion wherever they occur, are modelled for inline ranges only.*)
(***************************************************************************)
EXTENDS DwarfLines, InlineTrees

CONSTANTS Units,      \* the units to import
          OptionSets, \* subsets of {"inlines", "sites"}
          Text,       \* executable ranges of the address layout
          MaxSize,    \* largest function (u32::MAX)
          Tombstone,  \* address the unit's size reserves for discarded code
          Broken,     \* a range that cannot be read
          Accepted(_) \* what the builder takes (FunctionRecord's ValidFunction)

ASSUME OptionsAssumption == OptionSets \subseteq SUBSET {"inlines", "sites"}

Outcomes == {"missing", "unreadable", "malformed", "duplicated", "good"}
Packages == {"none", "absent", "broken", "mismatched", "good"}
Ranges == [start : Nat, end : Nat] \cup {Broken}

ASSUME UnitsAssumption ==
  \A u \in Units :
    /\ u.skeleton \in BOOLEAN /\ u.loose \in Seq(Outcomes) /\ u.package \in Packages
    /\ \A c \in {u.own, u.split} :
         /\ c.subprograms \in Seq(Range(c.subprograms))
         /\ \A i \in DOMAIN c.subprograms : c.subprograms[i].ranges \in Seq(Ranges)

VARIABLES
  unit, options,
  pc,         \* open, loose, package, subprograms, ranges, walk, and how it ended
  paths,      \* of the DWO file, not read yet
  failure,    \* the last path that failed, an option
  reasons,    \* why no split unit was found
  source,     \* an option: where the details come from, "own" or "split"
  own,        \* line table of the executable's unit
  lines,      \* line table of the functions
  files,      \* file table of the DIEs
  todo,       \* subprograms, the first one being imported
  ranges,     \* its ranges still to import
  walk,       \* at: the DIE next; the frames of both stacks; roots, sites, count
  functions, rejected, inlined, warnings

lineVars == <<own, lines, files>>
splitVars == <<paths, failure, reasons, source>>
resultVars == <<functions, rejected, inlined>>
inputVars == <<unit, options>>
vars == <<inputVars, pc, splitVars, lineVars, todo, ranges, walk, resultVars, warnings>>

NoWalk == [at |-> 1, inlines |-> <<>>, calls |-> <<>>, roots |-> <<>>, sites |-> <<>>]

Init ==
  /\ unit \in Units /\ options \in OptionSets
  /\ pc = "open" /\ paths = unit.loose /\ failure = <<>> /\ reasons = <<>> /\ source = <<>>
  /\ own = NoLines /\ lines = NoLines /\ files = <<>>
  /\ todo = <<>> /\ ranges = <<>> /\ walk = NoWalk
  /\ functions = <<>> /\ rejected = 0 /\ inlined = 0 /\ warnings = {}

Warn(kinds) == warnings' = warnings \cup kinds

---------------------------------------------------------------------------
(* Where the details come from *)

ImportDetails(from, table, indices) ==
  /\ source' = <<from>> /\ lines' = table /\ files' = indices
  /\ todo' = (IF from = "own" THEN unit.own ELSE unit.split).subprograms
  /\ pc' = "subprograms"

CollectOwn ==
  /\ pc = "open"
  /\ own' = CollectLines(unit.own.program)
  /\ Warn(own'.warnings)
  /\ IF unit.skeleton THEN pc' = "loose" /\ UNCHANGED <<source, lines, files, todo>>
     ELSE ImportDetails("own", own', own'.files)
  /\ UNCHANGED <<inputVars, paths, failure, reasons, ranges, walk, resultVars>>

\* Rows are the executable's when it has a line table; files are the split unit's
\* when it has a file table.
ImportSplitUnit ==
  LET split == CollectLines(unit.split.program)
      executable == IF own.entries = <<>> /\ own.sequences = <<>> THEN split ELSE own
  IN /\ ImportDetails("split", executable,
                      IF split.files = <<>> THEN executable.files ELSE split.files)
     /\ Warn(split.warnings)
     /\ UNCHANGED <<inputVars, paths, failure, reasons, own, ranges, walk, resultVars>>

\* A change of the code: a path that cannot be read ends the search.
SkipPath_Fatal ==
  /\ failure' = IF Head(paths) = "missing" THEN failure ELSE <<Head(paths)>>
  /\ paths' = IF Head(paths) = "missing" THEN Tail(paths) ELSE <<>>

\* A file that is not there is no failure; the last failure is the one reported.
SkipPath ==
  /\ failure' = IF Head(paths) = "missing" THEN failure ELSE <<Head(paths)>>
  /\ paths' = Tail(paths)

TryLoosePath ==
  /\ pc = "loose" /\ paths # <<>> /\ Head(paths) \in {"missing", "unreadable", "malformed"}
  /\ SkipPath
  /\ UNCHANGED <<inputVars, pc, reasons, source, lineVars, todo, ranges, walk, resultVars, warnings>>

LoosePathDuplicated ==
  /\ pc = "loose" /\ paths # <<>> /\ Head(paths) = "duplicated"
  /\ pc' = "package" /\ reasons' = <<"duplicated">>
  /\ UNCHANGED <<inputVars, paths, failure, source, lineVars, todo, ranges, walk, resultVars,
                 warnings>>

ImportLoose ==
  /\ pc = "loose" /\ paths # <<>> /\ Head(paths) = "good"
  /\ ImportSplitUnit

LooseExhausted ==
  /\ pc = "loose" /\ paths = <<>>
  /\ pc' = "package" /\ reasons' = failure
  /\ UNCHANGED <<inputVars, paths, failure, source, lineVars, todo, ranges, walk, resultVars,
                 warnings>>

ImportPackaged ==
  /\ pc = "package" /\ unit.package = "good"
  /\ ImportSplitUnit

\* The index leads to a unit of another ID, or to two of this one.
PackageMismatched ==
  /\ pc = "package" /\ unit.package = "mismatched"
  /\ pc' = "failed"
  /\ UNCHANGED <<inputVars, splitVars, lineVars, todo, ranges, walk, resultVars, warnings>>

\* Without a split unit the skeleton's own DIEs are imported.
FallBack ==
  /\ pc = "package" /\ unit.package \in {"none", "absent", "broken"}
  /\ reasons' = IF unit.package = "none" THEN reasons ELSE Append(reasons, unit.package)
  /\ Warn({"split DWARF unavailable"})
  /\ ImportDetails("own", own, own.files)
  /\ UNCHANGED <<inputVars, paths, failure, own, ranges, walk, resultVars>>

---------------------------------------------------------------------------
(* The ranges of a subprogram *)

\* Discarded code starts at 0 or at the tombstone, unless the text does.
Tombstoned(range) ==
  /\ range.start \in {0, Tombstone}
  /\ ~\E t \in Range(Text) : Covers(t, range.start)

Live(range) ==
  /\ range.start < range.end
  /\ range.end - range.start <= MaxSize
  /\ Inside(range, Text)

NextSubprogram ==
  /\ pc = "subprograms" /\ todo # <<>>
  /\ IF Head(todo).name = <<>> THEN todo' = Tail(todo) /\ UNCHANGED <<pc, ranges>>
     ELSE pc' = "ranges" /\ ranges' = Head(todo).ranges /\ UNCHANGED todo
  /\ UNCHANGED <<inputVars, splitVars, lineVars, walk, resultVars, warnings>>

RangesDone ==
  /\ pc = "ranges" /\ ranges = <<>>
  /\ pc' = "subprograms" /\ todo' = Tail(todo)
  /\ UNCHANGED <<inputVars, splitVars, lineVars, ranges, walk, resultVars, warnings>>

\* What follows a range that cannot be read is not reached.
StopRanges ==
  /\ pc = "ranges" /\ ranges # <<>> /\ Head(ranges) = Broken
  /\ ranges' = <<>> /\ rejected' = rejected + 1
  /\ Warn({"malformed ranges"})
  /\ UNCHANGED <<inputVars, pc, splitVars, lineVars, todo, walk, functions, inlined>>

\* A change of the code: a range that is not live ends the list.
Dropped_All(list) == <<>>

Dropped(list) == Tail(list)

RejectRange ==
  /\ pc = "ranges" /\ ranges # <<>> /\ Head(ranges) # Broken
  /\ Tombstoned(Head(ranges)) \/ ~Live(Head(ranges))
  /\ ranges' = Dropped(ranges) /\ rejected' = rejected + 1
  /\ Warn(IF Tombstoned(Head(ranges)) THEN {} ELSE {"rejected range"})
  /\ UNCHANGED <<inputVars, pc, splitVars, lineVars, todo, walk, functions, inlined>>

\* A declaration whose file or line cannot be used gives no row.
DeclarationRow(sub, range) ==
  IF /\ sub.declaration # <<>>
     /\ sub.declaration[1].file \in DOMAIN files /\ sub.declaration[1].line <= MaxLine
  THEN <<[address |-> range.start, file |-> files[sub.declaration[1].file],
          line |-> sub.declaration[1].line]>>
  ELSE <<>>

RowsOf(sub, range) ==
  LET found == ForRange(lines, range, sub.sequence).rows
  IN IF found = <<>> THEN DeclarationRow(sub, range) ELSE found

BeginFunction ==
  /\ pc = "ranges" /\ ranges # <<>> /\ Head(ranges) # Broken
  /\ Live(Head(ranges)) /\ ~Tombstoned(Head(ranges))
  /\ Warn(IF ForRange(lines, Head(ranges), Head(todo).sequence).invalid
          THEN {"invalid statement sequence"} ELSE {})
  /\ pc' = "walk"
  /\ walk' = [NoWalk EXCEPT !.at = IF options = {} THEN Len(Head(todo).dies) + 1 ELSE 1]
  /\ UNCHANGED <<inputVars, splitVars, lineVars, todo, ranges, resultVars>>

---------------------------------------------------------------------------
(* The walk over the DIEs of a subprogram *)

\* A change of the code: only equal ranges are made one.
Coalesce_Sorted(list) ==
  SetToSortSeq(Range(list), LAMBDA r, q : r.start < q.start \/ (r.start = q.start /\ r.end < q.end))

\* Ranges in order, those that overlap or touch made one.
Coalesce(list) ==
  LET Before(r, q) == r.start < q.start \/ (r.start = q.start /\ r.end < q.end)
  IN FoldLeft(LAMBDA kept, r :
                IF kept # <<>> /\ r.start <= Last(kept).end
                THEN [kept EXCEPT ![Len(kept)].end = Max({@, r.end})]
                ELSE Append(kept, r),
              <<>>, SetToSortSeq(Range(list), Before))

\* An option: a node needs a name and a range within its parent's.
InlineNode(die, parents) ==
  LET valid == SelectSeq(die.ranges, LAMBDA r : r.start < r.end /\ Inside(r, parents))
  IN IF die.name = <<>> \/ valid = <<>> THEN <<>>
     ELSE <<[ranges |-> Coalesce(valid), name |-> die.name,
             file |-> IF die.file # <<>> /\ die.file[1] \in DOMAIN files
                      THEN files[die.file[1]] ELSE 0,
             line |-> IF die.line <= MaxLine THEN die.line ELSE 0,
             children |-> <<>>]>>

InlineWarnings(die) ==
  (IF die.file = <<>> \/ die.file[1] \in DOMAIN files THEN {} ELSE {"missing call file"})
  \cup IF die.line <= MaxLine THEN {} ELSE {"invalid call line"}

\* An option: the return address must be in the function.
CallSite(die, range) ==
  IF die.return = <<>> \/ ~Covers(range, die.return[1]) THEN <<>>
  ELSE <<[offset |-> die.return[1] - range.start, flags |-> 0,
          patterns |-> IF die.name = <<>> THEN <<>> ELSE <<die.name>>]>>

\* The innermost inline frame ends: its node goes to its parent, or is a root.
FinishInline(w) ==
  LET node == Last(w.inlines).node
      rest == Front(w.inlines)
  IN IF rest = <<>> THEN [w EXCEPT !.inlines = rest, !.roots = Append(@, node)]
     ELSE [w EXCEPT !.inlines = [rest EXCEPT ![Len(rest)].node.children = Append(@, node)]]

\* A change of the code: a sibling leaves the frame of its sibling open.
Leaves_Strictly(depth, frame) == depth < frame.depth

\* A DIE that is no deeper than the DIE of a frame is not below it.
Leaves(depth, frame) == depth <= frame.depth

\* The frames of the DIEs that end at this depth end, the innermost first.
CloseInlines(w, depth) ==
  LET staying == {i \in DOMAIN w.inlines : ~Leaves(depth, w.inlines[i])}
  IN FoldLeft(LAMBDA v, frame : FinishInline(v), w,
              SubSeq(w.inlines, Max(staying \cup {0}) + 1, Len(w.inlines)))

CloseSites(w, depth) ==
  LET staying == Max({i \in DOMAIN w.calls : w.calls[i].depth < depth} \cup {0})
      ending == Reverse(SubSeq(w.calls, staying + 1, Len(w.calls)))
  IN [w EXCEPT !.calls = SubSeq(@, 1, staying),
               !.sites = @ \o [i \in DOMAIN ending |-> ending[i].site]]

Closed(depth) == CloseInlines(CloseSites(walk, depth), depth)

Die == Head(todo).dies[walk.at]
Visiting == pc = "walk" /\ walk.at <= Len(Head(todo).dies)
IsInline == Die.tag = "inlined" /\ "inlines" \in options
IsSite == Die.tag = "call_site" /\ "sites" \in options

Parents(w) == IF w.inlines = <<>> THEN <<Head(ranges)>> ELSE Last(w.inlines).node.ranges

WalkFails ==
  /\ Visiting /\ IsInline /\ Die.name # <<>>
  /\ LET w == Closed(Die.depth)
     IN \/ Broken \in Range(Die.ranges)
        \/ /\ Broken \notin Range(Die.ranges) /\ InlineNode(Die, Parents(w)) # <<>>
           /\ Len(w.inlines) + 1 > MaxInlineDepth
  /\ pc' = "failed"
  /\ UNCHANGED <<inputVars, splitVars, lineVars, todo, ranges, walk, resultVars, warnings>>

VisitInline ==
  /\ Visiting /\ IsInline
  /\ Die.name = <<>> \/ Broken \notin Range(Die.ranges)
  /\ LET w == Closed(Die.depth)
         node == InlineNode(Die, Parents(w))
     IN /\ node # <<>> => Len(w.inlines) + 1 <= MaxInlineDepth
        /\ walk' = [w EXCEPT !.at = @ + 1,
                             !.inlines = @ \o [i \in DOMAIN node |->
                                                 [depth |-> Die.depth, node |-> node[i]]]]
        /\ inlined' = inlined + Len(node)
        /\ Warn(IF node = <<>> THEN {} ELSE InlineWarnings(Die))
  /\ UNCHANGED <<inputVars, pc, splitVars, lineVars, todo, ranges, functions, rejected>>

VisitOther ==
  /\ Visiting /\ ~IsInline
  /\ LET site == IF IsSite THEN CallSite(Die, Head(ranges)) ELSE <<>>
     IN walk' = [Closed(Die.depth) EXCEPT
                   !.at = @ + 1,
                   !.calls = @ \o [i \in DOMAIN site |->
                                     [depth |-> Die.depth, site |-> site[i]]]]
  /\ UNCHANGED <<inputVars, pc, splitVars, lineVars, todo, ranges, resultVars, warnings>>

\* The root of the tree is the function; the builder validates the whole.
FinishFunction ==
  /\ pc = "walk" /\ walk.at > Len(Head(todo).dies)
  /\ LET range == Head(ranges)
         w == Closed(0)
         f == [start |-> range.start, end |-> range.end, name |-> Head(todo).name,
               lines |-> RowsOf(Head(todo), range),
               inline |-> IF w.roots = <<>> THEN <<>>
                          ELSE <<[ranges |-> <<range>>, name |-> Head(todo).name, file |-> 0,
                                  line |-> 0, children |-> w.roots]>>,
               merged |-> <<>>, sites |-> w.sites]
     IN IF Accepted(f)
        THEN functions' = Append(functions, f) /\ pc' = "ranges" /\ ranges' = Tail(ranges)
        ELSE pc' = "refused" /\ UNCHANGED <<functions, ranges>>
  /\ walk' = NoWalk
  /\ UNCHANGED <<inputVars, splitVars, lineVars, todo, rejected, inlined, warnings>>

Finish ==
  /\ pc = "subprograms" /\ todo = <<>>
  /\ pc' = "done"
  /\ Warn(IF "inlines" \in options /\ inlined = 0 THEN {"no inline records"} ELSE {})
  /\ UNCHANGED <<inputVars, splitVars, lineVars, todo, ranges, walk, resultVars>>

Next ==
  \/ CollectOwn \/ TryLoosePath \/ LoosePathDuplicated \/ ImportLoose \/ LooseExhausted
  \/ ImportPackaged \/ PackageMismatched \/ FallBack
  \/ NextSubprogram \/ RangesDone \/ StopRanges \/ RejectRange \/ BeginFunction
  \/ WalkFails \/ VisitInline \/ VisitOther \/ FinishFunction \/ Finish

Spec == Init /\ [][Next]_vars

---------------------------------------------------------------------------
(* Properties *)

\* The unit the details come from.
Contents == IF source = <<"split">> THEN unit.split ELSE unit.own

\* The first path of the DWO file that is neither absent nor unusable decides:
\* a good one is imported, one with a duplicate unit ends the search; then the
\* package; then the skeleton itself, with a warning, and with a reason for every
\* place that was looked at and found wanting.  One unusable file never hides
\* another (import_dwarf, load_dwo).
FirstUsableSource ==
  LET Deciding(i) == unit.loose[i] \in {"good", "duplicated"}
      loose == \E i \in DOMAIN unit.loose :
                 unit.loose[i] = "good" /\ \A j \in 1..i - 1 : ~Deciding(j)
      wanting == \E i \in DOMAIN unit.loose : unit.loose[i] # "missing"
      looked == (IF wanting THEN 1 ELSE 0) + IF unit.package = "none" THEN 0 ELSE 1
  IN source # <<>> =>
       /\ source = <<"split">> <=> unit.skeleton /\ (loose \/ unit.package = "good")
       /\ unit.skeleton /\ source = <<"own">> =>
            /\ "split DWARF unavailable" \in warnings
            /\ Len(reasons) = looked

RangeAt(p) == Contents.subprograms[p[1]].ranges[p[2]]

\* The ranges of named subprograms up to one that cannot be read, by position.
RangesMet ==
  UNION {{<<i, j>> : j \in {j \in DOMAIN Contents.subprograms[i].ranges :
                             \A k \in 1..j - 1 : RangeAt(<<i, k>>) # Broken}} :
           i \in {i \in DOMAIN Contents.subprograms : Contents.subprograms[i].name # <<>>}}

ToImport == {p \in RangesMet : RangeAt(p) # Broken /\ Live(RangeAt(p)) /\ ~Tombstoned(RangeAt(p))}

Earlier(p, q) == p[1] < q[1] \/ (p[1] = q[1] /\ p[2] < q[2])

Preceding(S, p) == {q \in S : Earlier(q, p)}

\* What should be imported, in the order of the subprograms and of their ranges.
Origins ==
  [n \in 1..Cardinality(ToImport) |->
     LET p == CHOOSE p \in ToImport : Cardinality(Preceding(ToImport, p)) = n - 1
     IN [sub |-> Contents.subprograms[p[1]], range |-> RangeAt(p)]]

\* Every live range of a named subprogram becomes one function, in order, and
\* the other ranges up to one that cannot be read are counted: a rejected range
\* costs no other (import_unit_details).
EveryLiveRange ==
  /\ \A i \in DOMAIN functions :
       /\ i <= Len(Origins)
       /\ functions[i].name = Origins[i].sub.name
       /\ [start |-> functions[i].start, end |-> functions[i].end] = Origins[i].range
  /\ pc = "done" => /\ Len(functions) = Len(Origins)
                    /\ Len(functions) + rejected = Cardinality(RangesMet)

---------------------------------------------------------------------------
(* The rows of a function *)

\* The sequences of a program, each with the positions of its rows.
SequencesOf(code) ==
  LET ends == {j \in DOMAIN code : code[j].emits = "end"}
      rows(j) == {i \in 1..j - 1 : code[i].emits = "row" /\ \A k \in ends : ~(i < k /\ k < j)}
  IN {[end |-> j, rows |-> rows(j)] : j \in {j \in ends : rows(j) # {} /\ ~code[j].dead}}

Position(program, j) ==
  FoldLeft(LAMBDA n, i : n + i.size, program.offset, SubSeq(program.code, 1, j))

\* Where the instructions of a sequence begin.
OffsetOfSequence(program, q) ==
  LET before == {k \in 1..q.end - 1 : program.code[k].emits = "end"}
  IN Position(program, IF before = {} THEN 0 ELSE Max(before))

CoversAddress(code, q, a) == code[Min(q.rows)].address <= a /\ a < code[q.end].address

Disjoint(code) ==
  \A a \in UNION {r.start..r.end : r \in Range(Text)} :
    Cardinality({q \in SequencesOf(code) : CoversAddress(code, q, a)}) <= 1

\* The row in effect at a, an option: of the rows of q a table can hold, the last.
RowAt(program, q, a) ==
  LET usable == {i \in q.rows : /\ program.code[i].address <= a
                                /\ program.code[i].file \in DOMAIN program.files
                                /\ program.files[program.code[i].file] # Nameless
                                /\ program.code[i].line <= MaxLine}
  IN IF usable = {} THEN <<>>
     ELSE <<[file |-> program.files[program.code[Max(usable)].file],
             line |-> program.code[Max(usable)].line]>>

LineOf(f, a) ==
  LET before == SelectSeq(f.lines, LAMBDA r : r.address <= a)
  IN IF before = <<>> THEN <<>> ELSE <<[file |-> Last(before).file, line |-> Last(before).line]>>

\* The program the rows come from.
Program == IF source = <<"split">> /\ own.entries = <<>> /\ own.sequences = <<>>
           THEN unit.split.program ELSE unit.own.program

\* Function i shows the rows of sequence q wherever q covers it; where q covers
\* its start and has no row yet, it shows none.
Shows(i, q) ==
  LET f == functions[i]
      starts == CoversAddress(Program[1].code, q, f.start) /\ Origins[i].sub.declaration = <<>>
  IN \A a \in f.start..f.end - 1 :
       CoversAddress(Program[1].code, q, a) /\ (starts \/ RowAt(Program[1], q, a) # <<>>) =>
         LineOf(f, a) = RowAt(Program[1], q, a)

Requested(sub, q) == sub.sequence = <<OffsetOfSequence(Program[1], q)>>

\* A function that requests no sequence, of a program whose sequences neither
\* overlap nor are empty, has at each address the line the program gives it: the
\* row before its start is carried in from the sequence that covers the start,
\* never from another one (UnitLines::for_range).
LinesFollowProgram ==
  \A i \in DOMAIN functions :
    LET code == Program[1].code
        ends == {j \in DOMAIN code : code[j].emits = "end" /\ ~code[j].dead}
    IN Program # <<>> /\ Origins[i].sub.sequence = <<>> /\ Disjoint(code)
       /\ Cardinality(ends) = Cardinality(SequencesOf(code)) =>
         \A q \in SequencesOf(code) : Shows(i, q)

\* A function that requests a sequence of a program without discarded code has
\* the rows of that sequence, whatever other sequences cover it.
RequestedSequence ==
  \A i \in DOMAIN functions :
    Program # <<>> /\ (\A j \in DOMAIN Program[1].code : ~Program[1].code[j].dead) =>
      \A q \in SequencesOf(Program[1].code) :
        Requested(Origins[i].sub, q) => Shows(i, q)

\* A function has the rows of one sequence: the one it requests, or the one that
\* covers its start.
RowsOfItsSequence == LinesFollowProgram /\ RequestedSequence

\* "DW_AT_LLVM_stmt_sequence points at one of these offsets, so a subprogram can
\* select the single line sequence that belongs to it" (dwarf/lines.rs:288-289).
SelectsItsSequence ==
  \A i \in DOMAIN functions :
    Program # <<>> => \A q \in SequencesOf(Program[1].code) :
                        Requested(Origins[i].sub, q) => Shows(i, q)

=============================================================================
