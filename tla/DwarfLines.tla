------------------------------ MODULE DwarfLines ------------------------------
(***************************************************************************)
(* The line table of a DWARF unit: from a line program to the rows of one  *)
(* function.                                                               *)
(*                                                                         *)
(* A program is a record: the position of its first instruction, the       *)
(* instructions, and the files its header names.  An instruction has a     *)
(* size, and emits a row, the end of a sequence or nothing; those whose    *)
(* address marks discarded code are dead, and the interpreter passes over  *)
(* them.  An option is a sequence of at most one element.                  *)
(***************************************************************************)
EXTENDS Integers, Sequences, SequencesExt, FiniteSets, FiniteSetsExt

CONSTANTS Nameless,  \* a file without a usable name
          MaxLine    \* largest line number a row holds (u32::MAX)

\* The rows the interpreter returns.
Executed(code) == SelectSeq(code, LAMBDA i : i.emits # "nothing" /\ ~i.dead)

\* Where each sequence begins, found by walking the bytes: dead ones count.
ScanOffsets(program) ==
  FoldLeft(LAMBDA scan, i :
             LET next == scan.at + i.size
             IN IF i.emits = "end"
                THEN [at |-> next, start |-> next, offsets |-> Append(scan.offsets, scan.start)]
                ELSE [scan EXCEPT !.at = next],
           [at |-> program.offset, start |-> program.offset, offsets |-> <<>>],
           program.code).offsets

\* A change of the code: a sequence has the offset of the one before it.
OffsetOf_Previous(offsets, n) == IF 0 < n /\ n <= Len(offsets) THEN <<offsets[n]>> ELSE <<>>

OffsetOf(offsets, n) == IF n < Len(offsets) THEN <<offsets[n + 1]>> ELSE <<>>

\* Raw rows and the ranges of the sequences; only rows of an ended sequence are
\* completed.
Replay(code, offsets) ==
  FoldLeft(LAMBDA run, i :
             LET sequence == OffsetOf(offsets, run.count)
                 start == IF run.start = <<>> THEN 0 ELSE run.start[1]
             IN IF i.emits = "end"
                THEN [rows |-> run.rows, start |-> <<>>, count |-> run.count + 1,
                      completed |-> Len(run.rows),
                      ranges |-> IF start < i.address
                                 THEN Append(run.ranges, [start |-> start, end |-> i.address,
                                                          sequence |-> sequence])
                                 ELSE run.ranges]
                ELSE [run EXCEPT
                        !.start = IF @ = <<>> THEN <<i.address>> ELSE @,
                        !.rows = Append(@, [address |-> i.address, file |-> i.file,
                                            line |-> i.line, sequence |-> sequence])],
           [rows |-> <<>>, start |-> <<>>, count |-> 0, completed |-> 0, ranges |-> <<>>],
           Executed(code))

\* The files of the header by DWARF index; the one only its rows name (index 0
\* before DWARF 5) is known once a row used it.
FileIndices(program, rows) ==
  [i \in {i \in DOMAIN program.files :
            /\ program.files[i] # Nameless
            /\ i \in program.late => \E r \in Range(rows) : r.file = i}
   |-> program.files[i]]

\* Stable: rows of one address stay in the order of the program.
SortByAddress(rows) ==
  FlattenSeq([i \in DOMAIN SetToSortSeq({r.address : r \in Range(rows)}, <) |->
    SelectSeq(rows, LAMBDA r :
      r.address = SetToSortSeq({q.address : q \in Range(rows)}, <)[i])])

\* Drops an element that agrees with the last one kept.
Dedup(rows, Key(_)) ==
  FoldLeft(LAMBDA kept, r : IF kept # <<>> /\ Key(Last(kept)) = Key(r) THEN kept
                            ELSE Append(kept, r), <<>>, rows)

CompactRows(rows) == Dedup(rows, LAMBDA r : <<r.file, r.line>>)

NoLines == [entries |-> <<>>, files |-> <<>>, sequences |-> <<>>, warnings |-> {}]

\* program: an option.
CollectLines(program) ==
  LET offsets == ScanOffsets(program[1])
      run == Replay(program[1].code, offsets)
      rows == SubSeq(run.rows, 1, run.completed)
      files == FileIndices(program[1], rows)
      kept == SelectSeq(rows, LAMBDA r : r.file \in DOMAIN files /\ r.line <= MaxLine)
      entries == [i \in DOMAIN kept |-> [kept[i] EXCEPT !.file = files[@]]]
  IN IF program = <<>> THEN NoLines
     ELSE [entries |-> Dedup(SortByAddress(entries), LAMBDA r : r),
           files |-> files, sequences |-> run.ranges,
           warnings |-> (IF Len(offsets) # run.count THEN {"sequence mismatch"} ELSE {})
            \cup {"missing line file" : r \in {r \in Range(rows) : r.file \notin DOMAIN program[1].files}}
            \cup {"unrepresentable line" : r \in {r \in Range(rows) :
                                                  r.file \in DOMAIN files /\ r.line > MaxLine}}]

Chosen(x, choice) == choice = <<>> \/ x.sequence = choice

Covers(range, a) == range.start <= a /\ a < range.end

\* A change of the code: any earlier row is carried to the start of the range.
ForRange_AnySequence(lines, range, requested) ==
  LET exists == requested = <<>> \/ \E q \in Range(lines.sequences) : q.sequence = requested
      selected == IF exists THEN requested ELSE <<>>
      inside == SelectSeq(lines.entries, LAMBDA r : Covers(range, r.address) /\ Chosen(r, selected))
      before == SelectSeq(lines.entries, LAMBDA r : r.address < range.start /\ Chosen(r, selected))
      clamped == IF (inside = <<>> \/ inside[1].address > range.start) /\ before # <<>>
                 THEN <<[Last(before) EXCEPT !.address = range.start]>> ELSE <<>>
      rows == CompactRows(clamped \o inside)
  IN [rows |-> [i \in DOMAIN rows |->
                  [address |-> rows[i].address, file |-> rows[i].file, line |-> rows[i].line]],
      invalid |-> requested # <<>> /\ ~exists /\ rows # <<>>]

\* The rows of a range, of the requested sequence if the program has it.  When
\* none is at the start, the row before it in the sequence that covers the start
\* is carried there.
ForRange(lines, range, requested) ==
  LET exists == requested = <<>> \/ \E q \in Range(lines.sequences) : q.sequence = requested
      selected == IF exists THEN requested ELSE <<>>
      inside == SelectSeq(lines.entries, LAMBDA r : Covers(range, r.address) /\ Chosen(r, selected))
      covering == SelectSeq(lines.sequences, LAMBDA q : Covers(q, range.start) /\ Chosen(q, selected))
      clamping == IF selected # <<>> THEN selected ELSE covering[1].sequence
      before == SelectSeq(lines.entries, LAMBDA r : r.address < range.start /\ Chosen(r, clamping))
      clamped == IF /\ inside = <<>> \/ inside[1].address > range.start
                    /\ covering # <<>> /\ before # <<>>
                 THEN <<[Last(before) EXCEPT !.address = range.start]>> ELSE <<>>
      rows == CompactRows(clamped \o inside)
  IN [rows |-> [i \in DOMAIN rows |->
                  [address |-> rows[i].address, file |-> rows[i].file, line |-> rows[i].line]],
      invalid |-> requested # <<>> /\ ~exists /\ rows # <<>>]

=============================================================================
