------------------------------ MODULE ByteFields ------------------------------
(***************************************************************************)
(* The bytes of a GSYM file, and the encoder and cursor that write and     *)
(* read them.                                                              *)
(*                                                                         *)
(* A file is a sequence of cells, one per byte.  A fixed-width integer is  *)
(* one cell that holds its width and value and width - 1 cells that hold   *)
(* nothing; byte order is left out.  Reading anything but a whole field of *)
(* the same width fails: no writer put an integer there.                   *)
(*                                                                         *)
(* A cursor is a record: the cells, the next position, the end it may not  *)
(* pass, the value last read and whether every read so far succeeded.  The *)
(* code returns at the first error; here a failed cursor stays failed and  *)
(* reads zero, which ends every loop the value bounds.                     *)
(***************************************************************************)
EXTENDS Integers, Sequences, SequencesExt

Rest == [width |-> 0, value |-> 0]

Field(value, width) ==
  <<[width |-> width, value |-> value]>> \o [i \in 1..width - 1 |-> Rest]

U8(value) == Field(value, 1)
U16(value) == Field(value, 2)
U32(value) == Field(value, 4)
U64(value) == Field(value, 8)

Bytes(values) == FlattenSeq([i \in DOMAIN values |-> U8(values[i])])

AlignUp(n, alignment) == ((n + alignment - 1) \div alignment) * alignment

Padding(n) == Bytes([i \in 1..n |-> 0])

Aligned(output, alignment) ==
  output \o Padding(AlignUp(Len(output), alignment) - Len(output))

\* LEB128: seven bits a byte, the low ones first; TLA+'s \div rounds down, as
\* the arithmetic shift of a negative number does.
RECURSIVE Uleb(_), Sleb(_)

Uleb(value) ==
  IF value < 128 THEN U8(value) ELSE U8((value % 128) + 128) \o Uleb(value \div 128)

Sleb(value) ==
  IF value \in -64..63 THEN U8(value % 128) ELSE U8((value % 128) + 128) \o Sleb(value \div 128)

---------------------------------------------------------------------------
(* Cursors *)

Failed(c) == [c EXCEPT !.ok = FALSE, !.value = 0]

Require(c, condition) == IF condition THEN c ELSE Failed(c)

CursorAt(cells, position, end) ==
  [cells |-> cells, at |-> position, end |-> end, value |-> 0,
   ok |-> position <= end /\ end <= Len(cells)]

Remaining(c) == c.end - c.at

Exhausted(c) == c.ok /\ c.at = c.end

ReadUint(c, width) ==
  IF c.ok /\ c.at + width <= c.end /\ c.cells[c.at + 1].width = width
  THEN [c EXCEPT !.at = @ + width, !.value = c.cells[c.at + 1].value]
  ELSE Failed(c)

\* The bytes a take returns, as a cursor over them, and the cursor behind them.
Taken(c, n) == [Require(c, n <= Remaining(c)) EXCEPT !.end = c.at + n]
Behind(c, n) == [Require(c, n <= Remaining(c)) EXCEPT !.at = @ + n]

\* Ten groups of seven bits at most; the sign is bit 6 of the last.
MaxGroups == 10

RECURSIVE ReadGroups(_, _, _)

ReadGroups(c, signed, groups) ==
  LET b == ReadUint(c, 1)
  IN IF ~b.ok \/ groups = 0 THEN Failed(c)
     ELSE IF b.value < 128
          THEN [b EXCEPT !.value = IF signed /\ @ >= 64 THEN @ - 128 ELSE @]
     ELSE LET more == ReadGroups(b, signed, groups - 1)
          IN [more EXCEPT !.value = IF more.ok THEN b.value - 128 + 128 * @ ELSE 0]

ReadUleb(c) == ReadGroups(c, FALSE, MaxGroups)
ReadSleb(c) == ReadGroups(c, TRUE, MaxGroups)

\* n readings in a row: Step takes a cursor and the items so far to the next.
Repeat(Step(_, _), n, c) ==
  FoldLeft(LAMBDA acc, i : IF acc.c.ok THEN Step(acc.c, acc.items) ELSE acc,
           [c |-> c, items |-> <<>>], [i \in 1..n |-> i])

=============================================================================
