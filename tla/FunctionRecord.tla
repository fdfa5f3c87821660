----------------------------- MODULE FunctionRecord -----------------------------
(***************************************************************************)
(* The FunctionInfo record of one function: what the encoder writes, what  *)
(* it refuses to write, and what the decoder makes of it.                  *)
(*                                                                         *)
(* A function is a record: its range [start, end), its name, its line rows,*)
(* its inline tree (a sequence of at most one root), the aliases merged    *)
(* into it and its call sites.  A string is a sequence of nonzero bytes;   *)
(* encoding replaces it by its offset in the string table, str[s], and     *)
(* decoding leaves that offset.  Decoders return a cursor and the items    *)
(* read; they are wrong when the cursor has failed.                        *)
(***************************************************************************)
EXTENDS ByteFields, InlineTrees, FiniteSets, FiniteSetsExt

CONSTANTS MaxMergedDepth,  \* deepest merged alias (16)
          MaxLineRange,    \* widest line delta of a special opcode (14)
          MaxOpcode,       \* largest special opcode (255)
          MaxAddress       \* bound on the addresses

Raw == [end |-> 0, lines |-> 1, inline |-> 2, merged |-> 3, sites |-> 4]

---------------------------------------------------------------------------
(* The line program *)

EndSequence == 0
SetFile == 1
AdvancePc == 2
AdvanceLine == 3
FirstSpecial == 4

\* The line deltas special opcodes carry: those of the densest window, the
\* lowest of several; all of them when they fit one.
DeltaRange(rows) ==
  LET deltas == [i \in 1..Len(rows) - 1 |-> rows[i + 1].line - rows[i].line]
      Window(d) == {i \in DOMAIN deltas : d <= deltas[i] /\ deltas[i] <= d + MaxLineRange}
      Best(d) == \A e \in Range(deltas) :
                   \/ Cardinality(Window(d)) > Cardinality(Window(e))
                   \/ Cardinality(Window(d)) = Cardinality(Window(e)) /\ d <= e
      low == CHOOSE d \in Range(deltas) : Best(d)
      high == Max({deltas[i] : i \in Window(low)})
  IN IF deltas = <<>> THEN [low |-> 0, high |-> 0]
     ELSE [low |-> IF low = high /\ 0 < low /\ low < MaxLineRange THEN 0 ELSE low,
           high |-> high]

EncodeRow(range, previous, row) ==
  LET delta == row.line - previous.line
      advance == row.address - previous.address
      special == delta - range.low + advance * (range.high - range.low + 1) + FirstSpecial
  IN (IF row.file = previous.file THEN <<>> ELSE U8(SetFile) \o Uleb(row.file))
     \o IF range.low <= delta /\ delta <= range.high /\ special <= MaxOpcode
        THEN U8(special)
        ELSE (IF delta = 0 THEN <<>> ELSE U8(AdvanceLine) \o Sleb(delta))
             \o U8(AdvancePc) \o Uleb(advance)

EncodeLines(rows, base) ==
  LET range == DeltaRange(rows)
      first == [address |-> base, file |-> 1, line |-> rows[1].line]
      previous(i) == IF i = 1 THEN first ELSE rows[i - 1]
  IN Sleb(range.low) \o Sleb(range.high) \o Uleb(first.line)
     \o FlattenSeq([i \in DOMAIN rows |-> EncodeRow(range, previous(i), rows[i])])
     \o U8(EndSequence)

LinesEncodable(rows, base) ==
  /\ \A i \in DOMAIN rows : rows[i].address >= base
  /\ \A i \in 1..Len(rows) - 1 : rows[i].address <= rows[i + 1].address

RECURSIVE ReadRows(_, _, _, _, _)

\* Rows up to the end of the sequence, or up to the first one past the limit: a
\* lookup reads no further.
ReadRows(c, range, row, limit, rows) ==
  LET opcode == ReadUint(c, 1)
      unsigned == ReadUleb(opcode)
      signed == ReadSleb(opcode)
      special == opcode.value - FirstSpecial
      span == range.high - range.low + 1
      moved == IF opcode.value = AdvancePc
               THEN [row EXCEPT !.address = @ + unsigned.value]
               ELSE [row EXCEPT !.address = @ + special \div span,
                                !.line = @ + range.low + (special % span)]
      next == IF opcode.value = AdvancePc THEN unsigned ELSE Require(opcode, moved.line >= 0)
  IN IF ~opcode.ok \/ opcode.value = EndSequence THEN [c |-> opcode, items |-> rows]
     ELSE IF opcode.value = SetFile
          THEN ReadRows(unsigned, range, [row EXCEPT !.file = unsigned.value], limit, rows)
     ELSE IF opcode.value = AdvanceLine
          THEN ReadRows(Require(signed, row.line + signed.value >= 0), range,
                        [row EXCEPT !.line = @ + signed.value], limit, rows)
     ELSE IF ~next.ok \/ moved.address > limit THEN [c |-> next, items |-> rows]
     ELSE ReadRows(next, range, moved, limit, Append(rows, moved))

ReadLines(c, base, limit) ==
  LET low == ReadSleb(c)
      high == ReadSleb(low)
      line == ReadUleb(Require(high, low.value <= high.value))
  IN ReadRows(line, [low |-> low.value, high |-> high.value],
              [address |-> base, file |-> 1, line |-> line.value], limit, <<>>)

---------------------------------------------------------------------------
(* Inline trees *)

EncodeRanges(ranges, base) ==
  Uleb(Len(ranges))
  \o FlattenSeq([i \in DOMAIN ranges |->
       Uleb(ranges[i].start - base) \o Uleb(ranges[i].end - ranges[i].start)])

RECURSIVE EncodeInline(_, _, _, _), InlineEncodable(_, _, _)

\* The ranges of a child are relative to the first range of its parent.
EncodeInline(node, base, str, width) ==
  EncodeRanges(node.ranges, base)
  \o U8(IF node.children = <<>> THEN 0 ELSE 1)
  \o Field(str[node.name], width) \o Uleb(node.file) \o Uleb(node.line)
  \o IF node.children = <<>> THEN <<>>
     ELSE FlattenSeq([i \in DOMAIN node.children |->
            EncodeInline(node.children[i], node.ranges[1].start, str, width)]) \o Uleb(0)

InlineEncodable(node, base, depth) ==
  /\ depth <= MaxInlineDepth
  /\ node.ranges # <<>>
  /\ \A r \in Range(node.ranges) : base <= r.start /\ r.start <= r.end
  /\ Ascending(node.ranges)
  /\ \A child \in Range(node.children) :
       /\ \A r \in Range(child.ranges) : Inside(r, node.ranges)
       /\ InlineEncodable(child, node.ranges[1].start, depth + 1)

ReadRanges(c, base) ==
  LET count == ReadUleb(c)
      Step(b, ranges) ==
        LET start == ReadUleb(b)
            size == ReadUleb(start)
        IN [c |-> size,
            items |-> Append(ranges, [start |-> base + start.value,
                                      end |-> base + start.value + size.value])]
      bounded == Require(count, count.value <= Remaining(count) \div 2)
  IN Repeat(Step, bounded.value, bounded)

DecodeRanges(c, base) ==
  LET ranges == ReadRanges(c, base)
  IN [ranges EXCEPT !.c = Require(@, Ascending(ranges.items))]

\* The fields behind the ranges of a node; without ranges it has none.
NodeHeader(ranges, width) ==
  LET parent == ReadUint(ranges.c, 1)
      name == ReadUint(parent, width)
      file == ReadUleb(name)
      line == ReadUleb(file)
  IN IF ranges.items = <<>> THEN [c |-> ranges.c, parent |-> FALSE, node |-> [ranges |-> <<>>]]
     ELSE [c |-> line, parent |-> parent.value # 0,
           node |-> [ranges |-> ranges.items, name |-> name.value, file |-> file.value,
                     line |-> line.value, children |-> <<>>]]

RECURSIVE DecodeInline(_, _, _, _), DecodeChildren(_, _, _, _, _), DecodeSiblings(_, _, _, _, _)

\* A node without ranges ends a list of children.
DecodeInline(c, base, width, depth) ==
  LET header == NodeHeader(DecodeRanges(Require(c, depth <= MaxInlineDepth), base), width)
      adopted(children) == [c |-> children.c,
                            node |-> [header.node EXCEPT !.children = children.items]]
  IN IF header.c.ok /\ header.parent
     THEN adopted(DecodeChildren(header.c, header.node.ranges, width, depth + 1, <<>>))
     ELSE [c |-> header.c, node |-> header.node]

DecodeChildren(c, parents, width, depth, children) ==
  DecodeSiblings(DecodeInline(c, parents[1].start, width, depth), parents, width, depth, children)

DecodeSiblings(child, parents, width, depth, children) ==
  LET inside == \A r \in Range(child.node.ranges) : Inside(r, parents)
  IN IF ~child.c.ok \/ child.node.ranges = <<>> THEN [c |-> child.c, items |-> children]
     ELSE DecodeChildren(Require(child.c, inside), parents, width, depth,
                         Append(children, child.node))

---------------------------------------------------------------------------
(* Call sites *)

EncodeSites(sites, str, width) ==
  U32(Len(sites))
  \o FlattenSeq([i \in DOMAIN sites |->
       U64(sites[i].offset) \o U8(sites[i].flags) \o U32(Len(sites[i].patterns))
       \o FlattenSeq([j \in DOMAIN sites[i].patterns |->
            Field(str[sites[i].patterns[j]], width)])])

DecodeSites(c, width) ==
  LET count == ReadUint(c, 4)
      Pattern(b, patterns) ==
        LET p == ReadUint(b, width) IN [c |-> p, items |-> Append(patterns, p.value)]
      Step(b, sites) ==
        LET offset == ReadUint(b, 8)
            flags == ReadUint(offset, 1)
            n == ReadUint(flags, 4)
            patterns == Repeat(Pattern, n.value,
                               Require(n, n.value <= Remaining(n) \div width))
        IN [c |-> patterns.c,
            items |-> Append(sites, [offset |-> offset.value, flags |-> flags.value,
                                     patterns |-> patterns.items])]
  IN Repeat(Step, count.value, Require(count, count.value <= Remaining(count) \div 13))

---------------------------------------------------------------------------
(* Validation by the builder *)

IsEmpty(f) == f.start = f.end

RECURSIVE ValidInline(_, _, _), ValidFunction(_, _, _)

ValidInline(node, parents, depth) ==
  /\ depth <= MaxInlineDepth
  /\ node.ranges # <<>>
  /\ \A r \in Range(node.ranges) : r.start < r.end /\ Inside(r, parents)
  /\ Ascending(node.ranges)
  /\ \A child \in Range(node.children) : ValidInline(child, node.ranges, depth + 1)

\* parent: the function f is merged into, in a sequence of at most one.
ValidFunction(f, parent, depth) ==
  LET range == [start |-> f.start, end |-> f.end]
  IN /\ depth <= MaxMergedDepth
     /\ f.name # <<>>
     /\ f.start <= f.end
     /\ \A p \in Range(parent) : p.start = f.start /\ p.end = f.end
     /\ \A row \in Range(f.lines) : f.start <= row.address /\ (IsEmpty(f) \/ row.address < f.end)
     /\ \A root \in Range(f.inline) : ValidInline(root, <<range>>, 0)
     /\ \A site \in Range(f.sites) : IsEmpty(f) \/ site.offset < f.end - f.start
     /\ \A g \in Range(f.merged) : ValidFunction(g, <<f>>, depth + 1)

---------------------------------------------------------------------------
(* The record *)

\* A kind and a length that is only known once the payload is written.
Record(kind, payload) == U32(kind) \o U32(Len(payload)) \o payload

Unless(absent, bytes) == IF absent THEN <<>> ELSE bytes

RECURSIVE EncodeFunction(_, _, _), Encodable(_, _)

EncodeMerged(functions, str, width) ==
  U32(Len(functions))
  \o FlattenSeq([i \in DOMAIN functions |->
       LET bytes == EncodeFunction(functions[i], str, width) IN U32(Len(bytes)) \o bytes])

EncodeFunction(f, str, width) ==
  U32(f.end - f.start) \o Field(str[f.name], width)
  \o Unless(f.lines = <<>>, Record(Raw.lines, EncodeLines(f.lines, f.start)))
  \o Unless(f.inline = <<>>, Record(Raw.inline, EncodeInline(f.inline[1], f.start, str, width)))
  \o Unless(f.merged = <<>>, Record(Raw.merged, EncodeMerged(f.merged, str, width)))
  \o Unless(f.sites = <<>>, Record(Raw.sites, EncodeSites(f.sites, str, width)))
  \o U32(Raw.end) \o U32(0)

\* What encode_into_at and the encoders it calls do not refuse.
Encodable(f, depth) ==
  /\ depth <= MaxMergedDepth
  /\ f.name # <<>>
  /\ f.start <= f.end
  /\ LinesEncodable(f.lines, f.start)
  /\ \A root \in Range(f.inline) : InlineEncodable(root, f.start, 0)
  /\ \A g \in Range(f.merged) : g.start = f.start /\ Encodable(g, depth + 1)

NextRecord(c) ==
  LET kind == ReadUint(c, 4)
      length == ReadUint(kind, 4)
  IN [kind |-> kind.value, length |-> length, ended |-> ~length.ok \/ kind.value = Raw.end,
      payload |-> Taken(length, length.value), rest |-> Behind(length, length.value)]

\* A change of the code: the end of the bytes ends the records as a marker does.
EndOf_Lenient(record) ==
  IF record.length.at = record.length.end THEN [record.length EXCEPT !.ok = TRUE]
  ELSE Require(record.length, record.length.value = 0)

\* An end marker that has a length is malformed.
EndOf(record) == Require(record.length, record.length.value = 0)

RECURSIVE DecodeFunction(_, _, _, _), DecodeRecords(_, _, _, _, _), DecodePayload(_, _, _, _)

DecodeMerged(c, base, width, depth) ==
  LET count == ReadUint(c, 4)
      Step(b, functions) ==
        LET length == ReadUint(b, 4)
            f == DecodeFunction(Taken(length, length.value), base, width, depth)
        IN [c |-> Require(Behind(length, length.value), Exhausted(f.c)),
            items |-> Append(functions, f.item)]
  IN Repeat(Step, count.value, Require(count, count.value <= Remaining(count) \div 4))

\* The function with what a record says of it.  An unknown kind fails; so does a
\* payload with bytes left over, a line table apart.
DecodePayload(record, f, width, depth) ==
  LET lines(rows) == [ok |-> rows.c.ok, item |-> [f EXCEPT !.lines = rows.items]]
      inline(root) == [ok |-> root.node.ranges # <<>> /\ Exhausted(root.c),
                       item |-> [f EXCEPT !.inline = <<root.node>>]]
      merged(list) == [ok |-> Exhausted(list.c), item |-> [f EXCEPT !.merged = list.items]]
      sites(list) == [ok |-> Exhausted(list.c), item |-> [f EXCEPT !.sites = list.items]]
  IN CASE record.kind = Raw.lines -> lines(ReadLines(record.payload, f.start, MaxAddress))
       [] record.kind = Raw.inline -> inline(DecodeInline(record.payload, f.start, width, 0))
       [] record.kind = Raw.merged -> merged(DecodeMerged(record.payload, f.start, width, depth + 1))
       [] record.kind = Raw.sites -> sites(DecodeSites(record.payload, width))
       [] OTHER -> [ok |-> FALSE, item |-> f]

\* A kind seen before fails.
DecodeRecords(c, f, seen, width, depth) ==
  LET record == NextRecord(c)
      Continue(decoded) ==
        DecodeRecords(Require(record.rest, decoded.ok), decoded.item, seen \cup {record.kind},
                      width, depth)
  IN IF record.ended THEN [c |-> EndOf(record), item |-> f]
     ELSE IF record.kind \in seen THEN [c |-> Failed(c), item |-> f]
     ELSE Continue(DecodePayload(record, f, width, depth))

DecodeFunction(c, base, width, depth) ==
  LET size == ReadUint(Require(c, depth <= MaxMergedDepth), 4)
      name == ReadUint(size, width)
  IN DecodeRecords(Require(name, name.value # 0),
                   [start |-> base, end |-> base + size.value, name |-> name.value,
                    lines |-> <<>>, inline |-> <<>>, merged |-> <<>>, sites |-> <<>>],
                   {}, width, depth)

=============================================================================
