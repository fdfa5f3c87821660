------------------------------- MODULE GsymImage -------------------------------
(***************************************************************************)
(* A GSYM file from the model a builder holds to what a reader answers: a  *)
(* model is validated and written, the file may lose bytes at its end, and *)
(* a reader parses it, looks addresses up and verifies it.                 *)
(***************************************************************************)
EXTENDS ImageFormat

CONSTANTS Models,     \* the models built
          Losses,     \* how many bytes may be lost
          Addresses,  \* the addresses looked up
          Requests    \* the lookup options explored: sets of record kinds

VARIABLES model,   \* what is built
          pc,
          image,   \* the bytes of the file
          lost,    \* how many of its last bytes are gone
          layout,  \* where the parsed file has its tables
          answer   \* what the reader returned

vars == <<model, pc, image, lost, layout, answer>>

---------------------------------------------------------------------------
(* The files a function names *)

RECURSIVE InlineFiles(_), FilesOf(_)

InlineFiles(node) ==
  {node.file} \cup UNION {InlineFiles(child) : child \in Range(node.children)}

FilesOf(f) ==
  {row.file : row \in Range(f.lines)}
    \cup UNION {InlineFiles(root) : root \in Range(f.inline)}
    \cup UNION {FilesOf(g) : g \in Range(f.merged)}

---------------------------------------------------------------------------
(* Access to the tables *)

Bad == [ok |-> FALSE]

\* A string ends at the first zero byte in the table.
StringAt(bytes, l, offset) ==
  LET at == l.strings.start + offset
      ends == {i \in at..l.strings.end - 1 : bytes[i + 1] = U8(0)[1]}
  IN IF at >= l.strings.end \/ ends = {} THEN Bad
     ELSE [ok |-> TRUE, string |-> [i \in 1..Min(ends) - at |-> bytes[at + i].value]]

FileAt(bytes, l, index) ==
  LET width == IF l.version = 1 THEN 4 ELSE 8
      entry == ReadFields(From(bytes, l.files.start + 4 + index * 2 * width), <<width, width>>)
      directory == StringAt(bytes, l, entry.items[1])
      basename == StringAt(bytes, l, entry.items[2])
  IN IF index >= l.fileCount \/ ~entry.c.ok \/ ~directory.ok \/ ~basename.ok THEN Bad
     ELSE [ok |-> TRUE, path |-> <<directory.string, basename.string>>]

Address(bytes, l, i) ==
  LET offset == ReadUint(From(bytes, l.addresses.start + i * l.width), l.width)
  IN [offset EXCEPT !.value = @ + l.base]

\* Version 1 stores absolute offsets, version 2 offsets into the section.
FunctionOffset(bytes, l, i) ==
  LET width == IF l.version = 1 THEN 4 ELSE 8
      offset == ReadUint(From(bytes, l.infos.start + i * width), width)
  IN IF l.version = 1 THEN offset ELSE [offset EXCEPT !.value = @ + l.functions.start]

\* The header of a record, as a cursor over the records that follow.
RawFunction(bytes, l, i, start) ==
  LET width == IF l.version = 1 THEN 4 ELSE 8
      offset == FunctionOffset(bytes, l, i)
      within == l.functions.start <= offset.value /\ offset.value < l.functions.end
      body == CursorAt(bytes, offset.value, l.functions.end)
      header == ReadFields(body, <<4, width>>)
  IN IF ~offset.ok \/ ~within \/ ~header.c.ok \/ header.items[2] = 0 THEN Bad
     ELSE [ok |-> TRUE, start |-> start, end |-> start + header.items[1],
           name |-> header.items[2], body |-> body, records |-> header.c]

---------------------------------------------------------------------------
(* Lookup *)

\* The last address at or below the one looked up; the table is sorted.
FindAddressIndex(bytes, l, a) ==
  Cardinality({i \in 0..l.count - 1 : Address(bytes, l, i).value <= a}) - 1

\* Among the functions of one start the first that is empty or holds the address.
MatchingFunction(bytes, l, a) ==
  LET found == FindAddressIndex(bytes, l, a)
      start == Address(bytes, l, found).value
      same == {i \in 0..l.count - 1 : Address(bytes, l, i).value = start}
      raw(i) == RawFunction(bytes, l, i, start)
      stop == {i \in same : ~raw(i).ok \/ raw(i).start = raw(i).end \/ a < raw(i).end}
  IN IF a < l.base \/ l.count = 0 \/ found < 0 THEN [raw |-> Bad, found |-> FALSE]
     ELSE IF stop = {} THEN [raw |-> Bad, found |-> FALSE]
     ELSE [raw |-> raw(Min(stop)), found |-> TRUE]

RECURSIVE ScanRecords(_, _, _, _, _), ScanInline(_, _, _, _, _, _, _), ScanNode(_, _, _, _, _, _),
          ScanChildren(_, _, _, _, _, _, _), ScanSiblings(_, _, _, _, _, _)

\* The records the request is about, every other one skipped.
ScanRecords(c, base, a, request, scanned) ==
  LET record == NextRecord(c)
      rows == ReadLines(record.payload, base, a)
      wanted(kind) == record.kind = kind /\ kind \in request
  IN IF record.ended THEN [c |-> EndOf(record), scanned |-> scanned]
     ELSE IF wanted(Raw.lines)
          THEN ScanRecords(Require(record.rest, rows.c.ok), base, a, request,
                           [scanned EXCEPT !.row = IF rows.items = <<>> THEN <<>>
                                                   ELSE <<Last(rows.items)>>])
     ELSE ScanRecords(record.rest, base, a, request,
                      [scanned EXCEPT !.inline = IF wanted(Raw.inline) THEN <<record.payload>> ELSE @,
                                      !.sites = IF wanted(Raw.sites) THEN <<record.payload>> ELSE @])

\* Walks the whole tree; collects the named nodes on the path of first matches.
ScanInline(c, base, a, width, collect, depth, frames) ==
  ScanNode(NodeHeader(ReadRanges(Require(c, depth <= MaxInlineDepth), base), width),
           a, width, collect, depth, frames)

ScanNode(header, a, width, collect, depth, frames) ==
  LET node == header.node
      matched == collect /\ \E r \in Range(node.ranges) : r.start <= a /\ a < r.end
      pushed == IF matched /\ node.name # 0
                THEN Append(frames, [name |-> node.name, file |-> node.file, line |-> node.line,
                                     start |-> node.ranges[1].start])
                ELSE frames
      scanned(children) == [c |-> children.c, present |-> node.ranges # <<>>,
                            matched |-> matched, frames |-> children.frames]
  IN scanned(IF header.c.ok /\ header.parent
             THEN ScanChildren(header.c, node.ranges[1].start, a, width, matched, depth + 1, pushed)
             ELSE [c |-> header.c, frames |-> pushed])

ScanChildren(c, base, a, width, collect, depth, frames) ==
  ScanSiblings(ScanInline(c, base, a, width, collect, depth, frames), base, a, width, collect, depth)

\* A change of the code: every sibling that holds the address is a frame.
ScanSiblings_All(child, base, a, width, collect, depth) ==
  IF ~child.c.ok \/ ~child.present THEN [c |-> child.c, frames |-> child.frames]
  ELSE ScanChildren(child.c, base, a, width, collect, depth, child.frames)

ScanSiblings(child, base, a, width, collect, depth) ==
  IF ~child.c.ok \/ ~child.present THEN [c |-> child.c, frames |-> child.frames]
  ELSE ScanChildren(child.c, base, a, width, collect /\ ~child.matched, depth, child.frames)

\* One frame, or one per inline node from the innermost out; a frame is where
\* the one inside it was called.
Frames(bytes, l, a, raw, row, nodes) ==
  LET innermost == IF row = <<>> THEN [ok |-> TRUE, path |-> <<<<>>, <<>>>>]
                   ELSE FileAt(bytes, l, row[1].file)
      place(i) == IF i = Len(nodes) THEN innermost ELSE FileAt(bytes, l, nodes[i + 1].file)
      line(i) == IF i < Len(nodes) THEN nodes[i + 1].line
                 ELSE IF row = <<>> THEN 0 ELSE row[1].line
      name(i) == StringAt(bytes, l, IF i = 0 THEN raw.name ELSE nodes[i].name)
      shown == IF nodes = <<>> THEN {0} ELSE DOMAIN nodes
      frame(i) == [name |-> name(i).string, path |-> place(i).path, line |-> line(i),
                   offset |-> a - (IF i = 0 THEN raw.start ELSE nodes[i].start),
                   inlined |-> i > 1]
  IN IF name(0).ok /\ innermost.ok /\ \A i \in shown : name(i).ok /\ place(i).ok
     THEN [ok |-> TRUE,
           frames |-> IF nodes = <<>> THEN <<frame(0)>>
                      ELSE Reverse([i \in DOMAIN nodes |-> frame(i)])]
     ELSE Bad

\* The patterns of the call sites that return to this offset.
Patterns(bytes, l, c, width, offset) ==
  LET count == ReadUint(c, 4)
      Pattern(b, patterns) ==
        LET p == ReadUint(b, width) IN [c |-> p, items |-> Append(patterns, p.value)]
      Step(b, found) ==
        LET site == ReadFields(b, <<8, 1, 4>>)
            patterns == Repeat(Pattern, site.items[3], site.c)
        IN [c |-> patterns.c,
            items |-> IF site.items[1] = offset THEN found \o patterns.items ELSE found]
      all == Repeat(Step, count.value, count)
      strings == [i \in DOMAIN all.items |-> StringAt(bytes, l, all.items[i])]
  IN IF Exhausted(all.c) /\ \A i \in DOMAIN strings : strings[i].ok
     THEN [ok |-> TRUE, patterns |-> [i \in DOMAIN strings |-> strings[i].string]]
     ELSE Bad

Error == [kind |-> "error"]

\* The nodes around the address, if the tree was read to the end of its record.
NodesAt(a, raw, width, inline) ==
  IF inline = <<>> THEN [ok |-> TRUE, nodes |-> <<>>]
  ELSE LET complete(tree) == [ok |-> tree.present /\ Exhausted(tree.c), nodes |-> tree.frames]
       IN complete(ScanInline(inline[1], raw.start, a, width, TRUE, 0, <<>>))

PatternsAt(bytes, l, a, raw, width, sites) ==
  IF sites = <<>> THEN [ok |-> TRUE, patterns |-> <<>>]
  ELSE Patterns(bytes, l, sites[1], width, a - raw.start)

FramesAt(bytes, l, a, raw, row, scan) ==
  IF scan.ok THEN Frames(bytes, l, a, raw, row, scan.nodes) ELSE Bad

Answered(raw, frames, patterns) ==
  IF frames.ok /\ patterns.ok
  THEN [kind |-> "found", start |-> raw.start, end |-> raw.end,
        frames |-> frames.frames, patterns |-> patterns.patterns]
  ELSE Error

\* What is answered from the records that were kept.
Described(bytes, l, a, raw, found) ==
  LET width == IF l.version = 1 THEN 4 ELSE 8
  IN Answered(raw,
              FramesAt(bytes, l, a, raw, found.row, NodesAt(a, raw, width, found.inline)),
              PatternsAt(bytes, l, a, raw, width, found.sites))

LookupIn(bytes, l, a, request, raw) ==
  LET nothing == [row |-> <<>>, inline |-> <<>>, sites |-> <<>>]
      records == IF request = {} THEN [c |-> raw.records, scanned |-> nothing]
                 ELSE ScanRecords(raw.records, raw.start, a, request, nothing)
  IN IF ~raw.ok \/ ~records.c.ok THEN Error
     ELSE Described(bytes, l, a, raw, records.scanned)

Lookup(bytes, l, a, request) ==
  LET match == MatchingFunction(bytes, l, a)
  IN IF match.found THEN LookupIn(bytes, l, a, request, match.raw) ELSE [kind |-> "none"]

---------------------------------------------------------------------------
(* Verification and decoding *)

RECURSIVE OwnedInline(_, _, _), Owned(_, _, _), InlineRangesHold(_, _), Holds(_, _, _)

InlineRangesHold(node, parents) ==
  /\ \A r \in Range(node.ranges) : r.start < r.end /\ Inside(r, parents)
  /\ \A child \in Range(node.children) : InlineRangesHold(child, node.ranges)

\* validate_semantics, on a record and those merged into it.
Holds(f, parent, depth) ==
  /\ depth <= MaxMergedDepth
  /\ \A p \in Range(parent) : p.start = f.start /\ p.end = f.end
  /\ \A row \in Range(f.lines) : f.start <= row.address /\ (IsEmpty(f) \/ row.address < f.end)
  /\ \A root \in Range(f.inline) : InlineRangesHold(root, <<[start |-> f.start, end |-> f.end]>>)
  /\ \A site \in Range(f.sites) : IsEmpty(f) \/ site.offset < f.end - f.start
  /\ \A g \in Range(f.merged) : Holds(g, <<f>>, depth + 1)

OwnedInline(bytes, l, node) ==
  [node EXCEPT !.name = StringAt(bytes, l, @).string,
               !.children = [i \in DOMAIN @ |-> OwnedInline(bytes, l, @[i])]]

\* A decoded record with its strings in place of their offsets.
Owned(bytes, l, f) ==
  [f EXCEPT !.name = StringAt(bytes, l, @).string,
            !.inline = [i \in DOMAIN @ |-> OwnedInline(bytes, l, @[i])],
            !.merged = [i \in DOMAIN @ |-> Owned(bytes, l, @[i])],
            !.sites = [i \in DOMAIN @ |->
              [@[i] EXCEPT !.patterns = [j \in DOMAIN @ |-> StringAt(bytes, l, @[j]).string]]]]

\* What verification asks of a decoded record.
Sound(bytes, l, f) ==
  /\ Holds(f, <<>>, 0)
  /\ \A offset \in Range(NamesOf(f)) : StringAt(bytes, l, offset).ok
  /\ \A index \in FilesOf(f) : FileAt(bytes, l, index).ok

\* The records, each decoded when it is asked for.
Records(l, raw) ==
  LET width == IF l.version = 1 THEN 4 ELSE 8
  IN [i \in DOMAIN raw |-> DecodeFunction(raw[i].body, raw[i].start, width, 0)]

Report(bytes, l, files, address, raw, record) ==
  IF /\ \A i \in DOMAIN files : files[i].ok
     /\ l.fileCount > 0 => files[1].path = <<<<>>, <<>>>>
     /\ \A i \in DOMAIN raw :
          /\ address[i].ok /\ (i > 0 => address[i - 1].value <= address[i].value)
          /\ raw[i].ok /\ record[i].c.ok
          /\ Sound(bytes, l, record[i].item)
  THEN [kind |-> "verified", version |-> l.version, base |-> l.base,
        buildId |-> [i \in 1..SizeOf(l.buildId) |-> bytes[l.buildId.start + i].value],
        files |-> [i \in DOMAIN files |-> files[i].path],
        functions |-> [i \in 1..l.count |-> Owned(bytes, l, record[i - 1].item)]]
  ELSE Error

Verify(bytes, l) ==
  LET first == ReadUint(From(bytes, l.strings.start), 1)
      files == [i \in 1..l.fileCount |-> FileAt(bytes, l, i - 1)]
      address == [i \in 0..l.count - 1 |-> Address(bytes, l, i)]
      raw == [i \in 0..l.count - 1 |-> RawFunction(bytes, l, i, address[i].value)]
  IN IF first.ok /\ first.value = 0
     THEN Report(bytes, l, files, address, raw, Records(l, raw))
     ELSE Error

---------------------------------------------------------------------------
(* The life of a file *)

NoAnswer == [kind |-> "no answer"]

Init ==
  /\ model \in Models
  /\ pc = "validating"
  /\ image = <<>>
  /\ lost = 0
  /\ layout = NoLayout
  /\ answer = NoAnswer

Validate ==
  /\ pc = "validating"
  /\ pc' = IF \A f \in Range(model.functions) : ValidFunction(f, <<>>, 0)
           THEN "writing" ELSE "rejected"
  /\ UNCHANGED <<model, image, lost, layout, answer>>

\* What encode_builder does not refuse.
Writable ==
  /\ model.files[1] = <<<<>>, <<>>>>
  /\ model.functions # <<>>
  /\ \A f \in Range(model.functions) :
       /\ \A i \in FilesOf(f) : i < Len(model.files)
       /\ f.start >= BaseOf(model)
       /\ Encodable(f, 0)

Write ==
  /\ pc = "writing"
  /\ IF Writable /\ Written(model).ok
     THEN /\ image' = Written(model).bytes
          /\ pc' = "written"
     ELSE /\ pc' = "refused"
          /\ UNCHANGED image
  /\ UNCHANGED <<model, lost, layout, answer>>

Lose(n) ==
  /\ pc = "written"
  /\ lost = 0 /\ n < Len(image)
  /\ image' = SubSeq(image, 1, Len(image) - n)
  /\ lost' = n
  /\ UNCHANGED <<model, pc, layout, answer>>

Open ==
  /\ pc = "written"
  /\ layout' = Parsed(image)
  /\ pc' = IF layout'.ok THEN "open" ELSE "unreadable"
  /\ UNCHANGED <<model, image, lost, answer>>

LookUp(a, request) ==
  /\ pc = "open"
  /\ answer' = [address |-> a, request |-> request, result |-> Lookup(image, layout, a, request)]
  /\ pc' = "answered"
  /\ UNCHANGED <<model, image, lost, layout>>

VerifyAll ==
  /\ pc = "open"
  /\ answer' = Verify(image, layout)
  /\ pc' = "checked"
  /\ UNCHANGED <<model, image, lost, layout>>

Next ==
  \/ Validate
  \/ Write
  \/ \E n \in Losses : Lose(n)
  \/ Open
  \/ \E a \in Addresses, request \in Requests : LookUp(a, request)
  \/ VerifyAll

Spec == Init /\ [][Next]_vars

---------------------------------------------------------------------------
(* Properties *)

RECURSIVE Chain(_, _)

\* The inline nodes at an address, from the root inwards; among siblings the
\* first one counts.
Chain(nodes, a) ==
  LET i == SelectInSeq(nodes, LAMBDA node :
             \E r \in Range(node.ranges) : r.start <= a /\ a < r.end)
  IN IF i = 0 THEN <<>> ELSE <<nodes[i]>> \o Chain(nodes[i].children, a)

\* The frames the docs of Lookup and LookupFrame promise for an address of f: the
\* deepest body first, where the row says, then each caller where it made the
\* call.  A node without a name is not a frame.
FramesOf(m, f, a, request) ==
  LET rows == SelectSeq(f.lines, LAMBDA r : Raw.lines \in request /\ r.address <= a)
      nodes == IF Raw.inline \in request
               THEN SelectSeq(Chain(f.inline, a), LAMBDA node : node.name # <<>>) ELSE <<>>
      stack == IF nodes = <<>>
               THEN <<[name |-> f.name, ranges |-> <<[start |-> f.start, end |-> f.end]>>]>>
               ELSE nodes
      here == IF rows = <<>> THEN [path |-> <<<<>>, <<>>>>, line |-> 0]
              ELSE [path |-> m.files[Last(rows).file + 1], line |-> Last(rows).line]
      place(i) == IF i = Len(stack) THEN here
                  ELSE [path |-> m.files[stack[i + 1].file + 1], line |-> stack[i + 1].line]
  IN Reverse([i \in DOMAIN stack |->
       [name |-> stack[i].name, path |-> place(i).path, line |-> place(i).line,
        offset |-> a - stack[i].ranges[1].start, inlined |-> i > 1]])

Meaning(m, a, request) ==
  LET below == SelectSeq(m.functions, LAMBDA f : BaseOf(m) <= a /\ f.start <= a)
      i == SelectInSeq(m.functions, LAMBDA f :
             /\ below # <<>> /\ f.start = Last(below).start
             /\ IsEmpty(f) \/ a < f.end)
      f == m.functions[i]
      sites == SelectSeq(f.sites, LAMBDA site :
                 Raw.sites \in request /\ site.offset = a - f.start)
  IN IF i = 0 THEN [kind |-> "none"]
     ELSE [kind |-> "found", start |-> f.start, end |-> f.end,
           frames |-> FramesOf(m, f, a, request),
           patterns |-> FlattenSeq([s \in DOMAIN sites |-> sites[s].patterns])]

\* What a builder accepts is written, unless it names a missing file, precedes
\* its base, has rows that go back or exceeds what version 1 can say; and what is
\* written is read back whole, with the same functions, files, base and build ID,
\* and verifies.
WrittenReadsBack ==
  /\ pc = "refused" =>
       \/ model.functions = <<>>
       \/ \E f \in Range(model.functions) :
            \/ f.start < BaseOf(model)
            \/ \E i \in FilesOf(f) : i >= Len(model.files)
            \/ ~LinesEncodable(f.lines, f.start)
            \/ \E g \in Range(f.merged) : ~LinesEncodable(g.lines, g.start)
       \/ model.version = 1 /\ ~Written(model).ok
  /\ pc = "unreadable" => lost > 0
  /\ pc = "checked" /\ lost = 0 =>
       answer = [kind |-> "verified", version |-> model.version, base |-> BaseOf(model),
                 buildId |-> model.buildId, files |-> model.files,
                 functions |-> model.functions]

\* A lookup in the bytes answers what the model means, though it decodes no more
\* of a record than the request needs.
LookupMeansModel ==
  pc = "answered" /\ lost = 0 =>
    answer.result = Meaning(model, answer.address, answer.request)

\* A file that lost bytes never verifies, and a lookup in it fails or answers as
\* the whole file does.
LossIsNoticed ==
  lost > 0 =>
    /\ pc = "checked" => answer = Error
    /\ pc = "answered" =>
         answer.result \in {Error, Meaning(model, answer.address, answer.request)}

\* "the last frame is the function the linker emitted" (doc of Lookup).
LastFrameIsFunction ==
  pc = "answered" /\ lost = 0 /\ answer.result.kind = "found" =>
    \E f \in Range(model.functions) :
      f.start = answer.result.start /\ f.name = Last(answer.result.frames).name

=============================================================================
