------------------------------ MODULE ImageFormat ------------------------------
(***************************************************************************)
(* The two layouts of a GSYM file: how a writer interns strings and places *)
(* the tables, and how a parser finds them.  A model is a record: version, *)
(* base (or Absent), build ID, files (pairs of strings) and functions, in  *)
(* their final order (the finalizer is FunctionTable's).                   *)
(***************************************************************************)
EXTENDS FunctionRecord, TLC

CONSTANTS Absent,
          V1Limit     \* the largest offset version 1 can hold (u32::MAX)

Magic == 1196644685
HeaderSize == [v \in {1, 2} |-> IF v = 1 THEN 48 ELSE 20]
MaxUuidSize == 20
EntrySize == 20

Span(start, size) == [start |-> start, end |-> start + size]
SizeOf(span) == span.end - span.start

---------------------------------------------------------------------------
(* Strings *)

RECURSIVE InlineNames(_), NamesOf(_)

InlineNames(node) ==
  <<node.name>>
  \o FlattenSeq([i \in DOMAIN node.children |-> InlineNames(node.children[i])])

\* The order in which encoding a function interns its strings.
NamesOf(f) ==
  <<f.name>>
  \o FlattenSeq([i \in DOMAIN f.inline |-> InlineNames(f.inline[i])])
  \o FlattenSeq([i \in DOMAIN f.merged |-> NamesOf(f.merged[i])])
  \o FlattenSeq([i \in DOMAIN f.sites |-> f.sites[i].patterns])

\* Each string once, at the offset of its first use, behind the empty string.
StringTable(strings) ==
  FoldLeft(LAMBDA t, s : IF s \in DOMAIN t.at THEN t
                         ELSE [bytes |-> t.bytes \o s \o <<0>>,
                               at |-> t.at @@ (s :> Len(t.bytes))],
           [bytes |-> <<0>>, at |-> <<>> :> 0], strings)

---------------------------------------------------------------------------
(* The writer *)

AddressOffsetWidth(maximum) == IF maximum < 256 THEN 1 ELSE IF maximum < 65536 THEN 2 ELSE 4

BaseOf(m) == IF m.base = Absent THEN m.functions[1].start ELSE m.base

\* A change of the code: the offset of a record is taken before it is aligned.
FunctionSection_Unaligned(functions, str, width, base) ==
  FoldLeft(LAMBDA acc, f :
             LET at == base + Len(acc.bytes)
             IN [bytes |-> acc.bytes \o Padding(AlignUp(at, 4) - at) \o EncodeFunction(f, str, width),
                 offsets |-> Append(acc.offsets, at)],
           [bytes |-> <<>>, offsets |-> <<>>], functions)

\* The records one after another, each aligned where it will be in the file.
FunctionSection(functions, str, width, base) ==
  FoldLeft(LAMBDA acc, f :
             LET at == base + Len(acc.bytes)
                 aligned == AlignUp(at, 4)
             IN [bytes |-> acc.bytes \o Padding(aligned - at) \o EncodeFunction(f, str, width),
                 offsets |-> Append(acc.offsets, aligned)],
           [bytes |-> <<>>, offsets |-> <<>>], functions)

AddressOffsets(output, functions, base, width) ==
  Aligned(output, width)
  \o FlattenSeq([i \in DOMAIN functions |-> Field(functions[i].start - base, width)])

FileTable(files, str, width) ==
  U32(Len(files))
  \o FlattenSeq([i \in DOMAIN files |->
       Field(str[files[i][1]], width) \o Field(str[files[i][2]], width)])

\* Version 1 has a fixed header; all but the string table is where the counts say.
ImageV1(m, base, width, strings) ==
  LET n == Len(m.functions)
      infoStart == AlignUp(HeaderSize[1] + n * width, 4)
      fileStart == AlignUp(infoStart + n * 4, 4)
      stringStart == fileStart + 4 + 8 * Len(m.files)
      functionBase == stringStart + Len(strings.bytes)
      section == FunctionSection(m.functions, strings.at, 4, functionBase)
      header == Field(Magic, 4) \o U16(1) \o U8(width) \o U8(Len(m.buildId)) \o U64(base)
                \o U32(n) \o U32(stringStart) \o U32(Len(strings.bytes))
                \o Bytes(m.buildId) \o Padding(MaxUuidSize - Len(m.buildId))
      infos == Aligned(AddressOffsets(header, m.functions, base, width), 4)
               \o FlattenSeq([i \in 1..n |-> U32(section.offsets[i])])
  IN [ok |-> /\ Len(m.buildId) <= MaxUuidSize
             /\ \A i \in 1..n : section.offsets[i] <= V1Limit
             /\ stringStart <= V1Limit,
      bytes |-> Aligned(infos, 4) \o FileTable(m.files, strings.at, 4)
                \o Bytes(strings.bytes) \o section.bytes]

SectionTypes == [end |-> 0, addresses |-> 1, infos |-> 2, strings |-> 3, files |-> 4,
                 functions |-> 5, uuid |-> 6]

\* The sections of version 2 in file order, each where its alignment puts it.
WriteLayout(uuidSize, width, n, fileCount, stringSize, functionSize) ==
  LET directoryEnd == HeaderSize[2] + EntrySize * (IF uuidSize = 0 THEN 6 ELSE 7)
      uuid == Span(directoryEnd, uuidSize)
      addresses == Span(AlignUp(uuid.end, width), n * width)
      infos == Span(AlignUp(addresses.end, 8), n * 8)
      files == Span(AlignUp(infos.end, 4), 4 + 16 * fileCount)
      strings == Span(files.end, stringSize)
      functions == Span(AlignUp(strings.end, 4), functionSize)
  IN (IF uuidSize = 0 THEN <<>> ELSE <<<<SectionTypes.uuid, uuid>>>>)
     \o <<<<SectionTypes.addresses, addresses>>, <<SectionTypes.infos, infos>>,
          <<SectionTypes.files, files>>, <<SectionTypes.strings, strings>>,
          <<SectionTypes.functions, functions>>>>

DirectoryEntry(type, span) == U32(type) \o U64(span.start) \o U64(SizeOf(span))

\* Version 2 has a directory; its record offsets are relative to their section.
ImageV2(m, base, width, strings) ==
  LET n == Len(m.functions)
      section == FunctionSection(m.functions, strings.at, 8, 0)
      directory == WriteLayout(Len(m.buildId), width, n, Len(m.files),
                               Len(strings.bytes), Len(section.bytes))
      header == Field(Magic, 4) \o U16(2) \o U8(width) \o U8(0) \o U64(base) \o U32(n)
                \o FlattenSeq([i \in DOMAIN directory |->
                     DirectoryEntry(directory[i][1], directory[i][2])])
                \o DirectoryEntry(SectionTypes.end, Span(0, 0)) \o Bytes(m.buildId)
      infos == Aligned(AddressOffsets(header, m.functions, base, width), 8)
               \o FlattenSeq([i \in 1..n |-> U64(section.offsets[i])])
      strs == Aligned(infos, 4) \o FileTable(m.files, strings.at, 8) \o Bytes(strings.bytes)
  IN [ok |-> TRUE, bytes |-> Aligned(strs, 4) \o section.bytes]

Written(m) ==
  LET base == BaseOf(m)
      width == AddressOffsetWidth(Last(m.functions).start - base)
      strings == StringTable(
        FlattenSeq(m.files) \o FlattenSeq([i \in DOMAIN m.functions |-> NamesOf(m.functions[i])]))
  IN IF m.version = 1 THEN ImageV1(m, base, width, strings)
                      ELSE ImageV2(m, base, width, strings)

---------------------------------------------------------------------------
(* Parsing *)

Whole(bytes) == CursorAt(bytes, 0, Len(bytes))
From(bytes, position) == CursorAt(bytes, position, Len(bytes))

\* The fields of the given widths, in order.
ReadFields(c, widths) ==
  FoldLeft(LAMBDA acc, w : LET r == ReadUint(acc.c, w)
                           IN [c |-> r, items |-> Append(acc.items, r.value)],
           [c |-> c, items |-> <<>>], widths)

NoLayout == [ok |-> FALSE]

ParseV1(bytes) ==
  LET header == ReadFields(Whole(bytes), <<4, 2, 1, 1, 8, 4, 4, 4>>)
      width == header.items[3]
      n == header.items[6]
      addresses == Span(AlignUp(HeaderSize[1], width), n * width)
      infos == Span(AlignUp(addresses.end, 4), n * 4)
      fileStart == AlignUp(infos.end, 4)
      strings == Span(header.items[7], header.items[8])
      files == ReadUint(From(bytes, fileStart), 4)
      fileTable == Span(fileStart, 4 + 8 * files.value)
  IN IF /\ header.c.ok /\ width \in {1, 2, 4, 8} /\ header.items[4] <= MaxUuidSize
        /\ Behind(header.c, MaxUuidSize).ok
        /\ fileStart <= strings.start /\ strings.end <= Len(bytes)
        /\ files.ok /\ fileTable.end <= strings.start
     THEN [ok |-> TRUE, version |-> 1, width |-> width, base |-> header.items[5], count |-> n,
           buildId |-> Span(28, header.items[4]), addresses |-> addresses, infos |-> infos,
           files |-> fileTable, strings |-> strings, fileCount |-> files.value,
           functions |-> [start |-> strings.end, end |-> Len(bytes)]]
     ELSE NoLayout

RECURSIVE ReadDirectory(_, _)

ReadDirectory(c, entries) ==
  LET entry == ReadFields(c, <<4, 8, 8>>)
      type == entry.items[1]
      span == Span(entry.items[2], entry.items[3])
      valid == /\ type \notin DOMAIN entries
               /\ SizeOf(span) > 0
               /\ span.end <= Len(c.cells)
  IN IF ~entry.c.ok \/ type = SectionTypes.end
     THEN [c |-> Require(entry.c, span = Span(0, 0)), entries |-> entries]
     ELSE ReadDirectory(Require(entry.c, valid), entries @@ (type :> span))

\* What the directory of version 2 must be like.
ValidSections(bytes, directoryEnd, n, width, entries) ==
  LET at(type) == entries[SectionTypes[type]].start
      size(type) == SizeOf(entries[SectionTypes[type]])
      first == ReadUint(From(bytes, at("strings")), 1)
  IN /\ {SectionTypes[t] : t \in DOMAIN SectionTypes \ {"end", "uuid"}} \subseteq DOMAIN entries
     /\ size("addresses") = n * width /\ at("addresses") % width = 0
     /\ size("infos") = n * 8 /\ at("infos") % 8 = 0
     /\ size("files") >= 4 /\ (size("files") - 4) % 16 = 0 /\ at("files") % 4 = 0
     /\ Require(first, first.value = 0).ok
     /\ at("functions") % 4 = 0
     /\ \A s, t \in DOMAIN entries :
          /\ directoryEnd <= entries[s].start
          /\ s = t \/ entries[s].end <= entries[t].start \/ entries[t].end <= entries[s].start

ParseV2(bytes) ==
  LET header == ReadFields(Whole(bytes), <<4, 2, 1, 1, 8, 4>>)
      width == header.items[3]
      n == header.items[6]
      directory == ReadDirectory(header.c, <<>>)
      span(type) == directory.entries[SectionTypes[type]]
      files == ReadUint(From(bytes, span("files").start), 4)
  IN IF /\ header.c.ok /\ width \in 1..8 /\ header.items[4] = 0
        /\ directory.c.ok
        /\ ValidSections(bytes, directory.c.at, n, width, directory.entries)
        /\ files.ok /\ 4 + 16 * files.value = SizeOf(span("files"))
     THEN [ok |-> TRUE, version |-> 2, width |-> width, base |-> header.items[5], count |-> n,
           buildId |-> IF SectionTypes.uuid \in DOMAIN directory.entries
                       THEN span("uuid") ELSE Span(0, 0),
           addresses |-> span("addresses"), infos |-> span("infos"), files |-> span("files"),
           strings |-> span("strings"), fileCount |-> files.value,
           functions |-> span("functions")]
     ELSE NoLayout

Parsed(bytes) ==
  LET prefix == ReadFields(Whole(bytes), <<4, 2>>)
  IN IF ~prefix.c.ok \/ prefix.items[1] # Magic THEN NoLayout
     ELSE CASE prefix.items[2] = 1 -> ParseV1(bytes)
            [] prefix.items[2] = 2 -> ParseV2(bytes)
            [] OTHER -> NoLayout

=============================================================================
