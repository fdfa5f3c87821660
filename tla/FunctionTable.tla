---------------------------- MODULE FunctionTable ----------------------------
(***************************************************************************)
(* GsymBuilder and its finalizer: files are interned, functions collected  *)
(* in any order, and encoding turns them into the sorted table a reader    *)
(* searches.  A table that was read back is rebuilt, whole (transcode) or  *)
(* a window of it (segments), with the files it still needs renumbered.    *)
(*                                                                         *)
(* A function is a record: its half-open range [start, end), its name (a   *)
(* number, in byte order), its line rows, the call files of its inline     *)
(* tree in preorder (empty: no tree), the return offsets of its call sites *)
(* and its merged aliases, which have none of their own.  The functions    *)
(* added carry no aliases.  Encoding and decoding a record keep all this.  *)
(* A file table is a sequence whose element i + 1 is the file of index i.  *)
(***************************************************************************)
EXTENDS Integers, Sequences, FiniteSets, SequencesExt

CONSTANTS Entries,       \* the source files a caller interns
          EmptyEntry,    \* the reserved entry of index zero
          Candidates,    \* the functions a caller may add
          Mangled,       \* pairs <<m, n>>: m is a mangled name that holds n
          Policies,      \* the FunctionSetPolicy values explored
          Repairs,       \* the values of repair_zero_sized_functions
          Bases,         \* the base addresses chosen, or Absent
          Absent,
          Executable,    \* the executable ranges, in order
          MaxSize,       \* the largest size of a function (u32::MAX)
          MaxFunctions,  \* bound on the functions added
          Addresses      \* the addresses looked up

Rows == [address : Nat, file : Nat, line : Nat]

\* The functions a caller may add, which carry no aliases.  Name 0 is the empty
\* name, which is refused.
ASSUME CandidatesAssumption ==
  \A f \in Candidates :
    /\ f \in [start : Nat, end : Nat, name : Nat \ {0}, lines : Seq(Rows), calls : Seq(Nat),
              sites : SUBSET Nat, merged : {<<>>}]
    /\ IsFiniteSet(f.sites)

ASSUME TextAssumption ==
  MaxSize \in Nat /\ Executable \in Seq([start : Nat, end : Nat]) /\ Addresses \subseteq Nat

VARIABLES options, files, functions, pc, image, derived, window

vars == <<options, files, functions, pc, image, derived, window>>

---------------------------------------------------------------------------
(* Records *)

IsEmpty(f) == f.start = f.end
Covers(f, a) == f.start <= a /\ a < f.end
SameRange(f, g) == f.start = g.start /\ f.end = g.end
HasRichInfo(f) == f.lines # <<>> \/ f.calls # <<>> \/ f.sites # {}

\* Op on a function and on its aliases.
Throughout(f, Op(_)) ==
  [Op(f) EXCEPT !.merged = [i \in DOMAIN f.merged |-> Op(f.merged[i])]]

FileReferences(f) ==
  UNION {{r.file : r \in Range(g.lines)} \cup Range(g.calls) :
           g \in {f} \cup Range(f.merged)}

Valid(f) ==
  /\ f.start <= f.end
  /\ f.end - f.start <= MaxSize
  /\ \A r \in Range(f.lines) : r.address >= f.start /\ (IsEmpty(f) \/ r.address < f.end)
  /\ f.calls # <<>> => ~IsEmpty(f)
  /\ \A s \in f.sites : IsEmpty(f) \/ s < f.end - f.start

\* The line program refuses rows that go back.
RowsAscend(f) ==
  \A g \in {f} \cup Range(f.merged) :
    \A i \in 1..Len(g.lines) - 1 : g.lines[i].address <= g.lines[i + 1].address

Interned(table, entry) ==
  IF entry \in Range(table) THEN table ELSE Append(table, entry)

---------------------------------------------------------------------------
(* Finalization *)

\* The elements of a sequence at some of its positions, in order.
At(s, positions) ==
  [k \in 1..Cardinality(positions) |->
     s[CHOOSE i \in positions : Cardinality({j \in positions : j <= i}) = k]]

\* A row that says what the row before it says is dropped.
CompactRows(rows) ==
  At(rows, {i \in DOMAIN rows :
              i = 1 \/ rows[i].file # rows[i - 1].file \/ rows[i].line # rows[i - 1].line})

Compacted(f) == Throughout(f, LAMBDA g : [g EXCEPT !.lines = CompactRows(@)])

\* Range, then richness, then name: what comes later is preferred.  An inline
\* tree counts by its nodes.
OrderingKey(f) ==
  <<f.start, f.end, Len(f.calls), Len(f.lines), Cardinality(f.sites),
    Len(f.merged), f.name>>

Precedes(k, l) ==
  \E i \in DOMAIN k : k[i] < l[i] /\ \A j \in 1..i - 1 : k[j] = l[j]

\* The place of function i.  A change of the code: only ranges are compared.
PlaceOf_RangeOnly(fs, i) ==
  LET key(j) == <<fs[j].start, fs[j].end, j>>
  IN Cardinality({j \in DOMAIN fs : Precedes(key(j), key(i))}) + 1

\* The place of function i: equal keys keep the order of insertion.
PlaceOf(fs, i) ==
  LET key(j) == Append(OrderingKey(fs[j]), j)
  IN Cardinality({j \in DOMAIN fs : Precedes(key(j), key(i))}) + 1

SortByOrderingKey(fs) ==
  [place \in DOMAIN fs |-> fs[CHOOSE i \in DOMAIN fs : PlaceOf(fs, i) = place]]

\* The richer of two records of one range: it takes over a mangled form of its
\* name from the plain one.
Survivor(previous, f) ==
  IF HasRichInfo(previous) = HasRichInfo(f) THEN f
  ELSE IF HasRichInfo(previous) THEN previous
  ELSE [f EXCEPT !.name = IF <<previous.name, @>> \in Mangled THEN previous.name ELSE @]

DedupStep_KeepsEmpty(kept, f) ==
  IF kept # <<>> /\ SameRange(Last(kept), f)
  THEN Append(Front(kept), Survivor(Last(kept), f))
  ELSE Append(kept, f)

DedupStep(kept, f) ==
  IF kept = <<>> THEN <<f>>
  ELSE LET previous == Last(kept) IN
    IF SameRange(previous, f) THEN Append(Front(kept), Survivor(previous, f))
    ELSE IF IsEmpty(previous) /\ Covers(f, previous.start) THEN Append(Front(kept), f)
    ELSE Append(kept, f)

MergeStep(kept, f) ==
  IF kept = <<>> \/ ~SameRange(Last(kept), f) THEN Append(kept, f)
  ELSE LET parent == Last(kept)
           previous == IF parent.merged = <<>> THEN parent ELSE Last(parent.merged)
       IN IF previous = f THEN kept
          ELSE Append(Front(kept), [parent EXCEPT !.merged = Append(@, f)])

RepairedEnd(start) ==
  LET around == {i \in DOMAIN Executable : Covers(Executable[i], start)}
      end == IF around = {} THEN start ELSE Executable[Min(around)].end
  IN IF end - start > MaxSize THEN start + MaxSize ELSE end

\* An empty function has no inline tree: its rows and call sites decide.
RepairKeepsRecords(f, end) ==
  \A g \in {f} \cup Range(f.merged) :
    /\ \A r \in Range(g.lines) : g.start <= r.address /\ r.address < end
    /\ \A s \in g.sites : s < end - g.start

RepairFinalRange(fs, repair) ==
  IF repair /\ fs # <<>> /\ IsEmpty(Last(fs))
            /\ RepairKeepsRecords(Last(fs), RepairedEnd(Last(fs).start))
  THEN Append(Front(fs),
              Throughout(Last(fs), LAMBDA g : [g EXCEPT !.end = RepairedEnd(g.start)]))
  ELSE fs

Sorted(fs) == SortByOrderingKey([i \in DOMAIN fs |-> Compacted(fs[i])])

Step(policy, kept, f) ==
  IF policy = "MergeEqualRanges" THEN MergeStep(kept, f) ELSE DedupStep(kept, f)

\* What is kept of the first n functions, from what is kept of those before.
FunctionSet(sorted, policy) ==
  LET kept[n \in 0..Len(sorted)] ==
        IF n = 0 THEN <<>> ELSE Step(policy, kept[n - 1], sorted[n])
  IN IF policy = "Preserve" THEN sorted ELSE kept[Len(sorted)]

Finalize(fs, policy, repair) == RepairFinalRange(FunctionSet(Sorted(fs), policy), repair)

---------------------------------------------------------------------------
(* The builder *)

NoImage == [base |-> Absent, files |-> <<>>, functions |-> <<>>]

Init ==
  /\ options \in [policy : Policies, repair : Repairs, base : Bases]
  /\ files = <<EmptyEntry>>
  /\ functions = <<>>
  /\ pc = "building"
  /\ image = NoImage
  /\ derived = NoImage
  /\ window = <<1, 0>>

AddFile(entry) ==
  /\ pc = "building"
  /\ files' = Interned(files, entry)
  /\ UNCHANGED <<options, functions, pc, image, derived, window>>

AddFunction(f) ==
  /\ pc = "building"
  /\ Len(functions) < MaxFunctions
  /\ Valid(f)
  /\ functions' = Append(functions, f)
  /\ UNCHANGED <<options, files, pc, image, derived, window>>

\* A model that names a file it does not have, that has no function, that starts
\* below its base or whose surviving rows go back is refused.
Encode ==
  /\ pc = "building"
  /\ LET table == Finalize(functions, options.policy, options.repair)
         base == IF options.base = Absent THEN table[1].start ELSE options.base
     IN IF /\ \A f \in Range(functions) : \A i \in FileReferences(f) : i < Len(files)
           /\ table # <<>>
           /\ \A f \in Range(table) : f.start >= base /\ RowsAscend(f)
        THEN /\ image' = [base |-> base, files |-> files, functions |-> table]
             /\ pc' = "encoded"
        ELSE /\ pc' = "failed"
             /\ UNCHANGED image
  /\ UNCHANGED <<options, files, functions, derived, window>>

---------------------------------------------------------------------------
(* Rebuilding a decoded table *)

\* A function, without its aliases, with number[i] for file i.
WithFiles(g, number) ==
  [g EXCEPT !.lines = [i \in DOMAIN g.lines |->
                         [g.lines[i] EXCEPT !.file = number[g.lines[i].file]]],
            !.calls = [i \in DOMAIN g.calls |-> number[g.calls[i]]]]

Renumbered_NotMerged(f, remap) == WithFiles(f, remap)

Renumbered(f, remap) == Throughout(f, LAMBDA g : WithFiles(g, remap))

\* The files that are used, interned in their old order: table[i] is the table
\* behind file i.
UsedFiles(list, used) ==
  LET last == Len(list) - 1
      table[i \in 0..last] ==
        IF i = 0 THEN <<EmptyEntry>>
        ELSE IF i \in used THEN Interned(table[i - 1], list[i + 1]) ELSE table[i - 1]
  IN table[last]

\* The new number of each file; index zero, and every index nothing uses, is zero.
NewNumbers(list, used) ==
  [i \in 0..Len(list) - 1 |->
     IF i \in used THEN SelectInSeq(UsedFiles(list, used), LAMBDA e : e = list[i + 1]) - 1 ELSE 0]

Rebuilt(im, lo, hi) ==
  LET selected == SubSeq(im.functions, lo, hi)
      used == (UNION {FileReferences(f) : f \in Range(selected)}) \ {0}
      numbers == NewNumbers(im.files, used)
      renumbered == [i \in DOMAIN selected |-> Renumbered(selected[i], numbers)]
  IN [base |-> im.base, files |-> UsedFiles(im.files, used),
      functions |-> Finalize(renumbered, "Preserve", FALSE)]

Rebuild(lo, hi) ==
  /\ pc = "encoded"
  /\ derived' = Rebuilt(image, lo, hi)
  /\ window' = <<lo, hi>>
  /\ pc' = "rebuilt"
  /\ UNCHANGED <<options, files, functions, image>>

Next ==
  \/ \E e \in Entries : AddFile(e)
  \/ \E f \in Candidates : AddFunction(f)
  \/ Encode
  \/ \E lo, hi \in DOMAIN image.functions : lo <= hi /\ Rebuild(lo, hi)

Spec == Init /\ [][Next]_vars

---------------------------------------------------------------------------
(* The reader *)

Nothing == [name |-> 0, file |-> EmptyEntry, line |-> 0]

\* The last row at or below the address; a function without one has no line.
Answer(f, table, a) ==
  LET rows == {i \in DOMAIN f.lines : f.lines[i].address <= a}
      row == f.lines[Max(rows)]
  IN IF rows = {} THEN [Nothing EXCEPT !.name = f.name]
     ELSE [name |-> f.name, file |-> table[row.file + 1], line |-> row.line]

\* The functions of the nearest start are tried in order, and none before it:
\* the places of those that match.
MatchingFunction(fs, a) ==
  LET below == {i \in DOMAIN fs : fs[i].start <= a}
  IN {i \in below : /\ \A j \in below : fs[j].start <= fs[i].start
                    /\ IsEmpty(fs[i]) \/ Covers(fs[i], a)}

Lookup(im, a) ==
  LET matching == MatchingFunction(im.functions, a)
  IN IF matching = {} THEN Nothing
     ELSE Answer(im.functions[Min(matching)], im.files, a)

---------------------------------------------------------------------------
(* Properties *)

Encoded == pc \in {"encoded", "rebuilt"}

\* Among functions of one range nothing is preferred to f.
Preferred(f, fs) ==
  \A g \in fs : ~Precedes(OrderingKey(Compacted(f)), OrderingKey(Compacted(g)))

\* The name f answers with: its own, or a mangled form of it that a plain
\* function of the range has.  It must be that form when no third function, were
\* it a copy of f, was added for the range.
AnswersTo(f, name) ==
  LET rivals == {i \in DOMAIN functions : SameRange(f, functions[i])}
      mangled == {i \in rivals : /\ HasRichInfo(f) /\ ~HasRichInfo(functions[i])
                                 /\ <<functions[i].name, f.name>> \in Mangled}
  IN \/ \E i \in mangled : name = functions[i].name
     \/ name = f.name /\ (mangled = {} \/ Cardinality(rivals) > 2)

\* Every address is answered as from the functions that were added: the nearest
\* start decides, an empty function counts only if nothing else starts there,
\* the smallest covering range wins and its richest function answers, with the
\* row its uncompacted line table would give if its rows are sorted, which the
\* doc of add_function demands.  Nothing is found only outside all ranges, or past
\* the end an empty function was repaired to.
BestAnswers ==
  \A a \in Addresses :
    LET below == {f \in Range(functions) : f.start <= a}
        near == {f \in below : \A g \in below : g.start <= f.start}
        sized == {f \in near : ~IsEmpty(f)}
        covering == {f \in sized : Covers(f, a)}
        eligible == IF sized = {} THEN near
                    ELSE {f \in covering : \A g \in covering : f.end <= g.end}
        found == Lookup(image, a)
    IN IF found = Nothing
       THEN \A f \in eligible : options.repair /\ f.start < RepairedEnd(f.start)
                                              /\ RepairedEnd(f.start) <= a
       ELSE \E f \in eligible :
              /\ Preferred(f, eligible)
              /\ LET rows == IF RowsAscend(f) THEN f ELSE Compacted(f)
                 IN found = [Answer(rows, image.files, a) EXCEPT !.name = found.name]
              /\ AnswersTo(f, found.name)

\* Every function added is in the table, as the one function of its range or as
\* an alias of it, with its own rows and sites.
AliasesKept ==
  LET table == image.functions
      records == UNION {{[f EXCEPT !.merged = <<>>]} \cup Range(f.merged) : f \in Range(table)}
  IN /\ \A f \in Range(functions) :
          \/ Compacted(f) \in records
          \/ IsEmpty(f) /\ [Compacted(f) EXCEPT !.end = RepairedEnd(f.start)] \in records
     /\ \A i, j \in DOMAIN table : SameRange(table[i], table[j]) => i = j

\* What the doc of FunctionSetPolicy says: deduplication will "Keep the richest
\* record of each equal-range group" and lookups answer from it; merging will
\* "Keep equal-range aliases" and loses none.
PolicyHonoured ==
  Encoded => /\ options.policy = "Deduplicate" => BestAnswers
             /\ options.policy = "MergeEqualRanges" => AliasesKept

\* "Insertion order does not matter" (doc of GsymBuilder::add_function), unless
\* two different functions have the same ordering key.
OrderIrrelevant ==
  LET compacted == {Compacted(f) : f \in Range(functions)}
      distinct == \A f, g \in compacted : OrderingKey(f) = OrderingKey(g) => f = g
  IN pc = "encoded" /\ distinct =>
       \A p \in Bijection(DOMAIN functions, DOMAIN functions) :
         Finalize([i \in DOMAIN functions |-> functions[p[i]]],
                  options.policy, options.repair) = image.functions

\* A table with its file indices resolved, an index outside it to Absent.
Described(im) ==
  LET entry == [i \in Nat |-> IF i < Len(im.files) THEN im.files[i + 1] ELSE Absent]
  IN [i \in DOMAIN im.functions |-> Throughout(im.functions[i], LAMBDA g : WithFiles(g, entry))]

\* A rebuilt table says of each of its functions, aliases included, what the
\* source says; it holds no file it does not use, and rebuilding it changes
\* nothing.
RebuildKeeps ==
  pc = "rebuilt" =>
    /\ Described(derived) = SubSeq(Described(image), window[1], window[2])
    /\ \A i \in 1..Len(derived.files) - 1 :
         \E f \in Range(derived.functions) : i \in FileReferences(f)
    /\ Rebuilt(derived, 1, Len(derived.functions)) = derived

=============================================================================
