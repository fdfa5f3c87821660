----------------------------- MODULE ElfConversion -----------------------------
(***************************************************************************)
(* One conversion of an ELF image (src/src/convert/elf): the search for    *)
(* its companions, the checks that they belong together, and the functions *)
(* imported from their symbol tables.  The units of the files chosen here  *)
(* are imported by DwarfUnit; here that is one step, which may fail.  What *)
(* asking debuginfod gives is found by DiscoveryFlight.                    *)
(*                                                                         *)
(* A file is a record: its key stands for the bytes in memory, elf says    *)
(* whether they parse, crc whether their checksum is the one the image's   *)
(* debug link asks for, torn that the build ID is there and unreadable,    *)
(* broken which other parts are: its debug link, its alternate link, its   *)
(* layout (kind and section addresses), its DWARF sections and the index   *)
(* of a package, and the units of which the import comes to something      *)
(* malformed.  A candidate that cannot be read is Missing.  A build ID has *)
(* at least two bytes.  An option is a sequence of at most one element.    *)
(***************************************************************************)
EXTENDS Integers, Sequences, FiniteSets, FiniteSetsExt, SequencesExt

CONSTANTS Jobs,      \* conversions to run
          Missing,   \* a candidate that cannot be read
          Unit,      \* sections of a relocatable image start at multiples of it (16)
          MaxSize,   \* largest function (u32::MAX)
          MaxAddress \* largest address (u64::MAX)

ASSUME UnitAssumption == Unit \in Nat \ {0}

\* A job: the image, its explicit companions (options; convert has no search),
\* where the search looks (convert_path has no explicit companion), the
\* embedded file, an option, and the options of the converter.
ASSUME PathAssumption ==
  \A j \in Jobs : j.path =>
    \A option \in {j.explicit.debug, j.explicit.supplementary, j.explicit.package, j.explicit.symbols} :
      option = <<>>

\* What is tried one after the other comes in sequences; the image is a file.
IsList(s) == s \in Seq(Range(s))

ASSUME ListsAssumption ==
  \A j \in Jobs :
    /\ j.image # Missing
    /\ IsList(j.linked) /\ IsList(j.tree) /\ IsList(j.packages) /\ IsList(j.embedded)
    /\ \A f \in {j.image, j.remote} \cup Range(j.linked) \cup Range(j.tree) :
         f # Missing => IsList(f.alternates)

\* The files whose symbols may be read.
SymbolFiles(j) ==
  ({j.image, j.remote} \cup Range(j.linked) \cup Range(j.tree) \cup Range(j.embedded)
     \cup Range(j.explicit.debug) \cup Range(j.explicit.symbols)) \ {Missing}

Sections == [kind : {"text", "data", "debug"}, address : Nat, size : Nat]
Symbols == [text : BOOLEAN, named : BOOLEAN, name : Nat, section : Seq(Nat), address : Nat, size : Nat]

\* The same bytes parse to the same file.
ASSUME SymbolsAssumption ==
  \A j \in Jobs :
    /\ \A option \in {j.explicit.debug, j.explicit.symbols, j.embedded} :
         option = <<>> \/ option = <<option[1]>>
    /\ \A f, g \in SymbolFiles(j) : f.key = g.key => f = g
    /\ \A f \in SymbolFiles(j) :
         f.sections \in Seq(Sections) /\ f.static \in Seq(Symbols) /\ f.dynamic \in Seq(Symbols)

VARIABLES
  job,
  pc,          \* linked, tree, alternate, package, check, symbols, dwarf, done, failed
  candidates,  \* left to try
  debug,       \* options: the companions
  supplementary, package,
  embedded,    \* the validated .gnu_debugdata
  functions,   \* imported from symbol tables, in order
  counts,      \* imported and rejected
  why,         \* of a failure
  warnings

chosen == <<debug, supplementary, package, embedded>>
vars == <<job, pc, candidates, chosen, functions, counts, why, warnings>>

---------------------------------------------------------------------------
(* Do the files belong together? *)

SameArchitecture(image, file) == image.arch = file.arch

\* A change of the code: the build IDs are not compared.
SameBuild_ByArchitecture(image, file) == SameArchitecture(image, file)

\* Build IDs are compared when both have one.
SameBuild(image, file) ==
  /\ SameArchitecture(image, file)
  /\ ~image.torn /\ ~file.torn
  /\ image.id = <<>> \/ file.id = <<>> \/ image.id = file.id

Parses(candidate) == candidate # Missing /\ candidate.elf

ValidCompanion(image, candidate) == Parses(candidate) /\ SameBuild(image, candidate)

\* A change of the code: the checksum vouches for the file.
LinkAccepts_ByChecksum(image, candidate) == Parses(candidate) /\ candidate.crc

LinkAccepts(image, candidate) == ValidCompanion(image, candidate) /\ candidate.crc

\* image: an option; what a server sends must have the ID it was asked for.
ValidResponse(image, id, candidate) ==
  /\ Parses(candidate) /\ ~candidate.torn /\ candidate.id = id
  /\ \A i \in Range(image) : SameBuild(i, candidate)

---------------------------------------------------------------------------
(* The search *)

Searching == job.path /\ job.discover
ForDebug == Searching /\ (job.symbols \/ job.dwarf)
ForDwarf == Searching /\ job.dwarf

\* The file the supplementary object and the split units are looked for from.
DebugSource == IF debug = <<>> THEN job.image ELSE debug[1]

Init ==
  /\ job \in Jobs
  /\ debug = job.explicit.debug /\ supplementary = job.explicit.supplementary
  /\ package = job.explicit.package /\ embedded = <<>>
  /\ pc = IF ForDebug THEN "linked" ELSE "check"
  /\ candidates = job.linked
  /\ functions = <<>> /\ counts = [imported |-> 0, rejected |-> 0]
  /\ why = <<>> /\ warnings = {}

Fail(reason) == pc' = "failed" /\ why' = <<reason>>

\* The debug file is known, or there is none.
ToAlternate ==
  IF ForDwarf THEN pc' = "alternate" /\ candidates' = (IF debug' = <<>> THEN job.image ELSE debug'[1]).alternates
  ELSE pc' = "check" /\ candidates' = <<>>

\* A candidate that does not do is passed over.
Skip == candidates' = Tail(candidates) /\ UNCHANGED <<job, pc, chosen, functions, counts, why, warnings>>

\* An image that does not parse, or whose debug link does not.
Unreadable ==
  /\ pc = "linked"
  /\ ~job.image.elf \/ "link" \in job.image.broken
  /\ Fail("image")
  /\ UNCHANGED <<job, candidates, chosen, functions, counts, warnings>>

TryLinked ==
  /\ pc = "linked" /\ job.image.elf /\ "link" \notin job.image.broken /\ candidates # <<>>
  /\ IF LinkAccepts(job.image, Head(candidates))
     THEN /\ debug' = <<Head(candidates)>> /\ ToAlternate
          /\ UNCHANGED <<job, supplementary, package, embedded, functions, counts, why, warnings>>
     ELSE Skip

\* A change of the code: a link that leads nowhere ends the search.
LinkedExhausted_Ends ==
  /\ pc = "linked" /\ job.image.elf /\ "link" \notin job.image.broken /\ candidates = <<>>
  /\ UNCHANGED chosen
  /\ IF job.image.torn THEN Fail("image") /\ UNCHANGED candidates
     ELSE /\ UNCHANGED why
          /\ IF job.image.id = <<>> \/ job.linked # <<>> THEN ToAlternate
             ELSE pc' = "tree" /\ candidates' = job.tree
  /\ UNCHANGED <<job, functions, counts, warnings>>

\* Without a build ID there is nothing else to look for.
LinkedExhausted ==
  /\ pc = "linked" /\ job.image.elf /\ "link" \notin job.image.broken /\ candidates = <<>>
  /\ UNCHANGED chosen
  /\ IF job.image.torn THEN Fail("image") /\ UNCHANGED candidates
     ELSE /\ UNCHANGED why
          /\ IF job.image.id = <<>> THEN ToAlternate ELSE pc' = "tree" /\ candidates' = job.tree
  /\ UNCHANGED <<job, functions, counts, warnings>>

TryTree ==
  /\ pc = "tree" /\ candidates # <<>>
  /\ IF ValidCompanion(job.image, Head(candidates))
     THEN /\ debug' = <<Head(candidates)>> /\ ToAlternate
          /\ UNCHANGED <<job, supplementary, package, embedded, functions, counts, why, warnings>>
     ELSE Skip

\* debuginfod is asked last; no answer, and an answer that does not do, leave a
\* conversion without a debug file.
AskRemote ==
  /\ pc = "tree" /\ candidates = <<>>
  /\ debug' = IF ValidResponse(<<job.image>>, job.image.id, job.remote) THEN <<job.remote>> ELSE <<>>
  /\ warnings' = warnings \cup IF job.remote # Missing /\ debug' = <<>> THEN {"debuginfod"} ELSE {}
  /\ ToAlternate
  /\ UNCHANGED <<job, supplementary, package, embedded, functions, counts, why>>

Expected == DebugSource.altlink

\* The package is looked for whatever became of the supplementary file.
ToPackage == pc' = "package" /\ candidates' = job.packages

\* An alternate link that does not parse ends the conversion, also when it is that
\* of a debug file that was found.
BadAlternateLink ==
  /\ pc = "alternate" /\ "altlink" \in DebugSource.broken
  /\ Fail("alternate link")
  /\ UNCHANGED <<job, candidates, chosen, functions, counts, warnings>>

\* The build ID must be the one the link names; only a candidate whose ID cannot
\* be read ends the conversion.
TryAlternate ==
  /\ pc = "alternate" /\ "altlink" \notin DebugSource.broken /\ Expected # <<>> /\ candidates # <<>>
  /\ LET candidate == Head(candidates)
     IN IF ~Parses(candidate) THEN Skip
        ELSE IF candidate.torn
        THEN /\ Fail("supplementary")
             /\ UNCHANGED <<job, candidates, chosen, functions, counts, warnings>>
        ELSE IF candidate.id = Expected
        THEN /\ supplementary' = <<candidate>> /\ ToPackage
             /\ UNCHANGED <<job, debug, package, embedded, functions, counts, why, warnings>>
        ELSE Skip

AlternateExhausted ==
  /\ pc = "alternate" /\ "altlink" \notin DebugSource.broken
  /\ Expected = <<>> \/ candidates = <<>>
  /\ supplementary' = IF Expected # <<>> /\ ValidResponse(<<>>, Expected, job.alternateRemote)
                      THEN <<job.alternateRemote>> ELSE <<>>
  /\ warnings' = warnings \cup IF Expected # <<>> /\ job.alternateRemote # Missing /\ supplementary' = <<>>
                              THEN {"debuginfod"} ELSE {}
  /\ ToPackage
  /\ UNCHANGED <<job, debug, package, embedded, functions, counts, why>>

\* Any ELF file with an index does, whatever it was built for and whatever the
\* index holds.
TryPackage ==
  /\ pc = "package" /\ candidates # <<>>
  /\ IF Parses(Head(candidates)) /\ Head(candidates).indexed
     THEN /\ package' = <<Head(candidates)>> /\ pc' = "check" /\ candidates' = <<>>
          /\ UNCHANGED <<job, debug, supplementary, embedded, functions, counts, why, warnings>>
     ELSE Skip

PackageExhausted ==
  /\ pc = "package" /\ candidates = <<>>
  /\ pc' = "check"
  /\ UNCHANGED <<job, candidates, chosen, functions, counts, why, warnings>>

---------------------------------------------------------------------------
(* The conversion *)

\* The elements of a list at some of its positions, and those that pass a test.
At(list, positions) ==
  [k \in 1..Cardinality(positions) |->
    list[CHOOSE i \in positions : Cardinality({j \in positions : j < i}) + 1 = k]]

Filtered(list, Test(_)) == At(list, {i \in DOMAIN list : Test(list[i])})

Kept(section) == section.size > 0

\* The executable sections of a relocatable file are placed first, then the
\* others, each kind in order; debug sections, and empty ones, are not placed.
PlacedBefore(file, s) ==
  {t \in DOMAIN file.sections :
     /\ Kept(file.sections[t])
     /\ \/ file.sections[t].kind = file.sections[s].kind /\ t < s
        \/ file.sections[t].kind = "text" /\ file.sections[s].kind = "data"}

\* A section starts at the next multiple of Unit: those before it take whole units.
AlignUp(a) == ((a + Unit - 1) \div Unit) * Unit
Occupied(file, s) ==
  UNION {{t} \X (0..AlignUp(file.sections[t].size) - 1) : t \in PlacedBefore(file, s)}

SectionBase(file, s) ==
  IF s \in DOMAIN file.sections /\ Kept(file.sections[s]) /\ file.sections[s].kind # "debug"
  THEN <<Cardinality(Occupied(file, s))>> ELSE <<>>

\* Section s of the file, by the layout of the image: an option.
BaseOf(image, file, s) ==
  IF image.relocatable /\ file.sections[s].kind # "debug" THEN SectionBase(image, s)
  ELSE <<file.sections[s].address>>

\* The executable ranges.
Ranges(image) ==
  LET text == {s \in DOMAIN image.sections : image.sections[s].kind = "text" /\ Kept(image.sections[s])}
      base(s) == BaseOf(image, image, s)[1]
  IN {[start |-> base(s), end |-> base(s) + image.sections[s].size] : s \in text}

\* The symbols that may become functions: those of both tables, in order, that
\* are defined text and, in a relocatable file, in a section.
Eligible(image, file) ==
  Filtered(file.static \o file.dynamic, LAMBDA s : s.text /\ (image.relocatable => s.section # <<>>))

\* Where it starts, an option: the file may not have its section, and the layout
\* may not know it.
Start(image, file, symbol) ==
  LET base == IF ~image.relocatable THEN <<0>>
              ELSE IF symbol.section[1] \in DOMAIN file.sections THEN BaseOf(image, file, symbol.section[1])
              ELSE <<>>
  IN [i \in DOMAIN base |-> base[i] + symbol.address]

\* A symbol without a place, or past the last address; the end is looked at only
\* if the symbol has a name.
Unplaced(image, file) ==
  \E s \in Range(Eligible(image, file)) :
    LET start == Start(image, file, s)
    IN \/ start = <<>>
       \/ start[1] > MaxAddress
       \/ s.named /\ start[1] + s.size > MaxAddress

\* The functions of a file whose symbols all have a place.
Visited(image, file) ==
  LET named == Filtered(Eligible(image, file), LAMBDA s : s.named)
      start(i) == Start(image, file, named[i])[1]
  IN [i \in DOMAIN named |-> [start |-> start(i), end |-> start(i) + named[i].size, name |-> named[i].name]]

Importable(image, f) ==
  /\ f.end - f.start <= MaxSize
  /\ \E r \in Ranges(image) : r.start <= f.start /\ f.end <= r.end

Separate == IF debug # <<>> THEN debug ELSE embedded

GivenSymbols == job.explicit.symbols

\* An option, unless its bytes are among the others.
Unless(option, others) ==
  IF option # <<>> /\ \E f \in Range(others) : f.key = option[1].key THEN <<>> ELSE option

\* The same bytes are read once.
Sources ==
  LET companions == GivenSymbols \o Unless(Separate, GivenSymbols)
  IN companions \o Unless(<<job.image>>, companions)

Before(f, g) ==
  \/ f.start < g.start
  \/ /\ f.start = g.start
     /\ f.end < g.end \/ (f.end = g.end /\ f.name < g.name)

InOrder(fs) ==
  [k \in 1..Cardinality(fs) |-> CHOOSE f \in fs : Cardinality({g \in fs : Before(g, f)}) + 1 = k]

\* A change of the code: the functions of several sources are joined as they come.
Collected_Joined(importable) ==
  FlattenSeq([i \in DOMAIN Sources |->
    Filtered(Visited(job.image, Sources[i]), LAMBDA f : Importable(job.image, f) = importable)])

\* The functions that may be imported, or those that may not.  Several sources
\* are sorted and functions that are equal made one; a single source is taken as
\* it is.
Collected(importable) ==
  IF Len(Sources) = 1
  THEN Filtered(Visited(job.image, Sources[1]), LAMBDA f : Importable(job.image, f) = importable)
  ELSE InOrder({f \in UNION {Range(Visited(job.image, s)) : s \in Range(Sources)} :
                  Importable(job.image, f) = importable})

\* What convert_inner objects to first, an option: the image, the debug file, the
\* supplementary file, the package.
Fault ==
  IF ~job.image.elf THEN <<"image">>
  ELSE IF "layout" \in job.image.broken THEN <<"layout">>
  ELSE IF Ranges(job.image) = {} THEN <<"no text">>
  ELSE IF job.image.torn THEN <<"image">>
  ELSE IF debug # <<>> /\ ~ValidCompanion(job.image, debug[1]) THEN <<"debug">>
  ELSE IF supplementary # <<>> /\ ~Parses(supplementary[1]) THEN <<"supplementary">>
  ELSE IF package # <<>> /\ ~(Parses(package[1]) /\ SameArchitecture(job.image, package[1]))
  THEN <<"package">>
  ELSE <<>>

\* The embedded file stands in for a debug file; one that does not do is left out.
Check ==
  /\ pc = "check"
  /\ LET use == debug = <<>> /\ (job.symbols \/ job.dwarf) /\ job.embedded # <<>>
         good == use /\ ValidCompanion(job.image, job.embedded[1])
     IN /\ embedded' = IF good THEN job.embedded ELSE <<>>
        /\ warnings' = warnings \cup IF use /\ ~good THEN {"embedded debug data"} ELSE {}
  /\ IF Fault = <<>> THEN pc' = "symbols" /\ UNCHANGED why ELSE pc' = "failed" /\ why' = Fault
  /\ UNCHANGED <<job, candidates, debug, supplementary, package, functions, counts>>

AfterSymbols == IF job.dwarf THEN "dwarf" ELSE "done"

ImportSymbols ==
  /\ pc = "symbols" /\ job.symbols
  /\ LET good == Collected(TRUE)
         bad == Collected(FALSE)
     IN IF GivenSymbols # <<>> /\ ~ValidCompanion(job.image, GivenSymbols[1])
        THEN Fail("symbols") /\ UNCHANGED <<functions, counts>>
        ELSE IF \E f \in Range(Sources) : Unplaced(job.image, f)
        THEN Fail("symbol address") /\ UNCHANGED <<functions, counts>>
        ELSE /\ functions' = good
             /\ counts' = [imported |-> Len(good), rejected |-> Len(bad)]
             /\ pc' = AfterSymbols /\ UNCHANGED why
  /\ UNCHANGED <<job, candidates, chosen, warnings>>

WithoutSymbols ==
  /\ pc = "symbols" /\ ~job.symbols
  /\ pc' = AfterSymbols
  /\ UNCHANGED <<job, candidates, chosen, functions, counts, why, warnings>>

\* The file whose DWARF is imported.
ImportedFile == IF Separate # <<>> THEN Separate[1] ELSE job.image

\* The sections of all three files are loaded and the index of the package is
\* parsed before the first unit is looked at, needed or not.
LoadFails ==
  \/ \E f \in {ImportedFile} \cup Range(supplementary) \cup Range(package) : "sections" \in f.broken
  \/ \E p \in Range(package) : "index" \in p.broken

\* What ends the import of a unit is DwarfUnit's; loose split files, which are read
\* for the skeletons of a file, count as units of it.
UnitsFail ==
  \E f \in {ImportedFile} \cup Range(supplementary) \cup Range(package) : "units" \in f.broken

ImportDwarf ==
  /\ pc = "dwarf"
  /\ IF LoadFails THEN Fail("dwarf sections")
     ELSE IF UnitsFail THEN Fail("dwarf units")
     ELSE pc' = "done" /\ UNCHANGED why
  /\ UNCHANGED <<job, candidates, chosen, functions, counts, warnings>>

Next ==
  \/ Unreadable \/ TryLinked \/ LinkedExhausted \/ TryTree \/ AskRemote
  \/ BadAlternateLink \/ TryAlternate \/ AlternateExhausted \/ TryPackage \/ PackageExhausted
  \/ Check \/ ImportSymbols \/ WithoutSymbols \/ ImportDwarf

Spec == Init /\ [][Next]_vars

---------------------------------------------------------------------------
(* Properties *)

Belongs(file) ==
  /\ file.elf /\ ~file.torn /\ file.arch = job.image.arch
  /\ job.image.id # <<>> => file.id \in {<<>>, job.image.id}

\* What is converted together belongs together: no companion of another
\* architecture, and none whose build ID contradicts the image's, whether it was
\* given, found or embedded; a supplementary file that was found is the one the
\* link names.
OneBuild ==
  pc = "done" =>
    /\ \A option \in {debug, embedded} \cup (IF job.symbols THEN {GivenSymbols} ELSE {}) :
         option = <<>> \/ Belongs(option[1])
    /\ package # <<>> => package[1].arch = job.image.arch
    /\ job.path /\ supplementary # <<>> => supplementary[1].id = Expected

\* What is wrong with the image itself, whatever is found.
ImageAtFault ==
  \/ ~job.image.elf \/ job.image.torn \/ Ranges(job.image) = {}
  \/ {"link", "layout"} \cap job.image.broken # {}

\* What is wrong with the symbols of the image, of the debug file or of the
\* embedded one: one has no place, or lies past the last address.
SymbolsAtFault ==
  job.symbols /\ \E f \in {job.image} \cup Range(debug \o embedded) : Unplaced(job.image, f)

\* What is wrong with the companions of the DWARF: the alternate link of the file
\* chosen, the ID of a candidate for the file it names, the architecture or the
\* index of the package, the sections or units of what is imported.
DwarfAtFault ==
  /\ job.dwarf
  /\ \/ "altlink" \in DebugSource.broken
     \/ Expected # <<>> /\ \E f \in Range(DebugSource.alternates) \ {Missing} : f.elf /\ f.torn
     \/ \E p \in Range(package) : p.arch # job.image.arch \/ "index" \in p.broken
     \/ \E f \in {ImportedFile} \cup Range(supplementary) \cup Range(package) :
          {"sections", "units"} \cap f.broken # {}

\* A file that the search passes over never ends a conversion, but for a candidate
\* for the supplementary file whose ID cannot be read.  A file that was chosen
\* never fails, later, a check the search relied on; it ends the conversion only
\* for what the search does not look at: a symbol that has no place, an alternate
\* link, DWARF sections, units or a package index that cannot be read, a package
\* built for another architecture.  Files that are there for DWARF alone end no
\* conversion that imports none.
CandidatesAreHarmless ==
  pc = "failed" /\ job.path => ImageAtFault \/ SymbolsAtFault \/ DwarfAtFault

\* What the documentation says of convert_path: problems met while searching are
\* warnings.  The code does not keep it: an alternate link, the ID of a candidate
\* for the supplementary file, and a package can end the conversion.
SearchOnlyWarns ==
  pc = "failed" /\ job.path =>
    Range(why) \cap {"alternate link", "supplementary", "package"} = {}

\* The files the link, the build-ID tree and debuginfod offer, in this order; only
\* an image with a build ID is looked up in the last two.
Offered == job.linked \o (IF job.image.id = <<>> THEN <<>> ELSE job.tree \o <<job.remote>>)

Usable(i) ==
  /\ Offered[i] # Missing /\ Belongs(Offered[i])
  /\ i <= Len(job.linked) => Offered[i].crc
  /\ i > Len(job.linked) + Len(job.tree) => Offered[i].id = job.image.id

\* The debug file is the first of those offered that belongs to the image.
FirstUsableCompanion ==
  ForDebug /\ pc \notin {"linked", "tree", "failed"} =>
    \/ debug = <<>> /\ \A i \in DOMAIN Offered : ~Usable(i)
    \/ \E i \in DOMAIN Offered :
         Usable(i) /\ debug = <<Offered[i]>> /\ \A j \in 1..i - 1 : ~Usable(j)

\* The symbols imported are those of the image and of each companion that gives
\* symbols, each function once when there are several files, and nothing
\* outside the executable ranges.
SymbolsAreUnion ==
  pc \in {"dwarf", "done"} /\ job.symbols =>
    LET files == Range(job.explicit.symbols \o (IF debug # <<>> THEN debug ELSE embedded)) \cup {job.image}
        found == UNION {Range(Visited(job.image, f)) : f \in files}
        inside == {f \in found : \E r \in Ranges(job.image) : f.start >= r.start /\ f.end <= r.end
                                                             /\ f.end - f.start <= MaxSize}
    IN /\ Range(functions) = inside
       /\ Cardinality({f.key : f \in files}) > 1 =>
            counts = [imported |-> Cardinality(inside), rejected |-> Cardinality(found \ inside)]

=============================================================================
