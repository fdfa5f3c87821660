# Verification of gsym-rs in TLA+

This directory models the parts of gsym-rs whose correctness depends on order,
concurrency, failure or boundary arithmetic, checks the models with TLC and
proves the central results with TLAPS. Every definition is a translation of the
Rust source; `PROJECT.json` ("map") names the lines each definition stands for.

Paths below are relative to `src/`, the root of the repository; the library
crate's own sources are therefore in `src/src/`.

## Inventory

| Component | Source | State | Operations | What is hard | What makes it correct |
|---|---|---|---|---|---|
| Cache population | `gsym-cache/src/manage.rs` | `objects/`, `negative/`, `tmp/`, 4096 lock files, the capabilities `Population` and `PopulationWriter` | `try_begin_population`, `cached_failure`, `into_writer`, `write`, `publish`, `record_failure_for`, drop | processes race on the directory; crashes and power loss between any two system calls; rounded expirations; drop order | one owner per slot; an owner finds nothing to do already done; only verified files visible; an acknowledged publication or failure survives |
| Cache maintenance | `gsym-cache/src/maintenance.rs` | `gc.lock`, pass-local progress, candidate heap, busy slots | `stats`, `prune`, `scrub` | runs beside population and readers: every value it read may be stale when it acts | never disturbs an active population, removes only what it rechecked, oldest first, terminates, reclaims crash leftovers |
| Access tracking | `gsym-cache/src/access.rs` | marker files and their mtimes | `record_access` | inspect / open / set_times race with unlink and with other readers | a hit protects the entry from age pruning |
| Lookup and layout | `gsym-cache/src/lookup.rs`, `layout.rs`, `build_id.rs` | cached directory descriptors, root identity | `open`, `lookup` | directory replaced while descriptors are cached | a lookup returns an entry of the asked key only |
| debuginfod discovery | `src/convert/elf/discovery.rs` | `DiscoveryCache`: keys in flight, a condition variable; files in the debuginfod cache directory | `begin`, `finish`, `wait`, `discover_with_debuginfod`, `persist_debuginfod` | single flight between threads and between processes | one fetch per key and converter at a time, no waiter sleeps forever, a stored download is never replaced |
| ELF conversion | `src/convert/elf/*.rs` | the companions chosen, the functions imported | search for debug, supplementary and package files, checks that they belong together, section layout, union of symbol tables | many fallbacks, stale files under the right names | what is converted together is one build; unusable candidates change nothing; no symbol lost or doubled |
| DWARF references | `src/convert/dwarf/references.rs` | visited set, depth, caches of units and entries | `resolve_name_inner`, `DeclarationResolver::resolve` | cycles through two files and two attributes, a depth limit | terminates; finds what can be reached |
| DWARF conversion | `src/convert/dwarf.rs`, `convert/dwarf/{dies,lines}.rs` | the source of a unit's details, the stacks of the DIE walk, line rows by sequence | open split units, import ranges, walk DIEs, convert line rows | fallbacks of split units, explicit stacks, sequences out of order | the first usable source; every live range imported; the tree is the DIEs'; rows of one sequence only |
| Builder and finalizer | `src/builder.rs`, `normalize.rs`, `writer/finalize.rs`, `writer/semantic.rs` | functions, files, strings | `add_function`, `finish`, sort, deduplicate, merge, repair | order and deduplication rules, empty and overlapping ranges | sorted, one function per range, nothing reachable lost, insertion order irrelevant |
| Segmenting and transcoding | `src/transform.rs` | function cursor, search window, spans | `segments`, `transcode` | boundaries, routing of addresses, renumbering of files | shards cover the input, a lookup in the routed shard gives the input's answer |
| Encoder | `src/writer/encode.rs`, `format/*.rs`, `endian.rs` | output buffer, offsets | LEB128, line program, inline tree, tables | widths, limits of version 1, advance arithmetic, alignment | what is written reads back as the model |
| Reader and lookup index | `src/reader*.rs`, `mapped.rs` | borrowed bytes | parse, verify, lookup | records are skipped without being decoded, search at boundaries, files cut short | lookup answers what the model means; lost bytes are noticed |
| gsymtool bulk conversion | `gsymtool/src/bulk.rs` | work cursor, event channel, worker pool, totals | worker loop, receive loop, early return | terminal error while workers are still running, panics | every input converted or reported exactly once; all workers stop |
| gsymtool segment | `gsymtool/src/main.rs` | the files written so far | write each shard under the name of its first address | shards with one name, a failure half way | every function is on disk when it succeeds |
| gsymtool command line | `gsymtool/src/{main,cli,terminal}.rs` | none between calls | argument parsing, printing | presentation only | not modelled |

Interaction: gsymtool calls the conversion library, which calls discovery, the
DWARF walk, the builder, the finalizer and the encoder; the reader maps what they
wrote; gsym-cache stores encoded files by build identifier, verifies them with the
reader, and is shared by processes that meet only in its directory.

`PROJECT.json` ("hazards") lists, at its line, everything in this code that is
hard to test. The properties below were chosen from that list.

## Modules

| Module | Models | Composes | Runs |
|---|---|---|---|
| `CachePopulation` | `try_begin_population` to drop, one observable system call per step | | `population` |
| `PopulationPromise` | what the cache promises, without directories or system calls | | (a property of `population`) |
| `CacheScrub` | `Cache::scrub` and access markers | extends `CachePopulation`: its `Next` is one disjunct | `scrub` |
| `CachePrune` | `Cache::prune` and `record_access` | | `prune` |
| `DiscoveryFlight` | `discover_with_debuginfod`, `DiscoveryCache`, `persist_debuginfod` | | `flight` |
| `ElfConversion` | the search for companions, their checks, section layout, symbol union | takes the answer of `DiscoveryFlight`'s machine as one step | `elf` |
| `DwarfLines` | replaying a line program, and the rows of one function | | (through the next one) |
| `InlineTrees` | ranges of inline nodes, which the converter and the encoder treat alike | | (through the next ones) |
| `DwarfUnit` | the import of one DWARF unit | extends `DwarfLines` and `InlineTrees`; what the builder takes is its parameter `Accepted` | (through the next one) |
| `DwarfTrees` | what the details of an imported function must be | extends `DwarfUnit` and `FunctionRecord`, whose validation is `Accepted` | `dwarf` |
| `DwarfReferences` | `resolve_name_inner`, `DeclarationResolver::resolve` | | `references` |
| `FunctionTable` | builder, finalizer, lookup, rebuilding a decoded table | | `table` |
| `ByteFields` | cells of a file, LEB128, the cursor | | (through `GsymImage`) |
| `FunctionRecord` | validation, encoding and decoding of one function's record | extends `ByteFields` and `InlineTrees` | (through `GsymImage`) |
| `ImageFormat` | both layouts: header, tables, directory | extends `FunctionRecord` | (through `GsymImage`) |
| `GsymImage` | a model written, perhaps cut, parsed, looked up, verified | extends `ImageFormat` | `image` |
| `Segments` | `DecodedGsym::segments` and routing by `address_range` | | (through the next one) |
| `SegmentCommand` | `gsymtool segment` | extends `Segments`: its `Next` is the library call | `segments`, `segment_overwrite` |
| `BulkConvert` | the worker pool of a batch conversion | | `bulk` |
| `CacheWriters_proofs` | the theorems about populations, alone and beside a scrub | extends `CacheScrub`, hence `CachePopulation` | |
| `Dwarf_proofs` | the theorems about references and about the import of a unit | extends `DwarfReferences` and `DwarfUnit` | |
| other `*_proofs` | the theorems about the module of that name | extend it and `TLAPS` | |
| `MC*` | constants for TLC | extend it | |

In every module each program point of a call that another actor can get in
between is a value of `pc`, each handler or system call is one action, and a
variable whose comment says "history" exists for the properties alone: no
guard of a modelled action reads it, other than to bound the environment.
Definitions named after another one with a suffix (`LockCandidate_Skipped`,
`Examine_ReleasesEarly`) stand before the definition `X` they distort. No specification uses them; they are
the plausible mistakes that a property must notice (`PROJECT.json`, "mutants").

### CachePopulation

Every path that more than one process touches is a variable: `object` (the file
in `objects/`), `negative` (the expiration in the `.neg` file), `stagingDirs` and
`staged` (the directory in `tmp/` and the open temporary in it), `holder` (the
flock on the slot's lock file). `onDisk` and `negOnDisk` are the *sets* of contents
a name may have after a power loss: a rename or an unlink adds its outcome to the
set, a synced directory makes it the only one, a file that was not synced may
come back as `Garbage`. So the order of `sync_all`, rename and directory sync is
part of the model.

A process's call is `pc[p]`, with the `Population` it holds in `key[p]`. Dropping
the capability is spelled out: temporary, staging directory, lock, in the order
the fields of `PopulationWriter` are dropped. The corrupt entry a population finds
is removed at three places of the code by the same steps; `resume[p]` says where
the call continues. `IoError(p)` lets any step that makes a system call fail, and
continues at the cleanup the `?` runs. What a call returns is not a variable: every
return goes to `idle`, through `unlock` if it holds the lock. `cached_failure` reads
the same two files, changes nothing and answers by `Live`; it has no action. `Crash(p)` drops everything the kernel
drops (locks) and nothing it does not (files). `LocklessInstall` and
`LocklessWithdraw` are the racing winner `publish_noclobber` guards against: a
program that places an object without taking the lock; `Rot` is damage to the
medium, once per key.

The clock has two ticks per second (`TicksPerSecond`), the coarsest clock
in which an expiration rounded up to a whole second differs from the exact one;
`MaxTTL` and the lifetimes are scaled to it.

`PopulationPromise` has four variables: an entry that is absent, complete or
damaged, its single owner, the set of acknowledged entries, and the entries a
process without the lock installed, about which less is promised.
`ImplementsPromise` is the refinement: `PromisedEntry` and `PromisedOwner` compute
the first two from the files and locks. Each system call is a step of the promise
or a stutter.

### CacheScrub

It extends `CachePopulation` and reuses its `Next` unchanged, adding to each of
its steps what it does to files that module does not mention (`PopulationStep`):
the age of temporaries and the access markers. The pass takes slots as a member of
`Keepers`, which `CachePopulation` admits as holders. A pass visits objects,
temporaries, negative records and orphan markers in that order; a directory scan
returns each name at some time between its start and its end, so an entry may be
gone when it is inspected. `STALE_TEMPORARY_AGE` (a day) is scaled to
`StaleAge` ticks: what matters is that a staged file can be older and can be newer
than that.

### CachePrune

A population is reduced to what a prune can see of it: it owns slots, publishes
objects, removes corrupt ones. A reader's `record_access` is three steps (stat,
open or create, set times), on top of a lookup that hit. Modification times are
variables; an unlink of a marker may fail, as `clear_auxiliary` ignores it.
`prune_batch_size` is the constant `BatchSize`, as it only depends on how large the
cache is. `stats` is the counting scan.

### DiscoveryFlight

The state of one download directory shared by converters in several processes,
and for each converter its table of pending requests, its mutex and condition
variable. A `PendingRequest` is an `Arc`: it is a member of `Requests` that may be
used again once nothing refers to it. The temporary names of
`persist_debuginfod` are unique and never read, so the files behind them are left
out. A file either fits, is foreign (another architecture), or is broken; what each
server answers is chosen when it is asked. `Unwind` is a panic of the observer
or of the HTTP client; it skips `finish`, as the code does.

### BulkConvert

`cursor`, the channel, and each worker's place in `work()`. One `Discovery` event
per conversion stands for however many there are. `tally` keeps the totals by job,
so that a job counted twice and one counted never do not cancel. Building the
plan runs before any thread starts and is not modelled.

### Segments and SegmentCommand

The search only ever sees the size of an encoding, and never encodes a window
twice for one shard; the size is therefore *chosen when it is measured*. The search
is checked for every size function, monotone or not, and proved for every size
function as well. Windows are half open and count from zero, as in the code.
A function is its range and its rank in the writer's order. `Routed` is
what a reader does that picks the shard whose `address_range` holds the address;
`ByName` is one that has only the file names `gsymtool segment` gave.

### FunctionTable

`AddFile`, `AddFunction` and `Encode` are the builder; the finalizer is a pure
function of the functions collected: compaction of line rows, the ordering key
(range, richness, quality, name), the two policies, the repair of a last empty function, and the
refusals of the encoder. Names are numbers in byte order, and `Mangled` relates a
mangled name to one it contains. An inline tree is the call files of its nodes in
preorder: its node count is the quality the code uses, and its files are what a rebuild
renumbers. A call site is its return offset: its regular expressions matter to no
decision here. `Rebuilt` is the renumbering of files for a window of a decoded
table (`UsedFiles` is the new file table, `NewNumbers` the `remap` vector, `Renumbered`
its application to a function and its aliases), which `transcode` (the whole table) and `segments` (any window) share.
`Lookup` is the reader's search among the functions of the nearest start.

Loops over a list are recursive functions over a prefix (`FunctionSet`: what is kept of the first n
functions; `UsedFiles`: the file table behind the first n files), sorting is a function from places to elements (`PlaceOf`
counts what comes before, with the place of insertion as the last part of the key), and filtering
(`At`) one from ranks to positions. In this form the prover can reason about them without recursive operators. Names are numbers
from 1: zero is the empty name, which the builder refuses.

### DwarfReferences

The two searches of `references.rs` are one depth-first search with a stack of
frames (`SearchInit`, `SearchNext`, `SearchSpec`). The graph is data: what a DIE holds is chosen when it is first read, and
kept. Names and lines are one Boolean, "this DIE has what is sought". A target
outside every unit answers like an empty DIE. The caches of units and entries
are transparent.

### ByteFields, FunctionRecord, ImageFormat, GsymImage

A file is a sequence of cells, one per byte, so that alignment, offsets, the width of a
number and a cut are what they are in the code; byte order is not. `FunctionRecord`
holds what the encoder refuses (`validate`), writes and reads of one function, down to the
opcodes of its line program and the opcode range chosen for them. `ImageFormat` interns strings,
chooses address widths and places the tables of version 1 (fixed header, everything an
offset of 32 bits) and version 2 (directory of typed sections). A decoder is a function from cells to a cursor and what was read; a read past
the end leaves the cursor failed for good, which is the code's `?`. `GsymImage` is
the machine: validate, write, lose some bytes at the end, parse, then look up
one address with a set of requested details, or verify every record.

### DwarfLines, DwarfUnit and DwarfTrees

A unit is data: its skeleton attributes, the paths its split unit is tried at and what
each gives, what a package holds, its line program, its subprograms with their ranges, and the
DIEs below each in document order with their depth, which is how the parser
delivers them. `TryLoosePath` to `FallBack` decide where the details come from (`dwarf.rs`);
`NextSubprogram` to `BeginFunction` import the ranges of a subprogram; `VisitInline` and `VisitOther` walk the DIEs with the
explicit stacks of `dies.rs`, one DIE a step, and `FinishFunction` adds the result to the builder. A line program is replayed as the code replays it: a first pass over the opcodes finds where each sequence
begins, the second collects rows, and both count sequences independently. The rows
of a function are those of one sequence, with a row carried in from before its start.
`Origins` lists what should be imported by rank among the positions of subprograms and ranges. `DwarfTrees` is
a module of its own because trees need recursive operators, which keep the prover out of every module they reach.

### ElfConversion

A file is a record of what the checks look at (does it parse, architecture, build
ID, checksum, supplementary link, broken parts); the search is a machine over the list of candidates at
each place in the code's order: debug links, build-ID trees, debuginfod, alternate links,
packages. An alternate link that does not parse ends the conversion (`BadAlternateLink`). `Check` makes every check of `convert_inner` in its order and fails on the first that is broken;
`ImportSymbols` imports symbol tables of up to three files, and fails at a symbol that has no place. `ImportDwarf` is one step, which fails where loading or a
unit does. What the search does not look at is in `broken`: the parts of a file that cannot be read (debug link, alternate link, layout, DWARF sections, package index) and `units`,
which stands for every error that ends the import of a unit of the file, of a loose split file read for it included; which errors those are is `DwarfUnit`'s. Sections of a
relocatable file are laid out by kind; symbols are placed by section base. `SectionBase` counts the bytes of the sections placed
before, each rounded up to `Unit`, which is the running offset of the code; `Collected` takes a single source as it comes, and
several sorted, equal functions made one (`InOrder`).

## What each run checks

### `population` (`MCPopulation.cfg`)

Two callers of one build identifier, through an I/O error at every call, crashes, one power loss, one installation without the lock, of a valid or of a
damaged file, and its withdrawal, damage to the medium, two lifetimes (one rounds up to the maximum TTL, one is refused), clock 1..3. The callers
are interchangeable (`SYMMETRY`), which is sound because every property here is about steps and states.

- `LockDiscipline`: one population per slot; no return, error, crash or power loss leaks a slot.
- `OwnersFindNothing`: an owner finds neither an object nor a live failure (the recheck under the lock).
- `OnlyVerifiedVisible`: a name never shows anything but a complete file of its key, even after a power loss.
- `AckedSurvives`: what `publish` acknowledged stays through crashes and power losses.
- `FailureHonoured`: a recorded failure is in force until it expires: rounding and the TTL tolerance agree.
- `ValidNeverReplaced`: no step unlinks or replaces a valid object, whatever was seen before the lock.
- `ImplementsPromise`: the machine implements `PopulationPromise`.

Two processes and one key are enough for every race on an entry: a third process can only be where one of the two
is. Two keys in one slot matter to `LockDiscipline` and `OwnersFindNothing` alone, and those are proved for any slots.
One power loss after any prefix covers each order of sync and rename, as `onDisk` keeps all outcomes at once.
Damage (`Rot`) and installation happen once per key each, in either order.

### `scrub` (`MCScrub.cfg`)

One process that populates, one keeper that scrubs again and again, readers, damage, a crash on either side, expiring records.

- `WriterKeepsStaging`: a writer never loses its temporary or directory, however old.
- `MarkersKept`: an access marker is removed only while its object is gone.
- `CrashLeftoversReclaimed`: once callers are quiet, everything that crashes left is reclaimed.
- `CallsReturn`: every population returns and gives its lock back, though passes take the same slot again and again.

`StaleAge` is one tick, so leftovers are stale or fresh within the two ticks of the clock. Power losses are left to
`population`: a scrub relies on no durability. Two scrubs at once only meet at `gc.lock`, where the second returns `Busy`.

### `prune` (`MCPrune.cfg`)

Pruning by age, then by capacity in batches of one, of two entries with every initial time, beside one reader and a population of one of them; clock 2..3.

- `OwnedUntouched`: nothing is removed while a population holds its slot.
- `HitsProtect`: the last recorded hit protects an entry from ageing out, up to the debouncing interval, if it was recorded before the recheck. The history `hit` is
  the time each reader took for its access, when the access was recorded or found recorded lately.
- `OldestFirst`: when a removal for capacity is decided, every older entry that stays was touched since the scan began or is in a busy slot.
- `PruneReturns`: every prune returns, whatever the others do.

Batches of one are the strictest: the heap must evict at once. The clock passes through ages 0 to `UnusedAge`.

### `flight` (`MCFlight.cfg`)

Two threads of one converter and one of another process ask for one build identifier; a server that answers or fails;
storing may fail; the file may be lost once; one panic.

- `SingleFlight`: one thread per converter and build identifier downloads, under the request everybody else finds.
- `CoalescedAgree`: a waiter told "found" finds the download unless it was removed from outside.
- `DiscoveryReturns`: no waiter sleeps forever, other than behind a panic.

`"main"` is the only companion here (a supplementary file takes the same path with another test of what fits); the theorems
cover both. One server shows success and exhaustion. Three threads are the fewest with coalescing and a second process.

### `bulk` (`MCBulk.cfg`)

Two workers, three jobs, a terminal that may fail at any event, one panic: `AllAccounted` (an `Ok` batch
counted each job once as what became of it, and what counts as converted is on disk), `StopsEarly` (no worker begins a conversion once
the receiver is gone) and `BatchReturns`. Three jobs leave one to claim while both workers are busy.
`CHECK_DEADLOCK FALSE`: the batch ends.

### `segments`, `segment_overwrite` (`MCSegmentCommand.cfg`, `MCSegmentOverwrite.cfg`)

Every sorted file of up to three functions on four addresses (empty, equal, nested and overlapping ranges, the top address
included), and flat files of 0, 12 and 18 functions, for every size each encoding may have.

- `LargestPrefix`: a shard is closed only when one function more does not exist or was measured and did not fit.
- `RoutesWhenAligned`: the spans route every address as the unsplit file answers, where no boundary cuts functions of one start.

Twelve and eighteen functions are what it takes to double three and four times, interpolate, be wrong and bisect. `UsizeMax = 50`
makes `checked_mul` fail for some of them. The target zero is one that nothing fits. `CHECK_DEADLOCK FALSE`: the command ends.

### `table` (`MCTable.cfg`)

Up to three of twelve functions (empty, sized, nested, rich in each way, three with one rank, one with rows that go back, one whose
file most tables do not have) in any order, with each option, the file table growing in between; then every window is rebuilt.

- `PolicyHonoured`: deduplication answers each address as the richest of the functions that were added; merging loses none.
- `OrderIrrelevant`: the table does not depend on insertion order, unless two functions have the same key.
- `RebuildKeeps`: a rebuilt table says of each function what its source says, holds no unused file, and is a fixed point.

Three functions of one range are the fewest that show that pairwise reduction is not the same as choosing the best. Addresses 0..4
are below, inside and above all of them. `CHECK_DEADLOCK FALSE`: a table that was refused or rebuilt is final.

### `references` (`MCReferences.cfg`)

Every graph over two positions in each of two files, the second reference absolute or to the supplementary file, with a depth
limit that some searches reach (4) and others do not: `NothingReachableInMain` (a search that answers "nothing"
has read the DIE it started from and all that can be reached, within one file) and `SearchReturns`. Four DIEs suffice for cycles through both files and both attributes.

### `image` (`MCImage.cfg`)

Some 250 models in both versions, valid and not: line programs with every kind of opcode, inline trees at the nesting limit and one beyond,
aliases, call sites, addresses at the limits of each width, files just within and just beyond what version 1 can address (`V1Limit = 300` bytes instead
of 2^32). Each is written, perhaps loses 1 to 100 of its last bytes, and is looked up at seven addresses or verified.

- `WrittenReadsBack`: what the builder accepts is written unless there is a reason against it, and a file that was written parses, verifies and gives the model back.
- `LookupMeansModel`: a lookup answers what the model says of the address: the function, its row, the chain of inline nodes, the aliases and call sites.
- `LossIsNoticed`: a file that lost bytes never verifies, and a lookup in it fails or answers as the whole file does.

Nesting limits are 2 and 1 rather than 256 and 16: a limit is reached and passed by one in either case.

### `dwarf` (`MCDwarf.cfg`)

Some 7700 units: programs of up to three line sequences (interleaved, discarded, empty, unended) under every function and requested sequence; lists of up to three
ranges with dead, empty, reversed, oversized and unreadable ones; split units under every outcome of each path and of the package; forests of up to four DIEs.

- `FirstUsableSource`: details come from the first path or package entry that is usable, otherwise from the executable, with every failure warned about.
- `EveryLiveRange`: each live range of a named subprogram becomes one function, in order, and every other one is counted as rejected.
- `AcceptedByBuilder`: the walk never builds a function that the builder refuses or the encoder cannot write, whatever the DIEs say.
- `DetailsAreSubtrees`: the inline tree is the tree of the DIEs without those that have no name or no address in their parent, and no call site is lost.
- `RowsOfItsSequence`: a function has the rows of one sequence, the one it requests or the one that covers its start, and each address the line that sequence gives it.

Four DIEs are the fewest with a subtree to leave by two levels and a sibling to continue with.

### `elf` (`MCElf.cfg`)

Some 9400 conversions: searches at each place among candidates unfit in each way, files each part of which is broken, chosen or passed over, files the caller gave, three sources of symbols that repeat each other's, relocatable files.

- `OneBuild`: what is converted together is of one architecture and of no two build IDs; a supplementary file that was found is the one the link names.
- `CandidatesAreHarmless`: a file the search passes over ends no conversion, but for a candidate for the supplementary file whose ID cannot be read; a file it chose never fails a check the
  search relied on. It ends the conversion only for what the search does not look at: a symbol that has no place or lies past the last address (debug file, embedded file); and, if DWARF is
  imported, a malformed alternate link, DWARF sections or units that cannot be imported, a package whose index does not parse or that was built for another architecture. What is there for DWARF
  alone ends no conversion that imports none. The image itself may be at fault in any way.
- `FirstUsableCompanion`: the debug file is the first usable candidate of the places in their order.
- `SymbolsAreUnion`: the symbols of all sources that lie in executable ranges are imported, each once where there are several sources, and the rest are counted as rejected.

`image`, `dwarf` and `elf` say `CHECK_DEADLOCK FALSE` because a conversion ends.

## Fairness

- `CachePopulation`: none of its own; its run checks safety and the refinement.
- `CacheScrub`: weak fairness of each process's library steps and of consuming a capability. No call waits for another
  process (locks are tried, never awaited), and a capability is consumed or dropped. `Begin`, errors and crashes are not fair.
  Then the scrub's steps (the documentation asks for scheduled scrubs) and the clock.
- `CachePrune`: weak fairness of the prune's steps alone; nothing is assumed of readers and populations.
- `DiscoveryFlight`: strong fairness of each thread's steps. The mutex is held for three steps at a time and a thread that
  keeps asking gets it; an HTTP request times out after 30 seconds. Starting a call, spurious wake-ups and panics are not fair.
- `BulkConvert`: weak fairness of the main thread and of each worker: threads are scheduled and conversions end.
- `DwarfReferences`: weak fairness of the one thread that runs the function. `Segments` and `SegmentCommand` state it as well.
- `GsymImage`, `DwarfUnit`, `ElfConversion`: none; only safety is checked.

## Proofs

TLAPS proves, for every value of the constants that meets the modules' `ASSUME`s:

| Module | Theorems | Argument |
|---|---|---|
| `CacheWriters_proofs` | `TypeCorrect`, `LockSafety`, `OwnershipIsWarranted`, `EntriesAreComplete`, `PublicationIsDurable`, `RepairsOnlyTheCorrupt`, `FailuresAreHonoured`, `PromiseKept`, `WritersAreSpared`, `HitsAreKept` | `TypeOK` is inductive once it says which steps have a staged file. `LockDiscipline` needs both directions (who is past the lock holds it; who holds it is past the lock) because an unlock would otherwise free somebody else's. `OwnersFindNothing` is not inductive: another process of the *same slot* could act. It is strengthened with `LockDiscipline`, with `RecordsBounded` (no record expires beyond the tolerance, so a dead record cannot come alive as the clock advances) and with `OwnersInv`, which carries the fact through the repair of an entry on the way to ownership and through the removal of a staged file on the way to recording a failure. `StepsAreLocal` and `OwnerUndisturbed` show that a step of a process touches the entry of its own key only. *Crashes and repairs:* `DurableInv`: a publisher past `sync_all` holds a verified, past the rename a synced file, also through the repair of a corrupt winner; an unlink is under way only while the entry is corrupt (`PublisherInv`); every content a power loss may bring back is complete, an acknowledged entry has one possible content only, and no power loss brings back a complete entry that was not there (`EntryInv`). `FailureInv` does the same for records: the recorder carries the expiration it computed under the tolerance (`RecorderInv`), and a promised record is the only content of its name (`RecordInv`). *The promise:* step simulation. The lock discipline makes the owner of a key unique (`OwnerMeaning`), so a step that changes no populating process changes no owner; renames complete an entry only for its owner (`RenameCompletes`), unlinks remove corrupt ones only (`UnlinkIsRepair`), and after a power loss acknowledged entries are as they were (`PowerLossIsPromised`, from `DurableInv`). *Beside a scrub:* `ScrubInv`: a pass changes an entry only while it holds the slot, a staged file belongs to a call past the lock (`StagingInv`), so the files a pass takes under the slot are of the dead only, and a writer's directory is there. `MarkerInv`: whoever is about to unlink a marker has found the object gone under the slot and it has stayed so (`ObjectGone`). `HitsAreKept` assumes that every process takes the lock (`Installable = {}`) and that the power stays on (`MaxLosses = 0`). |
| `DiscoveryFlight_proofs` | `TypeCorrect`, `Coalesced`, `WaitersServed`, `NeverReplaced` | `FlightInv`: each owner is registered under its request (`OwnerRegistered`), and two owners never share a request (`OwnersApart`), for which a request in use is never handed out again. `AnswerInv` adds that a request serves one build identifier (`OneKey`), that who has not begun refers to none (`BeforeBegin`), that an owner about to say yes has stored the file (`Downloaded`), hence that a yes means stored (`YesMeansStored`). |
| `BulkConvert_proofs` | `TypeCorrect`, `JobsHandedOutOnce`, `EveryJobAccounted`, `TerminalErrorStopsThePool` | `HandOutInv`: every job at or above the cursor is unclaimed and not produced, so drawing the cursor hands out something new. `AccountInv`: a job is with its worker, in one queued result or in the totals, never in two of these (`OnePlace`); what is queued and counted is what the conversion returned (`ToldTruly`); while the receiver listens nothing that was handed out is lost, and a worker stops only behind the last job (`Listening`); the loop ends well only with an empty channel and every worker ended (`EndedWell`). |
| `Segments_proofs` | `TypeCorrect`, `PrefixIsLargest`, `Tiled`, `Fitting`, `SpansRoute` | `SearchInv`: while doubling, the best window fits and lies below the next (`Growing`); while narrowing, the undecided windows are those between the best that fits and the ceiling that does not (`Narrowing`); the shards are a chain (`Chain`). Interpolation only ever enters through `ClampRange`: whatever it computes, the probe is one of the undecided windows. Routing: by `Chain` the windows tile the functions, which are sorted, so the shard whose span holds an address holds the whole group of the nearest start, and the search in it finds what the search in the file finds. The least and the greatest of a finite set are found by a well-founded minimum. |
| `ElfConversion_proofs` | `BuildsAreOne`, `FirstIsTaken`, `SearchIsHarmless`, `UnionOfSymbols` | Companions are checked once, before symbols are imported. `BuildInv` says that nothing they vouch for changes behind the check (`Vouched`, `SymbolsVouched`), and that a supplementary file is only ever set by the step that compared its ID (`Unnamed`, `Named`). `SearchInv`: the candidates are the rest of the list being tried, and everything passed of this and of the earlier lists is unusable, so what is taken is the first. `HarmInv` adds where each companion was found (`FoundDebug`, `FoundSupplementary`, `FoundPackage`): it has passed there every check that `Check` makes again, but the architecture of a package; that a candidate for the supplementary file is one of those the file chosen names (`NamedCandidates`); and that what is there for DWARF alone is looked for only if DWARF is imported (`WantedForDwarf`). `UnionInv` adds that the files symbols are read from are inputs of the job. The imported list is then compared with the union: a list filtered by ranks of positions has exactly what passes (`AtRange`), a list in order has each function of a finite set once (`InOrderRange`, from `RanksTaken`: ranks under a strict order are 1 to n, by cardinality), and each source gives a finite list of typed functions (`VisitedTyped`). |
| `CachePrune_proofs` | `OwnedEntriesAreLeft`, `RecordedHitsProtect`, `OldestGoFirst` | `SlotInv`: from the moment the prune has the lock no population owns the slot, and what the prune removed stays removed until it lets go. `ProtectInv` follows a time from the reader that took it: a marker is at most the debouncing interval behind the last record, and where there is none the object was published later (`HitInv`); an entry about to be taken by age had that age when the scan read it (`AgeInv`). `OrderInv`: an entry that the scan has passed and nobody touched is among the candidates, or the heap is full of older ones (`ScanInv`), hence older ones alone are taken before it (`BatchInv`), and what a candidate says of an untouched entry is still true (`RecordedInv`). The oldest and the newest candidate exist by a well-founded minimum over the order of `BinaryHeap`'s keys. `RecordedHitsProtect` assumes `UnusedAge # 0`: a policy of age zero takes every entry, whatever was recorded. |
| `Dwarf_proofs` | `DepthIsBounded`, `CyclesAreCut`, `NothingIsMissed`, `SourceIsFirst`, `LiveRangesImported` | *References:* `TypeInv`: a frame that follows an attribute is within the limit (`WithinDepth`), and its DIE was read (`ReadBefore`). `KeysOnce`: every frame but the first is filed under a key of its own, a DIE of the main file has one key, one of the supplementary file two, and the search does not start there. `Explored`: for each DIE read, what each of its attributes leads to is already visited, or a frame of the DIE has not come past that attribute; once the stack is empty nothing waits. It needs that frames are filed under their own file (`FiledByFile`), which absolute references inside the supplementary file break; the property excepts them. *Sources:* `SourceInv`: the paths not read yet are the rest of the list, no path behind was good or duplicated (`Tried`), a reason was kept exactly if one of them was not merely missing; once the paths are over (`LooseOver`) the package decides. *Ranges:* `RangesInv`: while importing, the position of the next range splits the positions that should be met into those before it, which are counted as imported or rejected (`Counted`), and the rest (`Rest`); the n-th function is of the n-th position that should be imported (`Matched`). A position has n predecessors for one n only (`CountsApart`), so appending a function agrees with the list by rank. |
| `FunctionTable_proofs` | `OrderDoesNotMatter`, `PolicyIsHonoured`, `RebuildLosesNothing` | `IInv`: the functions added are valid, the builder's file table holds every file once and the reserved one first (`FileList`), an encoded table is what finalization makes of the functions added and is finalized over its files (`Sane`), and a rebuilt one comes from a window of it. *Order:* places are a bijection (ranks under the order of keys), a rearrangement leaves the key at each place as it was, and keys tell the functions apart, so the sorted table is the same and all that follows starts from it. *Deduplication:* by least counterexample over the prefix, the kept functions are of strictly increasing ranges and the last of them is the best of its range so far (`Deduplicated`): of the preferred one, or a mangled name taken over from a plain one, and ranges of one start are contiguous, so what was dropped (an empty function that another covers) is never the one that answers. `Represents` and `LookupFinds` carry this to the reader's search, over the repaired table too. *Merging:* each kept function holds what it was made of, every function of the prefix is with one of them and nothing else is (`Merged`), and ranges are apart. *Rebuilding:* whatever the policy and the repair, what finalization leaves is sorted by key, has no repeated row in a function or an alias, and names only files of its table (`FinalTable`); such a table is a fixed point of finalization (`FinalizedAgain`), also after its files were renumbered, because renumbering is one to one on the files in use, so it makes no two rows alike, and touches no key (`FamilyRenumbered`, `TableRenumbered`). The new file table is followed over the prefixes of the old one (`Picked`): it holds the used files, each once, in their old order, hence the new number of a file leads to the same file (`Numbered`), and when all are used every number is the old one, hence a second rebuild changes nothing (`RebuiltAgain`). |

The strengthened invariants were checked by TLC on the runs' instances before they were proved. `ShardsTile`, `ShardsFit`, `HandedOutOnce`,
`CyclesCut`, `FlightTypeOK`, `BulkTypeOK`, `SegTypeOK` and `RefTypeOK` are proved and part of no run.

Assumptions about the inputs of `ElfConversion`: a conversion from a path has no explicit companions (`PathAssumption`, as `convert_path` has none), and
what is tried in turn comes in sequences, for an image that is a file (`ListsAssumption`). The same bytes parse to the same file, and
its sections and symbols are typed (`SymbolsAssumption`); the ELF parser guarantees both. A symbol may name a section its file does not have. `CandidatesAssumption` and `TextAssumption` (`FunctionTable`) give
the types of the functions a caller can build, with no empty name, of the executable ranges and of the addresses; `UnitsAssumption` (`DwarfUnit`) does it for
a unit. `RowsAscend` is a hypothesis inside `PolicyHonoured`: the doc of `add_function` demands sorted rows.

Induction over data is done by hand where the model allows it: a property of each prefix is proved by its least
counterexample, ranks by cardinality of finite sets, the last and the first by a well-founded minimum. No theorem with an operator parameter is used.

Only model-checked:

- Liveness (fairness and ENABLED are outside the prover): `CrashLeftoversReclaimed`, `CallsReturn`, `PruneReturns`, `DiscoveryReturns`, `BatchReturns`, `SearchReturns`.
- `WrittenReadsBack`, `LookupMeansModel`, `LossIsNoticed` (images): the format is nested (an inline node holds nodes, a record holds records), so its encoder and
  decoder are recursive operators, and no proof can reach a module that declares one.
- `AcceptedByBuilder`, `DetailsAreSubtrees` (`DwarfTrees`): trees, by recursive operators; the first goes through the record format as well.
- `RowsOfItsSequence` (`DwarfUnit`): the replay of a line program is a fold of the community modules, which takes an operator as its parameter.

`CapacityReached` (`CachePrune`) is stated and neither proved nor part of a run: it concerns a prune that nothing disturbed.

## Findings

One run expects a violation:

- `segment_overwrite`: shards cut between functions of one start have one name, and the second file replaces the first (`gsymtool/src/main.rs:372`).

Five modules state a sentence of the documentation that no run checks, because TLC refutes it on the instance of the run:

- `AgedOutWasOldEnough` (`CachePrune`): a marker older than its object ages the object out (`gsym-cache/src/maintenance.rs:853`, against line 222).
- `NothingReachable` (`DwarfReferences`): an absolute reference inside the supplementary file is filed as one of the main file (`src/convert/dwarf/references.rs:258`), so a DIE at
  the same position of the main file hides it.
- `SelectsItsSequence` (`DwarfUnit`, with `Units <- AfterDiscarded`): the pass over the opcodes counts sequences of discarded code, the pass over the rows does not (`src/convert/dwarf/lines.rs:161`), so behind one
  a function that names its sequence gets the rows of another (lines 288-289).
- `SearchOnlyWarns` (`ElfConversion`): "problems encountered while searching appear as warnings rather than errors" (`src/convert/elf/mod.rs:478-481`), but a malformed `.gnu_debugaltlink`, also
  that of a debug file the search found (`src/convert/elf/discovery.rs:196-199`), a candidate for the supplementary file whose ID cannot be read (line 224) and a package of another architecture
  found beside the image (`src/convert/elf/mod.rs:404`) end the conversion.
- `LastFrameIsFunction` (`GsymImage`, with a nameless inline root): the last frame of a lookup then has no name of its own (`src/reader/lookup.rs:415`, against `src/model.rs:360-364`).

The models showed more; these have no definition of their own, and the properties above admit exactly them:

- Two threads can download one file in turn (`src/convert/elf/discovery.rs:354`): the second looks before the first links its download and begins after the first
  finished. Its own `hard_link` then fails (line 559) and it converts without debug information, which is on disk; `tests/convert/debuginfo.rs:518-525`
  expect one request and debug information for every thread, `gsymtool/src/bulk.rs:3-4` that the number of workers does not affect the output.
- A panic of the observer or client past `begin` leaves the request in the table: everybody who joins it waits forever (`discovery.rs:379`).
- A record's temporary in `negative/` is never reclaimed when its writer dies (`gsym-cache/src/manage.rs:117`; `gsym-cache/docs/operations.md:102-103`).
- A population that finishes between `readdir` and `symlink_metadata` makes a scrub fail (`maintenance.rs:969`; `operations.md:89-90`).
- A leftover newer than the scan's reading of the clock counts as stale and is removed at once (`maintenance.rs:996`; `maintenance.rs:280`, `operations.md:86-87`).
- With two readers, a slow one can set the marker back behind a later hit (`gsym-cache/src/access.rs:61`).
- A shard boundary between functions of one start gives the earlier shard an empty span (`src/transform.rs:363`), and `u64::MAX` is in no span even if a
  final empty function answers for it (line 365); line 262-265 promise routing.
- Equal ordering keys keep insertion order (`src/writer/finalize.rs:60`), although `src/builder.rs:306` says it does not matter.
- A mangled name taken over by a rich record is lost when a copy or a richer record of the range follows (`src/writer/finalize.rs:98-113`).
- A package found beside the image ends the conversion when its index does not parse, needed or not (`src/convert/dwarf.rs:147-161`). So does a symbol in an empty section of a relocatable file,
  and one past the last address, also when it is a symbol of a debug file the search found or of the embedded one (`src/convert/elf/image.rs:170-187`).
- Symbols that `.symtab` and `.dynsym` share count twice when there is one source (`mod.rs:240` says "distinct functions"); `skipped.retain` (line 628) never removes anything.
- A build ID set by the caller is kept (`mod.rs:414`), while lines 123-124 say it is overwritten from the image. Embedded debug data replaces the image's own DWARF.
- A sequence that is empty, and has an end, is taken to cover everything below its end (`src/convert/dwarf/lines.rs:166`).
- A package whose unit has another ID ends the conversion, a DWO file with another ID is passed over; a malformed range ends it in an inlined
  subroutine and is tolerated in a subprogram. Call sites are imported at any depth, not only as direct children (`docs/compatibility.md:40`).

## Not modelled

- `gsym-cache/src/lookup.rs` beyond what a lookup observes: cached descriptors, creation, ownership and mode checks of directories. They compare what the kernel says with a constant; a model would restate them.
- Parsing of ELF headers and DWARF encodings (other crates), relocation and loading of sections (`convert/dwarf/sections.rs`), unpacking of `.gnu_debugdata`, short build IDs.
- Byte orders, the memory map, integer overflow inside an image, file APIs of the reader; the interning caches of references.
- Command line, planning of a batch, printing, messages, report counters; tests, fuzzing, benchmarks, scripts.
- The hazard without a property (`maintenance.rs:222`) is the finding `AgedOutWasOldEnough`: the code does what the property would forbid.

Bounds on the environment (power losses, damage, panics, passes) appear as constants named in each module and are stated in its comments.
Reading and writing of one file is atomic where a temporary or an open descriptor makes it so in the code.

## Plan

Order of work: the cache (its promises are about crashes and cannot be tested), then the concurrent parts of the converter and the tool, then the pure algorithms
in order of how often they meet unusual input. Done: everything in the tables of modules and of proofs. Left:

1. Proofs: `CapacityReached`; `RowsOfItsSequence`, with the replay as a recursive function over the opcodes.
2. Two scrubs, or a scrub and a prune, behind one `gc.lock`; two readers and one marker.
3. Composition of `DwarfUnit` and `FunctionTable`: units of several files in one table.
4. Planning of a batch: the collision check against outputs that already exist.
