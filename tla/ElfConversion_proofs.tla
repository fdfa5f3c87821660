------------------------ MODULE ElfConversion_proofs ------------------------
(***************************************************************************)
(* Whatever files a conversion meets, what it converts together belongs    *)
(* together.  The checks are made once, before the symbols are imported;   *)
(* the proof is that nothing they vouch for changes behind them.           *)
(***************************************************************************)
EXTENDS ElfConversion, FunctionTheorems, FiniteSetTheorems, SequenceTheorems, TLAPS

Acceptable(option) == option = <<>> \/ ValidCompanion(job.image, option[1])

\* What holds once the companions are checked.
Vouched ==
  pc \in {"symbols", "dwarf", "done"} =>
    /\ Acceptable(debug) /\ Acceptable(embedded)
    /\ package = <<>> \/ SameArchitecture(job.image, package[1])

\* What holds once the search for the supplementary file has ended.
Named ==
  job.path /\ pc \in {"package", "check", "symbols", "dwarf", "done"} =>
    supplementary = <<>> \/ supplementary[1].id = Expected

\* Before it, a path has no supplementary file.
Unnamed == job.path /\ pc \in {"linked", "tree", "alternate"} => supplementary = <<>>

SymbolsVouched == pc \in {"dwarf", "done"} /\ job.symbols => Acceptable(GivenSymbols)

BuildInv == job \in Jobs /\ Vouched /\ Unnamed /\ Named /\ SymbolsVouched

\* A file that passed the check of identities belongs to the image.
LEMMA ValidBelongs == ASSUME NEW file, ValidCompanion(job.image, file) PROVE Belongs(file)
BY DEF ValidCompanion, Parses, SameBuild, SameArchitecture, Belongs

LEMMA BuildInit == Init => BuildInv
<1> SUFFICES ASSUME Init PROVE BuildInv
  OBVIOUS
<1>1. job \in Jobs /\ pc \in {"linked", "check"}
  BY DEF Init
<1>2. job.path => supplementary = <<>>
  BY <1>1, PathAssumption DEF Init
<1> QED
  BY <1>1, <1>2 DEF BuildInv, Vouched, Unnamed, Named, SymbolsVouched

\* The search checks nothing for good: its steps end before the companions are
\* vouched for, and none of them takes a supplementary file of another ID.
LEMMA SearchKeeps ==
  ASSUME BuildInv,
         \/ Unreadable \/ TryLinked \/ LinkedExhausted \/ TryTree \/ AskRemote
         \/ BadAlternateLink \/ TryAlternate \/ AlternateExhausted \/ TryPackage \/ PackageExhausted
  PROVE  BuildInv'
<1> USE DEF BuildInv, Vouched, Unnamed, Named, SymbolsVouched, chosen, Fail, Skip
<1>1. CASE Unreadable
  BY <1>1 DEF Unreadable
<1>2. CASE TryLinked
  BY <1>2 DEF TryLinked, ToAlternate
<1>3. CASE LinkedExhausted
  BY <1>3 DEF LinkedExhausted, ToAlternate
<1>4. CASE TryTree
  BY <1>4 DEF TryTree, ToAlternate
<1>5. CASE AskRemote
  BY <1>5 DEF AskRemote, ToAlternate
<1>6. CASE TryAlternate
  BY <1>6 DEF TryAlternate, ToPackage, Expected, DebugSource
<1>7. CASE AlternateExhausted
  BY <1>7 DEF AlternateExhausted, ToPackage, Expected, DebugSource, ValidResponse
<1>8. CASE TryPackage
  BY <1>8 DEF TryPackage, Expected, DebugSource
<1>9. CASE PackageExhausted
  BY <1>9 DEF PackageExhausted, Expected, DebugSource
<1>10. CASE BadAlternateLink
  BY <1>10 DEF BadAlternateLink
<1> QED
  BY <1>1, <1>2, <1>3, <1>4, <1>5, <1>6, <1>7, <1>8, <1>9, <1>10

\* convert_inner goes on only if it has nothing to object to.
LEMMA CheckVouches == ASSUME BuildInv, Check PROVE BuildInv'
<1>1. /\ pc = "check" /\ pc' \in {"symbols", "failed"}
      /\ UNCHANGED <<job, debug, supplementary, package>>
  BY DEF Check, Fault
<1>2. Acceptable(embedded)'
  BY <1>1 DEF Check, Acceptable
<1>3. pc' = "symbols" => /\ Acceptable(debug)
                         /\ package = <<>> \/ SameArchitecture(job.image, package[1])
  BY <1>1 DEF Check, Fault, Acceptable
<1>4. Vouched'
  BY <1>1, <1>2, <1>3 DEF Vouched, Acceptable
<1> QED
  BY <1>1, <1>4 DEF BuildInv, Unnamed, Named, SymbolsVouched, Expected, DebugSource

LEMMA ImportVouches == ASSUME BuildInv, ImportSymbols \/ WithoutSymbols \/ ImportDwarf PROVE BuildInv'
<1>1. /\ pc \in {"symbols", "dwarf"} /\ pc' \in {"dwarf", "done", "failed"}
      /\ UNCHANGED <<job, debug, supplementary, package, embedded>>
  BY DEF ImportSymbols, WithoutSymbols, ImportDwarf, AfterSymbols, Fail, chosen
<1>2. pc' # "failed" /\ job.symbols => Acceptable(GivenSymbols)
  <2>1. CASE ImportSymbols \/ WithoutSymbols
    BY <2>1 DEF ImportSymbols, WithoutSymbols, Fail, Acceptable
  <2>2. CASE ImportDwarf
    BY <2>2 DEF ImportDwarf, BuildInv, SymbolsVouched
  <2> QED BY <2>1, <2>2
<1> QED
  BY <1>1, <1>2 DEF BuildInv, Vouched, Unnamed, Named, SymbolsVouched, Expected, DebugSource,
                    Acceptable, GivenSymbols

LEMMA BuildNext == BuildInv /\ [Next]_vars => BuildInv'
<1> SUFFICES ASSUME BuildInv, [Next]_vars PROVE BuildInv'
  OBVIOUS
<1>1. CASE UNCHANGED vars
  BY <1>1 DEF vars, chosen, BuildInv, Vouched, Unnamed, Named, SymbolsVouched, Expected,
              DebugSource, Acceptable, GivenSymbols
<1> QED
  BY <1>1, SearchKeeps, CheckVouches, ImportVouches DEF Next

LEMMA BuildInvariant == Spec => []BuildInv
BY BuildInit, BuildNext, PTL DEF Spec

\* For any jobs, and any files met on the way: a conversion that ends well used
\* only companions of the image's architecture whose build IDs do not contradict
\* its own, and a supplementary file it found is the one the link names.
THEOREM BuildsAreOne == Spec => []OneBuild
<1>1. BuildInv => OneBuild
  BY ValidBelongs DEF BuildInv, Vouched, Named, SymbolsVouched, Acceptable, OneBuild, SameArchitecture
<1> QED
  BY <1>1, BuildInvariant, PTL

---------------------------------------------------------------------------
(* The search for the debug file.  It is at a place in the lists it goes   *)
(* through; what lies before that place does not do.                       *)

LEMMA HeadAndTail ==
  ASSUME NEW S, NEW s \in Seq(S), s # <<>>
  PROVE  /\ Len(s) \in Nat \ {0} /\ Head(s) = s[1] /\ Head(s) \in S
         /\ Tail(s) \in Seq(S) /\ Len(Tail(s)) = Len(s) - 1
         /\ \A i \in 1..Len(s) - 1 : Tail(s)[i] = s[i + 1]
OBVIOUS

LEMMA ConcatAt ==
  ASSUME NEW S, NEW s \in Seq(S), NEW t \in Seq(S)
  PROVE  /\ s \o t \in Seq(S) /\ Len(s) \in Nat /\ Len(t) \in Nat /\ Len(s \o t) = Len(s) + Len(t)
         /\ DOMAIN (s \o t) = 1..Len(s) + Len(t)
         /\ \A i \in 1..Len(s) : (s \o t)[i] = s[i]
         /\ \A i \in 1..Len(t) : (s \o t)[Len(s) + i] = t[i]
OBVIOUS

Files == Range(job.linked) \cup Range(job.tree) \cup {job.remote}

LEMMA Lists ==
  ASSUME job \in Jobs
  PROVE  /\ job.linked \in Seq(Files) /\ job.tree \in Seq(Files)
         /\ job.linked \in Seq(Range(job.linked)) /\ job.tree \in Seq(Range(job.tree))
         /\ job.embedded \in Seq(Range(job.embedded))
         /\ \A f \in Files \cup {job.image} : f # Missing => f.alternates \in Seq(Range(f.alternates))
<1>1. job.linked \in Seq(Range(job.linked)) /\ job.tree \in Seq(Range(job.tree))
  BY ListsAssumption DEF IsList
<1>2. \A S, T : S \subseteq T => Seq(S) \subseteq Seq(T)
  OBVIOUS
<1>3. Range(job.linked) \subseteq Files /\ Range(job.tree) \subseteq Files
  BY DEF Files
<1>4. job.linked \in Seq(Files) /\ job.tree \in Seq(Files)
  BY <1>1, <1>2, <1>3
<1> QED
  BY <1>1, <1>4, ListsAssumption DEF IsList, Files

\* The list that is gone through is what is left of the one that was looked up.
Rest(list) ==
  /\ Len(candidates) <= Len(list)
  /\ \A i \in 1..Len(candidates) : candidates[i] = list[Len(list) - Len(candidates) + i]

Passed == IF pc = "linked" THEN Len(job.linked) - Len(candidates)
          ELSE Len(job.linked) + Len(job.tree) - Len(candidates)

Looking == pc \in {"linked", "tree"}

SearchInv ==
  /\ job \in Jobs
  /\ Looking => ForDebug /\ debug = <<>> /\ candidates \in Seq(Files)
  /\ pc = "linked" => Rest(job.linked)
  /\ pc = "tree" => Rest(job.tree) /\ job.image.elf /\ ~job.image.torn /\ job.image.id # <<>>
  /\ Looking /\ job.image.elf /\ ~job.image.torn => \A i \in 1..Passed : ~Usable(i)
  /\ FirstUsableCompanion

\* Three lists, one after the other, the last of one element.
LEMMA ThreeLists ==
  ASSUME NEW S, NEW l \in Seq(S), NEW t \in Seq(S), NEW x \in S
  PROVE  LET all == l \o (t \o <<x>>)
         IN /\ Len(l) \in Nat /\ Len(t) \in Nat
            /\ DOMAIN all = 1..Len(l) + Len(t) + 1
            /\ \A i \in 1..Len(l) : all[i] = l[i]
            /\ \A i \in 1..Len(t) : all[Len(l) + i] = t[i]
            /\ all[Len(l) + Len(t) + 1] = x
<1>0. PICK u : u = t \o <<x>>
  OBVIOUS
<1>1. <<x>> \in Seq(S) /\ Len(<<x>>) = 1 /\ <<x>>[1] = x
  OBVIOUS
<1>2. /\ u \in Seq(S) /\ Len(u) = Len(t) + 1 /\ Len(t) \in Nat /\ Len(l) \in Nat
      /\ \A i \in 1..Len(t) : u[i] = t[i]
      /\ u[Len(t) + 1] = x
  BY <1>0, <1>1
<1>u. u \in Seq(S)
  BY <1>2
<1>3. /\ DOMAIN (l \o u) = 1..Len(l) + Len(u)
      /\ \A i \in 1..Len(l) : (l \o u)[i] = l[i]
      /\ \A i \in 1..Len(u) : (l \o u)[Len(l) + i] = u[i]
  BY <1>u, ConcatAt
<1>4. \A i \in 1..Len(t) : (l \o u)[Len(l) + i] = t[i]
  BY <1>2, <1>3
<1>5. (l \o u)[Len(l) + Len(t) + 1] = x
  <2>1. Len(t) + 1 \in 1..Len(u) /\ Len(l) + (Len(t) + 1) = Len(l) + Len(t) + 1
    BY <1>2
  <2> QED BY <1>2, <1>3, <2>1
<1>6. DOMAIN (l \o u) = 1..Len(l) + Len(t) + 1
  BY <1>2, <1>3
<1> QED
  BY <1>2, <1>3, <1>4, <1>5, <1>6, <1>0

\* The files are offered in the order of the search.
LEMMA OfferedAt ==
  ASSUME job \in Jobs
  PROVE  /\ Len(job.linked) \in Nat /\ Len(job.tree) \in Nat
         /\ \A i \in 1..Len(job.linked) : Offered[i] = job.linked[i]
         /\ job.image.id = <<>> => DOMAIN Offered = 1..Len(job.linked)
         /\ job.image.id # <<>> =>
              /\ DOMAIN Offered = 1..Len(job.linked) + Len(job.tree) + 1
              /\ \A i \in 1..Len(job.tree) : Offered[Len(job.linked) + i] = job.tree[i]
              /\ Offered[Len(job.linked) + Len(job.tree) + 1] = job.remote
<1> DEFINE l == job.linked  t == job.tree  x == job.remote
<1>1. l \in Seq(Files) /\ t \in Seq(Files) /\ x \in Files
  BY Lists DEF Files
<1>2. Offered = l \o (IF job.image.id = <<>> THEN <<>> ELSE t \o <<x>>)
  BY DEF Offered
<1> HIDE DEF l, t, x
<1>3. Len(l) \in Nat /\ Len(t) \in Nat
  BY <1>1
<1>4. CASE job.image.id = <<>>
  <2>1. Offered = l /\ DOMAIN l = 1..Len(l)
    BY <1>1, <1>2, <1>4
  <2> QED BY <1>3, <1>4, <2>1 DEF l, t
<1>5. CASE job.image.id # <<>>
  <2>1. Offered = l \o (t \o <<x>>)
    BY <1>2, <1>5
  <2>2. /\ DOMAIN Offered = 1..Len(l) + Len(t) + 1
        /\ \A i \in 1..Len(l) : Offered[i] = l[i]
        /\ \A i \in 1..Len(t) : Offered[Len(l) + i] = t[i]
        /\ Offered[Len(l) + Len(t) + 1] = x
    BY <1>1, <2>1, ThreeLists
  <2> QED BY <1>3, <1>5, <2>2 DEF l, t, x
<1> QED
  BY <1>4, <1>5

\* The search's checks are what makes a file usable.
LEMMA LinkAcceptsUsable ==
  ASSUME NEW f, ~job.image.torn
  PROVE  /\ ValidCompanion(job.image, f) <=> f # Missing /\ Belongs(f)
         /\ LinkAccepts(job.image, f) <=> f # Missing /\ Belongs(f) /\ f.crc
BY DEF ValidCompanion, LinkAccepts, Parses, SameBuild, SameArchitecture, Belongs

LEMMA ResponseUsable ==
  ASSUME NEW f, ~job.image.torn, job.image.id # <<>>
  PROVE  ValidResponse(<<job.image>>, job.image.id, f) <=>
           f # Missing /\ Belongs(f) /\ f.id = job.image.id
<1>1. Range(<<job.image>>) = {job.image}
  BY DEF Range
<1> QED
  BY <1>1 DEF ValidResponse, Parses, SameBuild, SameArchitecture, Belongs

LEMMA SearchInit == Init => SearchInv
<1> SUFFICES ASSUME Init PROVE SearchInv
  OBVIOUS
<1>1. job \in Jobs /\ candidates = job.linked /\ pc = (IF ForDebug THEN "linked" ELSE "check")
  BY DEF Init
<1>2. Looking => ForDebug /\ debug = <<>>
  BY <1>1, PathAssumption DEF Init, Looking, ForDebug, Searching
<1>3. Len(job.linked) \in Nat /\ job.linked \in Seq(Files)
  BY <1>1, Lists, OfferedAt
<1>4. Rest(job.linked) /\ (pc = "linked" => Passed = 0)
  BY <1>1, <1>3 DEF Rest, Passed
<1> QED
  BY <1>1, <1>2, <1>3, <1>4 DEF SearchInv, Looking, FirstUsableCompanion

\* A candidate is passed over: the place moves on by one.
LEMMA PassedOver ==
  ASSUME SearchInv, Looking, Skip, candidates # <<>>,
         job.image.elf /\ ~job.image.torn => ~Usable(Passed + 1)
  PROVE  SearchInv'
<1> USE DEF SearchInv, Looking
<1>1. /\ UNCHANGED <<job, pc, debug>> /\ candidates' = Tail(candidates)
      /\ candidates \in Seq(Files)
  BY DEF Skip, chosen
<1>2. /\ candidates' \in Seq(Files) /\ Len(candidates') = Len(candidates) - 1
      /\ Len(candidates) \in Nat \ {0}
      /\ \A i \in 1..Len(candidates) - 1 : candidates'[i] = candidates[i + 1]
  BY <1>1, HeadAndTail
<1>3. Len(job.linked) \in Nat /\ Len(job.tree) \in Nat
  BY OfferedAt
<1>4. ASSUME NEW list, Len(list) \in Nat, Rest(list)
      PROVE  /\ Len(candidates') <= Len(list)
             /\ \A i \in 1..Len(candidates') :
                  candidates'[i] = list[Len(list) - Len(candidates') + i]
  <2>1. Len(candidates) <= Len(list)
    BY <1>4 DEF Rest
  <2>2. ASSUME NEW i \in 1..Len(candidates')
        PROVE  candidates'[i] = list[Len(list) - Len(candidates') + i]
    <3>1. /\ i \in 1..Len(candidates) - 1 /\ i + 1 \in 1..Len(candidates)
          /\ Len(list) - Len(candidates) + (i + 1) = Len(list) - Len(candidates') + i
      BY <1>2, <1>4
    <3>2. candidates[i + 1] = list[Len(list) - Len(candidates) + (i + 1)]
      BY <1>4, <3>1 DEF Rest
    <3> QED BY <1>2, <3>1, <3>2
  <2> QED BY <1>2, <1>4, <2>1, <2>2
<1>5. (pc = "linked" => Rest(job.linked)') /\ (pc = "tree" => Rest(job.tree)')
  BY <1>1, <1>3, <1>4 DEF Rest
<1>6. Passed' = Passed + 1 /\ Passed \in Int
  BY <1>1, <1>2, <1>3 DEF Passed
<1>7. \A i : Usable(i)' <=> Usable(i)
  BY <1>1 DEF Usable, Offered, Belongs
<1>8. job.image.elf /\ ~job.image.torn => \A i \in 1..Passed' : ~Usable(i)
  <2>1. \A i \in 1..Passed + 1 : i \in 1..Passed \/ i = Passed + 1
    BY <1>6
  <2> QED BY <1>6, <2>1
<1>9. FirstUsableCompanion'
  BY <1>1 DEF FirstUsableCompanion
<1>10. /\ job' \in Jobs /\ (Looking' <=> Looking) /\ ForDebug' /\ debug' = <<>>
       /\ job' = job /\ pc' = pc /\ Files' = Files
  BY <1>1 DEF ForDebug, Searching, Files
<1>11. (pc = "tree" => job.image.elf /\ ~job.image.torn /\ job.image.id # <<>>)
  OBVIOUS
<1> HIDE DEF Looking, SearchInv
<1> QED
  BY <1>2, <1>5, <1>7, <1>8, <1>9, <1>10, <1>11 DEF SearchInv

\* A candidate is taken, or there was none: either way the search is over.
LEMMA SearchEnds ==
  ASSUME SearchInv, Looking, job' = job, pc' \notin {"linked", "tree"},
         \/ pc' = "failed"
         \/ debug' = <<>> /\ \A i \in DOMAIN Offered : ~Usable(i)
         \/ /\ Passed + 1 \in DOMAIN Offered /\ Usable(Passed + 1)
            /\ debug' = <<Offered[Passed + 1]>>
            /\ job.image.elf /\ ~job.image.torn
  PROVE  SearchInv'
<1>1. \A i : Usable(i)' <=> Usable(i)
  BY DEF Usable, Offered, Belongs
<1>2. Offered' = Offered
  BY DEF Offered
<1>3. Passed \in Int
  <2>1. candidates \in Seq(Files) /\ Len(job.linked) \in Nat /\ Len(job.tree) \in Nat
    BY OfferedAt DEF SearchInv
  <2> QED BY <2>1 DEF Passed
<1>4. CASE /\ Passed + 1 \in DOMAIN Offered /\ Usable(Passed + 1)
           /\ debug' = <<Offered[Passed + 1]>> /\ job.image.elf /\ ~job.image.torn
  <2>1. \A j \in 1..(Passed + 1) - 1 : ~Usable(j)
    BY <1>3, <1>4 DEF SearchInv
  <2>2. FirstUsableCompanion'
    BY <1>1, <1>2, <1>4, <2>1 DEF FirstUsableCompanion
  <2> QED BY <2>2 DEF SearchInv, Looking
<1>5. CASE pc' = "failed" \/ (debug' = <<>> /\ \A i \in DOMAIN Offered : ~Usable(i))
  <2>1. FirstUsableCompanion'
    BY <1>1, <1>2, <1>5 DEF FirstUsableCompanion
  <2> QED BY <2>1 DEF SearchInv, Looking
<1> QED
  BY <1>4, <1>5

\* Where the search is in the files offered.
LEMMA PlaceInOffered ==
  ASSUME SearchInv, Looking
  PROVE  /\ candidates # <<>> =>
              /\ Passed + 1 \in DOMAIN Offered /\ Head(candidates) = Offered[Passed + 1]
              /\ pc = "linked" => Passed + 1 <= Len(job.linked)
              /\ pc = "tree" => ~(Passed + 1 <= Len(job.linked))
              /\ ~(Passed + 1 > Len(job.linked) + Len(job.tree))
         /\ candidates = <<>> =>
              /\ pc = "linked" => Passed = Len(job.linked)
              /\ pc = "tree" => Passed = Len(job.linked) + Len(job.tree)
<1> DEFINE L == Len(job.linked)  T == Len(job.tree)  C == Len(candidates)
<1>1. L \in Nat /\ T \in Nat /\ candidates \in Seq(Files) /\ pc \in {"linked", "tree"}
  BY OfferedAt DEF SearchInv, Looking
<1>2. /\ pc = "linked" => C <= L
      /\ pc = "tree" => C <= T
  BY DEF Rest, SearchInv
<1>3. DOMAIN Offered = 1..L \/ DOMAIN Offered = 1..L + T + 1
  BY OfferedAt DEF SearchInv
<1>4. pc = "tree" => DOMAIN Offered = 1..L + T + 1
  BY OfferedAt DEF SearchInv
<1>5. Passed = IF pc = "linked" THEN L - C ELSE L + T - C
  BY DEF Passed
<1>6. C \in Nat /\ (candidates = <<>> => C = 0) /\ (candidates # <<>> => C # 0)
  BY <1>1, HeadAndTail
<1>7. candidates # <<>> => Head(candidates) = candidates[1]
  BY <1>1, HeadAndTail
<1>8. /\ pc = "linked" => \A i \in 1..C : candidates[i] = job.linked[L - C + i]
      /\ pc = "tree" => \A i \in 1..C : candidates[i] = job.tree[T - C + i]
  BY DEF SearchInv, Rest
<1>9. /\ \A i \in 1..L : Offered[i] = job.linked[i]
      /\ pc = "tree" => \A i \in 1..T : Offered[L + i] = job.tree[i]
  BY OfferedAt DEF SearchInv
<1> HIDE DEF L, T, C
<1>10. ASSUME C # 0, pc = "linked"
       PROVE  /\ Passed + 1 \in DOMAIN Offered /\ candidates[1] = Offered[Passed + 1]
              /\ Passed + 1 <= L /\ ~(Passed + 1 > L + T)
  <2>1. L - C + 1 \in 1..L /\ Passed + 1 = L - C + 1 /\ 1 \in 1..C
    BY <1>1, <1>2, <1>5, <1>6, <1>10
  <2>2. L - C + 1 \in DOMAIN Offered /\ ~(L - C + 1 > L + T)
    BY <1>1, <1>3, <2>1
  <2> QED BY <1>8, <1>9, <1>10, <2>1, <2>2
<1>11. ASSUME C # 0, pc = "tree"
       PROVE  /\ Passed + 1 \in DOMAIN Offered /\ candidates[1] = Offered[Passed + 1]
              /\ ~(Passed + 1 <= L) /\ ~(Passed + 1 > L + T)
  <2>1. T - C + 1 \in 1..T /\ Passed + 1 = L + (T - C + 1) /\ 1 \in 1..C
    BY <1>1, <1>2, <1>5, <1>6, <1>11
  <2>2. /\ L + (T - C + 1) \in DOMAIN Offered /\ ~(L + (T - C + 1) > L + T)
        /\ ~(L + (T - C + 1) <= L)
    BY <1>1, <1>4, <1>11, <2>1
  <2> QED BY <1>8, <1>9, <1>11, <2>1, <2>2
<1>12. C = 0 => /\ pc = "linked" => Passed = L
                /\ pc = "tree" => Passed = L + T
  BY <1>1, <1>5
<1>13. pc = "linked" \/ pc = "tree"
  BY <1>1
<1> QED
  BY <1>6, <1>7, <1>10, <1>11, <1>12, <1>13, Zenon DEF L, T

LEMMA LookingKeeps ==
  ASSUME SearchInv, Unreadable \/ TryLinked \/ LinkedExhausted \/ TryTree \/ AskRemote
  PROVE  SearchInv'
<1>0. Looking /\ job \in Jobs /\ Len(job.linked) \in Nat /\ Len(job.tree) \in Nat
  BY OfferedAt DEF SearchInv, Looking, Unreadable, TryLinked, LinkedExhausted, TryTree, AskRemote
<1>1. CASE Unreadable
  BY <1>0, <1>1, SearchEnds DEF Unreadable, Fail
<1>2. CASE TryLinked
  <2>1. /\ pc = "linked" /\ job.image.elf /\ candidates # <<>>
        /\ Passed + 1 \in DOMAIN Offered /\ Head(candidates) = Offered[Passed + 1]
        /\ Passed + 1 <= Len(job.linked) /\ ~(Passed + 1 > Len(job.linked) + Len(job.tree))
    BY <1>0, <1>2, PlaceInOffered DEF TryLinked
  <2>2. ~job.image.torn => (LinkAccepts(job.image, Head(candidates)) <=> Usable(Passed + 1))
    BY <2>1, LinkAcceptsUsable DEF Usable
  <2>3. CASE LinkAccepts(job.image, Head(candidates))
    <3>1. ~job.image.torn
      BY <2>3 DEF LinkAccepts, ValidCompanion, SameBuild
    <3>2. job' = job /\ debug' = <<Head(candidates)>> /\ pc' \in {"alternate", "check"}
      BY <1>2, <2>3 DEF TryLinked, ToAlternate
    <3> QED BY <1>0, <2>1, <2>2, <2>3, <3>1, <3>2, SearchEnds
  <2>4. CASE ~LinkAccepts(job.image, Head(candidates))
    BY <1>0, <1>2, <2>1, <2>2, <2>4, PassedOver DEF TryLinked
  <2> QED BY <2>3, <2>4
<1>3. CASE LinkedExhausted
  <2>1. /\ pc = "linked" /\ job.image.elf /\ candidates = <<>> /\ UNCHANGED <<job, debug>>
        /\ Passed = Len(job.linked) /\ debug = <<>>
    BY <1>0, <1>3, PlaceInOffered DEF LinkedExhausted, chosen, SearchInv
  <2>2. CASE job.image.torn
    BY <1>0, <1>3, <2>1, <2>2, SearchEnds DEF LinkedExhausted, Fail
  <2>3. CASE ~job.image.torn /\ job.image.id = <<>>
    <3>1. \A i \in DOMAIN Offered : ~Usable(i)
      BY <1>0, <2>1, <2>3, OfferedAt DEF SearchInv
    <3>2. pc' \in {"alternate", "check"}
      BY <1>3, <2>3 DEF LinkedExhausted, ToAlternate
    <3> QED BY <1>0, <2>1, <3>1, <3>2, SearchEnds
  <2>4. CASE ~job.image.torn /\ job.image.id # <<>>
    <3>1. pc' = "tree" /\ candidates' = job.tree
      BY <1>3, <2>4 DEF LinkedExhausted
    <3>2. Rest(job.tree)' /\ Passed' = Len(job.linked)
      BY <1>0, <2>1, <3>1 DEF Rest, Passed
    <3>3. \A i : Usable(i)' <=> Usable(i)
      BY <2>1 DEF Usable, Offered, Belongs
    <3>4. job.tree \in Seq(Files)
      BY <1>0, Lists
    <3>5. FirstUsableCompanion' /\ ForDebug'
      BY <1>0, <2>1, <3>1 DEF FirstUsableCompanion, SearchInv, ForDebug, Searching
    <3> QED BY <1>0, <2>1, <2>4, <3>1, <3>2, <3>3, <3>4, <3>5 DEF SearchInv, Looking, Files
  <2> QED BY <2>2, <2>3, <2>4
<1>4. CASE TryTree
  <2>1. /\ pc = "tree" /\ candidates # <<>> /\ job.image.elf /\ ~job.image.torn
        /\ Passed + 1 \in DOMAIN Offered /\ Head(candidates) = Offered[Passed + 1]
        /\ ~(Passed + 1 <= Len(job.linked)) /\ ~(Passed + 1 > Len(job.linked) + Len(job.tree))
    BY <1>0, <1>4, PlaceInOffered DEF TryTree, SearchInv
  <2>2. ValidCompanion(job.image, Head(candidates)) <=> Usable(Passed + 1)
    BY <2>1, LinkAcceptsUsable DEF Usable
  <2>3. CASE ValidCompanion(job.image, Head(candidates))
    <3>1. job' = job /\ debug' = <<Head(candidates)>> /\ pc' \in {"alternate", "check"}
      BY <1>4, <2>3 DEF TryTree, ToAlternate
    <3> QED BY <1>0, <2>1, <2>2, <2>3, <3>1, SearchEnds
  <2>4. CASE ~ValidCompanion(job.image, Head(candidates))
    BY <1>0, <1>4, <2>1, <2>2, <2>4, PassedOver DEF TryTree
  <2> QED BY <2>3, <2>4
<1>5. CASE AskRemote
  <2>1. /\ pc = "tree" /\ candidates = <<>> /\ job.image.elf /\ ~job.image.torn
        /\ job.image.id # <<>> /\ Passed = Len(job.linked) + Len(job.tree)
    BY <1>0, <1>5, PlaceInOffered DEF AskRemote, SearchInv
  <2> DEFINE L == Len(job.linked)  T == Len(job.tree)
  <2>a. /\ DOMAIN Offered = 1..L + T + 1 /\ Offered[L + T + 1] = job.remote
        /\ Passed = L + T /\ L \in Nat /\ T \in Nat
    BY <1>0, <2>1, OfferedAt
  <2> HIDE DEF L, T
  <2>2. /\ DOMAIN Offered = 1..Passed + 1 /\ Offered[Passed + 1] = job.remote
        /\ Passed + 1 \in DOMAIN Offered /\ Passed \in Nat
        /\ Passed + 1 > L + T /\ ~(Passed + 1 <= L)
    <3>1. 1 <= L + T + 1 /\ L + T + 1 \in 1..L + T + 1 /\ L + T \in Nat
      BY <2>a
    <3>2. L + T + 1 > L + T /\ ~(L + T + 1 <= L)
      BY <2>a
    <3> QED BY <2>a, <3>1, <3>2
  <2>3. ValidResponse(<<job.image>>, job.image.id, job.remote) <=> Usable(Passed + 1)
    <3>1. Passed + 1 > Len(job.linked) + Len(job.tree) /\ ~(Passed + 1 <= Len(job.linked))
      BY <2>2 DEF L, T
    <3> QED BY <2>1, <2>2, <3>1, ResponseUsable DEF Usable
  <2>4. job' = job /\ pc' \in {"alternate", "check"}
        /\ debug' = IF Usable(Passed + 1) THEN <<job.remote>> ELSE <<>>
    BY <1>5, <2>3 DEF AskRemote, ToAlternate
  <2>5. ~Usable(Passed + 1) => \A i \in DOMAIN Offered : ~Usable(i)
    <3>1. \A i \in DOMAIN Offered : i \in 1..Passed \/ i = Passed + 1
      BY <2>2
    <3> QED BY <1>0, <2>1, <3>1 DEF SearchInv
  <2> QED BY <1>0, <2>1, <2>2, <2>4, <2>5, SearchEnds
<1> QED
  BY <1>1, <1>2, <1>3, <1>4, <1>5

LEMMA SearchNext == SearchInv /\ [Next]_vars => SearchInv'
<1> SUFFICES ASSUME SearchInv, [Next]_vars PROVE SearchInv'
  OBVIOUS
<1>1. CASE UNCHANGED vars
  <2>1. Offered' = Offered /\ Passed' = Passed /\ \A i : Usable(i)' <=> Usable(i)
    BY <1>1 DEF vars, chosen, Usable, Offered, Belongs, Passed
  <2> QED
    BY <1>1, <2>1 DEF vars, chosen, SearchInv, Looking, Rest, Files, FirstUsableCompanion, ForDebug,
                      Searching
<1>2. CASE BadAlternateLink \/ TryAlternate \/ AlternateExhausted \/ TryPackage \/ PackageExhausted
           \/ Check \/ ImportSymbols \/ WithoutSymbols \/ ImportDwarf
  <2>1. /\ UNCHANGED <<job, debug>> /\ pc \notin {"linked", "tree", "failed"}
        /\ pc' \notin {"linked", "tree"}
    BY <1>2 DEF BadAlternateLink, TryAlternate, AlternateExhausted, TryPackage, PackageExhausted, Check,
                ImportSymbols, WithoutSymbols, ImportDwarf, AfterSymbols, ToPackage, Skip, Fail, chosen
  <2>2. Offered' = Offered /\ \A i : Usable(i)' <=> Usable(i)
    BY <2>1 DEF Usable, Offered, Belongs
  <2>3. FirstUsableCompanion'
    BY <2>1, <2>2 DEF SearchInv, FirstUsableCompanion, ForDebug, Searching
  <2> QED BY <2>1, <2>3 DEF SearchInv, Looking
<1> QED
  BY <1>1, <1>2, LookingKeeps DEF Next

LEMMA SearchAlways == Spec => []SearchInv
BY SearchInit, SearchNext, PTL DEF Spec

\* For any lists of candidates and whatever a server answers: the debug file is
\* the first file of those offered that belongs to the image, and none is used
\* only if none belongs.
THEOREM FirstIsTaken == Spec => []FirstUsableCompanion
<1>1. SearchInv => FirstUsableCompanion
  BY DEF SearchInv
<1> QED
  BY <1>1, SearchAlways, PTL

---------------------------------------------------------------------------
(* What ends a conversion from a path.  Every companion it has was found,  *)
(* and what was found has passed the checks that are made again, except    *)
(* that a package may have been built for another architecture.  What is   *)
(* there for DWARF alone is looked for only if DWARF is imported.          *)

FoundDebug == debug = <<>> \/ \E d \in Files : debug = <<d>> /\ ValidCompanion(job.image, d)

FoundSupplementary == supplementary = <<>> \/ Parses(supplementary[1])

FoundPackage == package = <<>> \/ \E p : package = <<p>> /\ Parses(p)

FoundEmbedded == embedded = <<>> \/ embedded = job.embedded

NamedCandidates == pc = "alternate" => candidates \in Seq(Range(DebugSource.alternates))

WantedForDwarf == pc \in {"alternate", "package", "dwarf"} \/ package # <<>> => job.dwarf

Harmless ==
  /\ job.path => /\ FoundDebug /\ FoundSupplementary /\ FoundPackage /\ FoundEmbedded
                 /\ NamedCandidates /\ WantedForDwarf
  /\ CandidatesAreHarmless

HarmInv == SearchInv /\ Harmless

\* The file whose link is followed has a list of candidates.
LEMMA SourceLists ==
  ASSUME job \in Jobs, FoundDebug
  PROVE  DebugSource.alternates \in Seq(Range(DebugSource.alternates))
<1>1. job.image # Missing
  BY ListsAssumption
<1>2. CASE debug = <<>>
  BY <1>1, <1>2, Lists DEF DebugSource
<1>3. ASSUME NEW d \in Files, debug = <<d>>, ValidCompanion(job.image, d)
      PROVE  DebugSource.alternates \in Seq(Range(DebugSource.alternates))
  <2>1. DebugSource = d /\ d # Missing
    BY <1>3 DEF DebugSource, ValidCompanion, Parses
  <2> QED BY <2>1, Lists
<1> QED
  BY <1>2, <1>3 DEF FoundDebug

\* The symbols of a path come from the image, and from its debug file or the
\* embedded one.
LEMMA SourcesOfPath ==
  ASSUME job \in Jobs, job.path, FoundDebug, FoundEmbedded, NEW f \in Range(Sources)
  PROVE  f = job.image \/ f \in Range(debug \o embedded)
<1>1. PICK S : job.image \in S /\ Files \subseteq S /\ Range(job.embedded) \subseteq S
  <2>1. job.image \in {job.image} \cup Files \cup Range(job.embedded)
    OBVIOUS
  <2> QED BY <2>1
<1>e. <<>> \in Seq(S)
  OBVIOUS
<1>2. debug \in Seq(S)
  <2>1. \A d \in Files : <<d>> \in Seq(S)
    BY <1>1
  <2> QED BY <1>e, <2>1, Zenon DEF FoundDebug
<1>3. embedded \in Seq(S)
  <2>1. job.embedded \in Seq(Range(job.embedded))
    BY Lists
  <2>2. Seq(Range(job.embedded)) \subseteq Seq(S)
    BY <1>1
  <2> QED BY <1>e, <2>1, <2>2, Zenon DEF FoundEmbedded
<1>4. \A s, t \in Seq(S) : Range(s \o t) = Range(s) \cup Range(t)
  BY RangeConcatenation
<1>5. GivenSymbols = <<>> /\ Range(<<>>) = {}
  BY PathAssumption DEF GivenSymbols, Range
<1>6. Unless(Separate, GivenSymbols) = Separate
  BY <1>5 DEF Unless
<1>7. Separate \in Seq(S) /\ <<>> \in Seq(S) /\ <<job.image>> \in Seq(S)
  BY <1>1, <1>2, <1>3 DEF Separate
<1>8. Range(GivenSymbols \o Unless(Separate, GivenSymbols)) = Range(Separate)
      /\ GivenSymbols \o Unless(Separate, GivenSymbols) \in Seq(S)
  BY <1>4, <1>5, <1>6, <1>7
<1>9. PICK c \in Seq(S) : c = GivenSymbols \o Unless(Separate, GivenSymbols) /\ Range(c) = Range(Separate)
  BY <1>8
<1>10. Sources = c \o Unless(<<job.image>>, c)
  BY <1>9 DEF Sources
<1>11. Unless(<<job.image>>, c) \in {<<>>, <<job.image>>}
  BY DEF Unless
<1>12. Range(<<job.image>>) = {job.image}
  BY DEF Range
<1>13. f \in Range(Separate) \/ f = job.image
  <2>1. Range(Sources) = Range(c) \cup Range(Unless(<<job.image>>, c))
    <3>1. Unless(<<job.image>>, c) \in Seq(S)
      BY <1>7, <1>11, Zenon
    <3> QED BY <1>4, <1>10, <3>1, Zenon
  <2>2. Range(Unless(<<job.image>>, c)) \subseteq {job.image}
    BY <1>5, <1>11, <1>12, Zenon
  <2> QED BY <1>9, <2>1, <2>2, Zenon
<1>14. Range(Separate) \subseteq Range(debug) \cup Range(embedded)
  BY DEF Separate
<1> QED
  BY <1>2, <1>3, <1>4, <1>13, <1>14

LEMMA HarmInit == Init => HarmInv
<1> SUFFICES ASSUME Init PROVE HarmInv
  OBVIOUS
<1>1. job.path => debug = <<>> /\ supplementary = <<>> /\ package = <<>>
  BY PathAssumption DEF Init
<1>2. embedded = <<>> /\ pc \in {"linked", "check"}
  BY DEF Init
<1> QED
  BY <1>1, <1>2, SearchInit
  DEF HarmInv, Harmless, FoundDebug, FoundSupplementary, FoundPackage, FoundEmbedded, NamedCandidates,
      WantedForDwarf, CandidatesAreHarmless

\* The search for the debug file takes only one that passes for the image's.
LEMMA DebugFound ==
  ASSUME HarmInv, Unreadable \/ TryLinked \/ LinkedExhausted \/ TryTree \/ AskRemote
  PROVE  Harmless'
<1> USE DEF HarmInv
<1>1. /\ Looking /\ candidates \in Seq(Files) /\ job \in Jobs
      /\ UNCHANGED <<job, supplementary, package, embedded>>
  BY DEF SearchInv, Looking, Unreadable, TryLinked, LinkedExhausted, TryTree, AskRemote, Fail, Skip, chosen
<1>2. Files' = Files
  BY <1>1 DEF Files
<1>3. FoundDebug => FoundDebug'
  <2>1. CASE UNCHANGED debug
    BY <1>1, <1>2, <2>1 DEF FoundDebug
  <2>2. CASE (TryLinked \/ TryTree) /\ debug' = <<Head(candidates)>>
             /\ ValidCompanion(job.image, Head(candidates)) /\ candidates # <<>>
    <3>1. Head(candidates) \in Files
      BY <1>1, <2>2, HeadAndTail
    <3> QED BY <1>1, <1>2, <2>2, <3>1 DEF FoundDebug
  <2>3. CASE AskRemote /\ ValidResponse(<<job.image>>, job.image.id, job.remote)
             /\ debug' = <<job.remote>>
    <3>1. ValidCompanion(job.image, job.remote)
      <4>1. job.image \in Range(<<job.image>>)
        BY DEF Range
      <4> QED BY <2>3, <4>1 DEF ValidResponse, ValidCompanion
    <3>2. job.remote \in Files
      BY DEF Files
    <3> QED BY <1>1, <1>2, <2>3, <3>1, <3>2 DEF FoundDebug
  <2>4. CASE AskRemote /\ debug' = <<>>
    BY <2>4 DEF FoundDebug
  <2> QED
    BY <2>1, <2>2, <2>3, <2>4
    DEF Unreadable, TryLinked, LinkedExhausted, TryTree, AskRemote, LinkAccepts, Skip, chosen
<1>4. pc' = "alternate" => candidates' = DebugSource'.alternates
  BY <1>1 DEF Looking, Unreadable, TryLinked, LinkedExhausted, TryTree, AskRemote, ToAlternate, Fail, Skip,
              DebugSource, chosen
<1>5. job' \in Jobs /\ FoundDebug' => (NamedCandidates)'
  <2>1. ASSUME job' \in Jobs, FoundDebug'
        PROVE  DebugSource'.alternates \in Seq(Range(DebugSource'.alternates))
    <3>1. job'.image # Missing
      BY <2>1, ListsAssumption
    <3>2. \A g \in Files' \cup {job'.image} : g # Missing => g.alternates \in Seq(Range(g.alternates))
      BY <1>1, <1>2, Lists
    <3>3. CASE debug' = <<>>
      BY <3>1, <3>2, <3>3 DEF DebugSource
    <3>4. ASSUME NEW d \in Files', debug' = <<d>>, ValidCompanion(job'.image, d)
          PROVE  DebugSource'.alternates \in Seq(Range(DebugSource'.alternates))
      <4>1. DebugSource' = d /\ d # Missing
        BY <3>4 DEF DebugSource, ValidCompanion, Parses
      <4> QED BY <3>2, <4>1
    <3> QED BY <2>1, <3>3, <3>4 DEF FoundDebug
  <2> QED BY <1>4, <2>1 DEF NamedCandidates
<1>6. pc' = "failed" => ~job.image.elf \/ job.image.torn \/ "link" \in job.image.broken
  BY <1>1 DEF Looking, Unreadable, TryLinked, LinkedExhausted, TryTree, AskRemote, ToAlternate, Fail, Skip
<1>7. CandidatesAreHarmless'
  BY <1>1, <1>6 DEF CandidatesAreHarmless, ImageAtFault
<1>8. WantedForDwarf => WantedForDwarf'
  <2>1. pc' \in {"alternate", "package", "dwarf"} => ForDwarf
    BY <1>1 DEF Looking, Unreadable, TryLinked, LinkedExhausted, TryTree, AskRemote, ToAlternate, Fail, Skip
  <2> QED BY <1>1, <2>1 DEF WantedForDwarf, ForDwarf
<1> QED
  BY <1>1, <1>3, <1>5, <1>7, <1>8 DEF Harmless, FoundSupplementary, FoundPackage, FoundEmbedded

\* Looking for the supplementary file ends the conversion only when the link does
\* not parse, or the ID of a candidate cannot be read; what is taken has the ID
\* that was asked for.
LEMMA SupplementaryFound ==
  ASSUME HarmInv, BadAlternateLink \/ TryAlternate \/ AlternateExhausted
  PROVE  Harmless'
<1> USE DEF HarmInv
<1>1. /\ pc = "alternate" /\ UNCHANGED <<job, debug, package, embedded>>
      /\ pc' \in {"alternate", "package", "failed"}
      /\ Files' = Files /\ DebugSource' = DebugSource /\ Expected' = Expected
  BY DEF BadAlternateLink, TryAlternate, AlternateExhausted, Fail, Skip, ToPackage, chosen, Files,
         DebugSource, Expected
<1>2. FoundDebug' <=> FoundDebug
  BY <1>1 DEF FoundDebug
<1>3. FoundSupplementary => FoundSupplementary'
  <2>1. CASE UNCHANGED supplementary
    BY <2>1 DEF FoundSupplementary
  <2>2. CASE Parses(Head(candidates)) /\ supplementary' = <<Head(candidates)>>
    BY <2>2 DEF FoundSupplementary
  <2>3. CASE Parses(job.alternateRemote) /\ supplementary' = <<job.alternateRemote>>
    BY <2>3 DEF FoundSupplementary
  <2>4. CASE supplementary' = <<>>
    BY <2>4 DEF FoundSupplementary
  <2>5. CASE BadAlternateLink
    BY <2>1, <2>5 DEF BadAlternateLink, chosen
  <2>6. CASE TryAlternate
    BY <2>1, <2>2, <2>6 DEF TryAlternate, Skip, chosen
  <2>7. CASE AlternateExhausted
    BY <2>3, <2>4, <2>7 DEF AlternateExhausted, ValidResponse
  <2> QED BY <2>5, <2>6, <2>7
<1>4. NamedCandidates => NamedCandidates'
  <2>1. \/ pc' # "alternate"
        \/ candidates # <<>> /\ candidates' = Tail(candidates)
    BY <1>1 DEF BadAlternateLink, TryAlternate, AlternateExhausted, Fail, Skip, ToPackage
  <2> QED BY <1>1, <2>1, HeadAndTail DEF NamedCandidates
<1>5. WantedForDwarf => WantedForDwarf' /\ job.dwarf
  BY <1>1 DEF WantedForDwarf
<1>6. pc' = "failed" /\ NamedCandidates =>
        \/ "altlink" \in DebugSource.broken
        \/ Expected # <<>> /\ \E f \in Range(DebugSource.alternates) \ {Missing} : f.elf /\ f.torn
  <2> SUFFICES ASSUME pc' = "failed", NamedCandidates, TryAlternate
               PROVE  Expected # <<>> /\ \E f \in Range(DebugSource.alternates) \ {Missing} : f.elf /\ f.torn
    BY <1>1 DEF BadAlternateLink, AlternateExhausted, ToPackage
  <2>1. Expected # <<>> /\ candidates # <<>> /\ Parses(Head(candidates)) /\ Head(candidates).torn
    BY <1>1 DEF TryAlternate, Skip, ToPackage
  <2>2. Head(candidates) \in Range(DebugSource.alternates)
    BY <1>1, <2>1, HeadAndTail DEF NamedCandidates
  <2> QED BY <2>1, <2>2 DEF Parses
<1>7. job'.path => NamedCandidates /\ WantedForDwarf
  BY <1>1 DEF Harmless
<1>8. CandidatesAreHarmless'
  BY <1>1, <1>5, <1>6, <1>7 DEF CandidatesAreHarmless, DwarfAtFault
<1> QED
  BY <1>1, <1>2, <1>3, <1>4, <1>5, <1>8 DEF Harmless, FoundPackage, FoundEmbedded

LEMMA PackageFound ==
  ASSUME HarmInv, TryPackage \/ PackageExhausted
  PROVE  Harmless'
<1>1. /\ pc = "package" /\ pc' \in {"package", "check"}
      /\ UNCHANGED <<job, debug, supplementary, embedded>> /\ Files' = Files
  BY DEF TryPackage, PackageExhausted, Skip, chosen, Files
<1>2. FoundPackage => FoundPackage'
  BY DEF TryPackage, PackageExhausted, Skip, chosen, FoundPackage
<1>3. WantedForDwarf => WantedForDwarf'
  BY <1>1 DEF WantedForDwarf
<1> QED
  BY <1>1, <1>2, <1>3 DEF HarmInv, Harmless, FoundDebug, FoundSupplementary, FoundEmbedded, NamedCandidates,
                          CandidatesAreHarmless

\* What was found is not objected to, but for a package of another architecture.
LEMMA CheckHarmless == ASSUME HarmInv, Check PROVE Harmless'
<1>1. /\ pc = "check" /\ pc' \in {"symbols", "failed"} /\ (pc' = "failed" => Fault # <<>>)
      /\ UNCHANGED <<job, debug, supplementary, package>> /\ Files' = Files
      /\ embedded' \in {<<>>, job.embedded}
  BY DEF Check, Files
<1>2. ASSUME job.path, pc' = "failed"
      PROVE  \/ ImageAtFault
             \/ job.dwarf /\ \E p \in Range(package) : p.arch # job.image.arch
  <2>1. FoundDebug /\ FoundSupplementary /\ FoundPackage /\ WantedForDwarf
    BY <1>2 DEF HarmInv, Harmless
  <2>2. debug # <<>> => ValidCompanion(job.image, debug[1])
    BY <2>1 DEF FoundDebug
  <2>3. package # <<>> => Parses(package[1]) /\ package[1] \in Range(package) /\ job.dwarf
    BY <2>1 DEF FoundPackage, Range, WantedForDwarf
  <2> QED
    BY <1>1, <1>2, <2>1, <2>2, <2>3 DEF Fault, FoundSupplementary, SameArchitecture, ImageAtFault
<1>3. CandidatesAreHarmless'
  BY <1>1, <1>2 DEF CandidatesAreHarmless, ImageAtFault, DwarfAtFault
<1>4. WantedForDwarf => WantedForDwarf'
  BY <1>1 DEF WantedForDwarf
<1> QED
  BY <1>1, <1>3, <1>4 DEF HarmInv, Harmless, FoundDebug, FoundSupplementary, FoundPackage, FoundEmbedded,
                          NamedCandidates

LEMMA ImportHarmless == ASSUME HarmInv, ImportSymbols \/ WithoutSymbols PROVE Harmless'
<1>1. /\ pc = "symbols" /\ pc' \in {AfterSymbols, "failed"} /\ AfterSymbols \in {"dwarf", "done"}
      /\ UNCHANGED <<job, debug, supplementary, package, embedded>> /\ Files' = Files
  BY DEF ImportSymbols, WithoutSymbols, AfterSymbols, Fail, chosen, Files
<1>2. ASSUME job.path, pc' = "failed"
      PROVE  SymbolsAtFault
  <2>1. GivenSymbols = <<>>
    BY <1>2, PathAssumption DEF GivenSymbols, HarmInv, SearchInv
  <2>2. job.symbols /\ \E f \in Range(Sources) : Unplaced(job.image, f)
    BY <1>1, <1>2, <2>1 DEF ImportSymbols, WithoutSymbols
  <2>3. \A f \in Range(Sources) : f = job.image \/ f \in Range(debug \o embedded)
    BY <1>2, SourcesOfPath DEF HarmInv, Harmless, SearchInv
  <2> QED BY <2>2, <2>3 DEF SymbolsAtFault
<1>3. CandidatesAreHarmless'
  BY <1>1, <1>2 DEF CandidatesAreHarmless, SymbolsAtFault
<1>4. WantedForDwarf => WantedForDwarf'
  BY <1>1 DEF WantedForDwarf, AfterSymbols
<1> QED
  BY <1>1, <1>3, <1>4 DEF HarmInv, Harmless, FoundDebug, FoundSupplementary, FoundPackage, FoundEmbedded,
                          NamedCandidates

LEMMA DwarfHarmless == ASSUME HarmInv, ImportDwarf PROVE Harmless'
<1>1. /\ pc = "dwarf" /\ pc' \in {"done", "failed"} /\ (pc' = "failed" => LoadFails \/ UnitsFail)
      /\ UNCHANGED <<job, debug, supplementary, package, embedded>> /\ Files' = Files
  BY DEF ImportDwarf, Fail, chosen, Files
<1>2. ASSUME job.path, pc' = "failed"
      PROVE  DwarfAtFault
  <2>1. job.dwarf
    BY <1>1, <1>2 DEF HarmInv, Harmless, WantedForDwarf
  <2> QED BY <1>1, <1>2, <2>1 DEF LoadFails, UnitsFail, DwarfAtFault
<1>3. DwarfAtFault' <=> DwarfAtFault
  BY <1>1 DEF DwarfAtFault, DebugSource, Expected, ImportedFile, Separate
<1>4. CandidatesAreHarmless'
  BY <1>1, <1>2, <1>3 DEF CandidatesAreHarmless
<1>5. WantedForDwarf => WantedForDwarf'
  BY <1>1 DEF WantedForDwarf
<1> QED
  BY <1>1, <1>4, <1>5 DEF HarmInv, Harmless, FoundDebug, FoundSupplementary, FoundPackage, FoundEmbedded,
                          NamedCandidates

LEMMA HarmNext == HarmInv /\ [Next]_vars => HarmInv'
<1> SUFFICES ASSUME HarmInv, [Next]_vars PROVE HarmInv'
  OBVIOUS
<1>1. SearchInv'
  BY SearchNext DEF HarmInv
<1>2. CASE UNCHANGED vars
  BY <1>1, <1>2 DEF HarmInv, Harmless, vars, chosen, FoundDebug, FoundSupplementary, FoundPackage,
     FoundEmbedded, NamedCandidates, WantedForDwarf, CandidatesAreHarmless, ImageAtFault, SymbolsAtFault,
     DwarfAtFault, ImportedFile, Separate, Expected, DebugSource, Files
<1>3. CASE Next
  BY <1>1, <1>3, DebugFound, SupplementaryFound, PackageFound, CheckHarmless, ImportHarmless, DwarfHarmless
  DEF Next, HarmInv
<1> QED
  BY <1>2, <1>3

\* For any files met on the way: a conversion from a path fails only for the
\* image itself; for a symbol of it, of the debug file or of the embedded one,
\* that has no place; and, if it imports DWARF, for the alternate link of the file
\* chosen, a candidate for the supplementary file whose ID cannot be read, a
\* package of another architecture or whose index does not parse, and the DWARF
\* sections and units of the files it imports from.
THEOREM SearchIsHarmless == Spec => []CandidatesAreHarmless
<1>1. HarmInv => CandidatesAreHarmless
  BY DEF HarmInv, Harmless
<1> QED
  BY <1>1, HarmInit, HarmNext, PTL DEF Spec

---------------------------------------------------------------------------
(* Ranks.  In a finite set with a strict order every element has a rank of *)
(* its own, and every number up to the size of the set is a rank.          *)

Rank(S, R, a) == Cardinality({b \in S : <<b, a>> \in R}) + 1

StrictOrder(S, R) ==
  /\ \A a \in S : <<a, a>> \notin R
  /\ \A a, b \in S : a # b => <<a, b>> \in R \/ <<b, a>> \in R
  /\ \A a, b, c \in S : <<a, b>> \in R /\ <<b, c>> \in R => <<a, c>> \in R

LEMMA RankBelow ==
  ASSUME NEW S, IsFiniteSet(S), NEW R, StrictOrder(S, R), NEW a \in S
  PROVE  /\ IsFiniteSet({b \in S : <<b, a>> \in R})
         /\ Cardinality({b \in S : <<b, a>> \in R}) \in Nat
         /\ Cardinality(S) \in Nat
         /\ Rank(S, R, a) \in 1..Cardinality(S)
<1> DEFINE B == {b \in S : <<b, a>> \in R}
<1>1. B \in SUBSET S /\ B # S
  BY DEF StrictOrder
<1> HIDE DEF B
<1>2. IsFiniteSet(B) /\ Cardinality(B) <= Cardinality(S) /\ Cardinality(B) # Cardinality(S)
  BY <1>1, FS_Subset
<1>3. Cardinality(B) \in Nat /\ Cardinality(S) \in Nat
  BY <1>2, FS_CardinalityType
<1>4. Rank(S, R, a) = Cardinality(B) + 1
  BY DEF Rank, B
<1> QED
  BY <1>2, <1>3, <1>4 DEF B

LEMMA RanksApart ==
  ASSUME NEW S, IsFiniteSet(S), NEW R, StrictOrder(S, R), NEW a \in S, NEW b \in S, a # b
  PROVE  Rank(S, R, a) # Rank(S, R, b)
<1>1. ASSUME NEW x \in S, NEW y \in S, <<x, y>> \in R
      PROVE  Rank(S, R, x) < Rank(S, R, y)
  <2> DEFINE X == {c \in S : <<c, x>> \in R}
             Y == {c \in S : <<c, y>> \in R}
  <2>1. X \in SUBSET Y /\ X # Y
    BY <1>1 DEF StrictOrder
  <2>2. /\ IsFiniteSet(Y) /\ Cardinality(X) \in Nat /\ Cardinality(Y) \in Nat
        /\ Rank(S, R, x) = Cardinality(X) + 1 /\ Rank(S, R, y) = Cardinality(Y) + 1
    BY RankBelow DEF Rank
  <2> HIDE DEF X, Y
  <2>3. Cardinality(X) < Cardinality(Y)
    BY <2>1, <2>2, FS_Subset
  <2> QED BY <2>2, <2>3
<1>2. <<a, b>> \in R \/ <<b, a>> \in R
  BY DEF StrictOrder
<1>3. \A x \in S : Rank(S, R, x) \in 1..Cardinality(S) /\ Cardinality(S) \in Nat
  BY RankBelow
<1> QED
  BY <1>1, <1>2, <1>3

LEMMA RanksTaken ==
  ASSUME NEW S, IsFiniteSet(S), NEW R, StrictOrder(S, R), NEW k \in 1..Cardinality(S)
  PROVE  \E a \in S : Rank(S, R, a) = k
<1> DEFINE n == Cardinality(S)
           ranks == [a \in S |-> Rank(S, R, a)]
<1>1. ranks \in [S -> 1..n]
  BY RankBelow
<1>2. \A a, b \in S : ranks[a] = ranks[b] => a = b
  BY RanksApart
<1>3. n \in Nat /\ IsFiniteSet(1..n) /\ Cardinality(1..n) = n
  BY FS_CardinalityType, FS_Interval
<1> HIDE DEF ranks
<1>4. ranks \in Injection(S, 1..n)
  BY <1>1, <1>2, Fun_IsInj
<1>5. ranks \in Surjection(S, 1..n)
  BY <1>3, <1>4, FS_Injection
<1>6. \E a \in S : ranks[a] = k
  BY <1>5 DEF Surjection
<1> QED
  BY <1>6 DEF ranks

\* The elements of S, in order of rank.
LEMMA Ranked ==
  ASSUME NEW S, IsFiniteSet(S), NEW R, StrictOrder(S, R)
  PROVE  LET at(k) == CHOOSE a \in S : Rank(S, R, a) = k
         IN /\ \A k \in 1..Cardinality(S) : at(k) \in S
            /\ \A a \in S : Rank(S, R, a) \in 1..Cardinality(S) /\ at(Rank(S, R, a)) = a
<1> DEFINE at(k) == CHOOSE a \in S : Rank(S, R, a) = k
<1>1. \A k \in 1..Cardinality(S) : at(k) \in S /\ Rank(S, R, at(k)) = k
  BY RanksTaken
<1>2. \A a \in S : Rank(S, R, a) \in 1..Cardinality(S)
  BY RankBelow
<1> HIDE DEF at
<1>3. \A a \in S : at(Rank(S, R, a)) = a
  BY <1>1, <1>2, RanksApart
<1> QED
  BY <1>1, <1>2, <1>3 DEF at

\* A list at some of its positions has what is there.
LEMMA AtRange ==
  ASSUME NEW list, NEW n \in Nat, NEW P \in SUBSET (1..n)
  PROVE  /\ Range(At(list, P)) = {list[i] : i \in P}
         /\ Len(At(list, P)) \in Nat
         /\ DOMAIN At(list, P) = 1..Len(At(list, P))
<1> DEFINE R == {p \in P \X P : p[1] < p[2]}
           at(k) == CHOOSE i \in P : Rank(P, R, i) = k
           of(k) == CHOOSE i \in P : Cardinality({j \in P : j < i}) + 1 = k
           f == At(list, P)
<1>1. IsFiniteSet(P)
  <2>1. IsFiniteSet(1..n)
    BY FS_Interval
  <2> QED BY <2>1, FS_Subset
<1>2. StrictOrder(P, R)
  BY DEF StrictOrder
<1>3. \A i \in P : {j \in P : <<j, i>> \in R} = {j \in P : j < i}
  OBVIOUS
<1>4. \A i \in P : Rank(P, R, i) = Cardinality({j \in P : j < i}) + 1
  BY <1>3 DEF Rank
<1>5. \A k \in 1..Cardinality(P) : at(k) = of(k)
  BY <1>4
<1>6. f = [k \in 1..Cardinality(P) |-> list[at(k)]]
  <2>1. f = [k \in 1..Cardinality(P) |-> list[of(k)]]
    BY DEF At
  <2> HIDE DEF at, of, f
  <2> QED BY <1>5, <2>1
<1>7. /\ \A k \in 1..Cardinality(P) : at(k) \in P
      /\ \A i \in P : Rank(P, R, i) \in 1..Cardinality(P) /\ at(Rank(P, R, i)) = i
  <2> HIDE DEF R
  <2> QED BY <1>1, <1>2, Ranked
<1> HIDE DEF at, R, f
<1>8. Range(f) = {list[i] : i \in P}
  BY <1>6, <1>7 DEF Range
<1>9. Cardinality(P) \in Nat
  BY <1>1, FS_CardinalityType
<1>10. DOMAIN f = 1..Cardinality(P)
  BY <1>6
<1>11. Len(f) = Cardinality(P)
  BY <1>9, <1>10
<1> QED
  BY <1>8, <1>9, <1>10, <1>11 DEF f

\* Functions as the symbols give them.
Plain == [start : Nat, end : Nat, name : Nat]

\* Functions in order: each of them, once.
LEMMA InOrderRange ==
  ASSUME NEW fs \in SUBSET Plain, IsFiniteSet(fs)
  PROVE  /\ Range(InOrder(fs)) = fs
         /\ Len(InOrder(fs)) = Cardinality(fs)
<1> DEFINE R == {p \in fs \X fs : Before(p[1], p[2])}
           at(k) == CHOOSE f \in fs : Rank(fs, R, f) = k
           o == InOrder(fs)
<1>1. StrictOrder(fs, R)
  <2>1. \A f \in fs : ~Before(f, f)
    BY DEF Before, Plain
  <2>2. \A f, g \in fs : f # g => Before(f, g) \/ Before(g, f)
    BY DEF Before, Plain
  <2>3. \A f, g, h \in fs : Before(f, g) /\ Before(g, h) => Before(f, h)
    BY DEF Before, Plain
  <2> QED BY <2>1, <2>2, <2>3 DEF StrictOrder
<1>2. \A f \in fs : {g \in fs : <<g, f>> \in R} = {g \in fs : Before(g, f)}
  OBVIOUS
<1>3. \A f \in fs : Rank(fs, R, f) = Cardinality({g \in fs : Before(g, f)}) + 1
  BY <1>2 DEF Rank
<1>4. \A k \in 1..Cardinality(fs) :
        at(k) = CHOOSE f \in fs : Cardinality({g \in fs : Before(g, f)}) + 1 = k
  BY <1>3
<1>5. o = [k \in 1..Cardinality(fs) |-> at(k)]
  BY <1>4 DEF InOrder
<1>6. /\ \A k \in 1..Cardinality(fs) : at(k) \in fs
      /\ \A f \in fs : Rank(fs, R, f) \in 1..Cardinality(fs) /\ at(Rank(fs, R, f)) = f
  <2> HIDE DEF R
  <2> QED BY <1>1, Ranked
<1> HIDE DEF at, R, o
<1>7. Range(o) = fs
  BY <1>5, <1>6 DEF Range
<1>8. Cardinality(fs) \in Nat /\ DOMAIN o = 1..Cardinality(fs)
  BY <1>5, FS_CardinalityType
<1>9. Len(o) = Cardinality(fs)
  BY <1>8
<1> QED
  BY <1>7, <1>9 DEF o

---------------------------------------------------------------------------
(* What the symbols of a file give: functions with numbers for ranges. *)

LEMMA ImageOfFinite ==
  ASSUME NEW P, IsFiniteSet(P), NEW f, DOMAIN f = P
  PROVE  IsFiniteSet({f[x] : x \in P})
<1> DEFINE T == {f[x] : x \in P}
           g == [x \in P |-> f[x]]
<1>1. g \in Surjection(P, T)
  BY DEF Surjection
<1> HIDE DEF g, T
<1>2. IsFiniteSet(T)
  BY <1>1, FS_Surjection
<1> QED
  BY <1>2 DEF T

LEMMA ListTyped ==
  ASSUME NEW S, NEW s \in Seq(S)
  PROVE  Len(s) \in Nat /\ DOMAIN s = 1..Len(s) /\ \A i \in DOMAIN s : s[i] \in S
OBVIOUS

\* What the assumption says of a file of the job.
LEMMA FileTyped ==
  ASSUME job \in Jobs, NEW file \in SymbolFiles(job)
  PROVE  /\ file.sections \in Seq(Sections) /\ file.static \in Seq(Symbols) /\ file.dynamic \in Seq(Symbols)
         /\ job.image \in SymbolFiles(job)
BY SymbolsAssumption, ListsAssumption DEF SymbolFiles

LEMMA AlignedUp == ASSUME NEW a \in Nat PROVE AlignUp(a) \in Nat
<1>1. Unit \in Nat \ {0}
  BY UnitAssumption
<1>2. (a + Unit - 1) \div Unit \in Nat
  BY <1>1
<1>3. \A m, n \in Nat : m * n \in Nat
  OBVIOUS
<1> QED
  BY <1>1, <1>2, <1>3 DEF AlignUp

LEMMA OccupiedFinite ==
  ASSUME NEW file, file.sections \in Seq(Sections), NEW s
  PROVE  IsFiniteSet(Occupied(file, s))
<1> DEFINE P == PlacedBefore(file, s)
           part == [t \in P |-> {t} \X (0..AlignUp(file.sections[t].size) - 1)]
<1>1. P \subseteq 1..Len(file.sections) /\ Len(file.sections) \in Nat
  BY DEF PlacedBefore
<1>2. IsFiniteSet(P)
  <2>1. IsFiniteSet(1..Len(file.sections))
    BY <1>1, FS_Interval
  <2> QED BY <1>1, <2>1, FS_Subset
<1>3. ASSUME NEW t \in P PROVE IsFiniteSet(part[t])
  <2>1. file.sections[t].size \in Nat
    <3>1. file.sections[t] \in Sections
      BY ListTyped DEF PlacedBefore
    <3> QED BY <3>1 DEF Sections
  <2>2. AlignUp(file.sections[t].size) \in Nat
    BY <2>1, AlignedUp
  <2>3. IsFiniteSet(0..AlignUp(file.sections[t].size) - 1)
    BY <2>2, FS_Interval
  <2>4. IsFiniteSet({t})
    BY FS_Singleton
  <2> QED BY <2>3, <2>4, FS_Product
<1>4. IsFiniteSet({part[t] : t \in P})
  <2>1. DOMAIN part = P
    OBVIOUS
  <2> HIDE DEF part, P
  <2> QED BY <1>2, <2>1, ImageOfFinite
<1>5. IsFiniteSet(UNION {part[t] : t \in P})
  <2> HIDE DEF part, P
  <2>1. \A T \in {part[t] : t \in P} : IsFiniteSet(T)
    BY <1>3
  <2> QED BY <1>4, <2>1, FS_UNION
<1>6. UNION {part[t] : t \in P} = Occupied(file, s)
  BY DEF Occupied
<1> QED
  BY <1>5, <1>6

LEMMA BaseTyped ==
  ASSUME job \in Jobs, NEW file \in SymbolFiles(job), NEW s \in DOMAIN file.sections
  PROVE  BaseOf(job.image, file, s) \in Seq(Nat)
<1>1. IsFiniteSet(Occupied(job.image, s))
  BY FileTyped, OccupiedFinite
<1>2. Cardinality(Occupied(job.image, s)) \in Nat
  BY <1>1, FS_CardinalityType
<1>3. SectionBase(job.image, s) \in Seq(Nat)
  BY <1>2 DEF SectionBase
<1>4. file.sections[s].address \in Nat
  <2>1. file.sections[s] \in Sections
    BY FileTyped, ListTyped
  <2> QED BY <2>1 DEF Sections
<1> QED
  BY <1>3, <1>4 DEF BaseOf

LEMMA EligibleTyped ==
  ASSUME job \in Jobs, NEW file \in SymbolFiles(job)
  PROVE  /\ Len(Eligible(job.image, file)) \in Nat
         /\ DOMAIN Eligible(job.image, file) = 1..Len(Eligible(job.image, file))
         /\ \A s \in Range(Eligible(job.image, file)) :
              s \in Symbols /\ Start(job.image, file, s) \in Seq(Nat)
<1> DEFINE all == file.static \o file.dynamic
           P == {i \in DOMAIN all : all[i].text /\ (job.image.relocatable => all[i].section # <<>>)}
           e == Eligible(job.image, file)
<1>1. /\ file.static \in Seq(Symbols) /\ file.dynamic \in Seq(Symbols)
  BY FileTyped
<1>2. /\ all \in Seq(Symbols) /\ DOMAIN all = 1..Len(all) /\ Len(all) \in Nat
      /\ \A i \in DOMAIN all : all[i] \in Symbols
  <2>1. all \in Seq(Symbols)
    BY <1>1, ConcatProperties
  <2> HIDE DEF all
  <2> QED BY <2>1, ListTyped
<1>3. \A i \in DOMAIN all : all[i] \in Range(file.static) \cup Range(file.dynamic)
  <2>1. Range(all) = Range(file.static) \cup Range(file.dynamic)
    BY <1>1, RangeConcatenation
  <2> QED BY <2>1 DEF Range
<1>4. e = At(all, P)
  BY DEF Eligible, Filtered
<1>5. /\ Len(e) \in Nat /\ DOMAIN e = 1..Len(e) /\ Range(e) = {all[i] : i \in P}
  <2>1. P \in SUBSET (1..Len(all))
    BY <1>2
  <2> HIDE DEF all, P, e
  <2> QED BY <1>2, <1>4, <2>1, AtRange
<1>6. ASSUME NEW s \in Range(e) PROVE s \in Symbols /\ Start(job.image, file, s) \in Seq(Nat)
  <2>1. /\ s \in Symbols /\ s \in Range(file.static) \cup Range(file.dynamic)
        /\ job.image.relocatable => s.section # <<>>
    <3> HIDE DEF all, e
    <3> QED BY <1>2, <1>3, <1>5
  <2>2. s.section[1] \in DOMAIN file.sections => BaseOf(job.image, file, s.section[1]) \in Seq(Nat)
    BY BaseTyped
  <2>3. s.address \in Nat
    BY <2>1 DEF Symbols
  <2> DEFINE base == IF ~job.image.relocatable THEN <<0>>
                     ELSE IF s.section[1] \in DOMAIN file.sections THEN BaseOf(job.image, file, s.section[1])
                     ELSE <<>>
  <2>4. base \in Seq(Nat)
    BY <2>2
  <2> HIDE DEF base
  <2>5. [i \in DOMAIN base |-> base[i] + s.address] \in Seq(Nat)
    BY <2>3, <2>4
  <2> QED BY <2>1, <2>5 DEF Start, base
<1> QED
  BY <1>5, <1>6

\* The functions of a file whose symbols all have a place.
LEMMA VisitedTyped ==
  ASSUME job \in Jobs, NEW file \in SymbolFiles(job), ~Unplaced(job.image, file)
  PROVE  /\ Len(Visited(job.image, file)) \in Nat
         /\ DOMAIN Visited(job.image, file) = 1..Len(Visited(job.image, file))
         /\ Range(Visited(job.image, file)) \in SUBSET Plain
         /\ IsFiniteSet(Range(Visited(job.image, file)))
<1> DEFINE e == Eligible(job.image, file)
           P == {i \in DOMAIN e : e[i].named}
           named == At(e, P)
           v == Visited(job.image, file)
<1>1. /\ Len(e) \in Nat /\ DOMAIN e = 1..Len(e)
      /\ \A s \in Range(e) : s \in Symbols /\ Start(job.image, file, s) \in Seq(Nat)
  BY EligibleTyped
<1>2. \A s \in Range(e) : Start(job.image, file, s) # <<>>
  BY DEF Unplaced
<1>3. /\ Len(named) \in Nat /\ DOMAIN named = 1..Len(named) /\ Range(named) \subseteq Range(e)
  <2>1. P \in SUBSET (1..Len(e))
    BY <1>1
  <2>2. Range(named) = {e[i] : i \in P} /\ Len(named) \in Nat /\ DOMAIN named = 1..Len(named)
    <3> HIDE DEF e, P
    <3> QED BY <1>1, <2>1, AtRange
  <2>3. {e[i] : i \in P} \subseteq Range(e)
    BY DEF Range
  <2> HIDE DEF named, e, P
  <2> QED BY <2>2, <2>3
<1>4. v = [i \in DOMAIN named |->
             [start |-> Start(job.image, file, named[i])[1],
              end |-> Start(job.image, file, named[i])[1] + named[i].size, name |-> named[i].name]]
  BY DEF Visited, Filtered
<1> HIDE DEF e, P, named, v
<1>5. ASSUME NEW i \in DOMAIN named PROVE v[i] \in Plain
  <2>1. named[i] \in Symbols /\ Start(job.image, file, named[i]) \in Seq(Nat)
        /\ Start(job.image, file, named[i]) # <<>>
    BY <1>1, <1>2, <1>3 DEF Range
  <2>2. Start(job.image, file, named[i])[1] \in Nat
    BY <2>1
  <2>3. named[i].size \in Nat /\ named[i].name \in Nat
    BY <2>1 DEF Symbols
  <2> QED BY <1>4, <2>2, <2>3 DEF Plain
<1>6. DOMAIN v = 1..Len(named) /\ Len(v) = Len(named)
  BY <1>3, <1>4
<1>7. Range(v) \in SUBSET Plain
  BY <1>3, <1>5, <1>6 DEF Range
<1>8. IsFiniteSet(Range(v))
  <2>1. IsFiniteSet(1..Len(named))
    BY <1>3, FS_Interval
  <2>2. IsFiniteSet({v[x] : x \in 1..Len(named)})
    BY <1>6, <2>1, ImageOfFinite
  <2> QED BY <1>6, <2>2 DEF Range
<1> QED
  BY <1>3, <1>6, <1>7, <1>8 DEF v

---------------------------------------------------------------------------
(* The sources.  Leaving out a file whose bytes are there already loses    *)
(* nothing, since the same bytes are the same file.                        *)

OptionIn(option, F) == option = <<>> \/ \E x \in F : option = <<x>>

LEMMA UnlessAdds ==
  ASSUME NEW F, \A f, g \in F : f.key = g.key => f = g,
         NEW others \in Seq(F), NEW option, OptionIn(option, F)
  PROVE  /\ others \o Unless(option, others) \in Seq(F)
         /\ Range(others \o Unless(option, others)) = Range(others) \cup Range(option)
<1>1. Range(<<>>) = {} /\ <<>> \in Seq(F)
  BY DEF Range
<1>2. CASE option = <<>>
  <2>1. Unless(option, others) = <<>>
    BY <1>2 DEF Unless
  <2>2. Range(others \o <<>>) = Range(others) \cup Range(<<>>) /\ others \o <<>> \in Seq(F)
    BY <1>1, ConcatProperties, RangeConcatenation
  <2> QED BY <1>1, <1>2, <2>1, <2>2
<1>3. ASSUME NEW x \in F, option = <<x>>
      PROVE  /\ others \o Unless(option, others) \in Seq(F)
             /\ Range(others \o Unless(option, others)) = Range(others) \cup Range(option)
  <2>1. Range(option) = {x} /\ option \in Seq(F) /\ option # <<>> /\ option[1] = x
    BY <1>3 DEF Range
  <2>2. CASE \E f \in Range(others) : f.key = x.key
    <3>1. Unless(option, others) = <<>>
      BY <2>1, <2>2 DEF Unless
    <3>2. Range(others) \in SUBSET F
      BY RangeOfSeq
    <3>3. x \in Range(others)
      BY <2>2, <3>2
    <3>4. Range(others \o <<>>) = Range(others) \cup Range(<<>>) /\ others \o <<>> \in Seq(F)
      BY <1>1, ConcatProperties, RangeConcatenation
    <3> QED BY <1>1, <2>1, <3>1, <3>3, <3>4
  <2>3. CASE ~\E f \in Range(others) : f.key = x.key
    <3>1. Unless(option, others) = option
      BY <2>1, <2>3 DEF Unless
    <3> QED BY <2>1, <3>1, ConcatProperties, RangeConcatenation
  <2> QED BY <2>2, <2>3
<1> QED
  BY <1>2, <1>3 DEF OptionIn

SourcesKnown ==
  /\ job \in Jobs
  /\ \A option \in {debug, embedded, GivenSymbols} : OptionIn(option, SymbolFiles(job))

LEMMA SourcesAre ==
  ASSUME SourcesKnown
  PROVE  /\ Sources \in Seq(SymbolFiles(job))
         /\ Range(Sources) = Range(GivenSymbols \o Separate) \cup {job.image}
<1> DEFINE F == SymbolFiles(job)
           companions == GivenSymbols \o Unless(Separate, GivenSymbols)
<1>1. \A f, g \in F : f.key = g.key => f = g
  BY SymbolsAssumption DEF SourcesKnown
<1>2. OptionIn(Separate, F) /\ OptionIn(GivenSymbols, F) /\ OptionIn(<<job.image>>, F)
  BY ListsAssumption DEF SourcesKnown, Separate, OptionIn, SymbolFiles
<1> HIDE DEF F
<1>3. GivenSymbols \in Seq(F) /\ Separate \in Seq(F)
  <2>1. <<>> \in Seq(F) /\ \A x \in F : <<x>> \in Seq(F)
    OBVIOUS
  <2> QED BY <1>2, <2>1, Zenon DEF OptionIn
<1>4. companions \in Seq(F) /\ Range(companions) = Range(GivenSymbols) \cup Range(Separate)
  BY <1>1, <1>2, <1>3, UnlessAdds
<1>5. Sources = companions \o Unless(<<job.image>>, companions)
  BY DEF Sources
<1>6. Sources \in Seq(F) /\ Range(Sources) = Range(companions) \cup Range(<<job.image>>)
  <2> DEFINE own == <<job.image>>
  <2>1. OptionIn(own, F) /\ Sources = companions \o Unless(own, companions)
    BY <1>2, <1>5
  <2> HIDE DEF own, companions
  <2>2. Sources \in Seq(F) /\ Range(Sources) = Range(companions) \cup Range(own)
    BY <1>1, <1>4, <2>1, UnlessAdds
  <2> QED BY <2>2 DEF own
<1>7. Range(<<job.image>>) = {job.image}
  BY DEF Range
<1>8. Range(GivenSymbols \o Separate) = Range(GivenSymbols) \cup Range(Separate)
  BY <1>3, RangeConcatenation
<1> QED
  BY <1>4, <1>6, <1>7, <1>8 DEF F

FoundIn(list) == UNION {Range(Visited(job.image, f)) : f \in Range(list)}

\* The functions collected are those found that may be imported, or those that
\* may not, and each is there once if there are several sources.
LEMMA CollectedAre ==
  ASSUME job \in Jobs, Sources \in Seq(SymbolFiles(job)),
         \A f \in Range(Sources) : ~Unplaced(job.image, f), NEW importable \in BOOLEAN
  PROVE  LET part == {f \in FoundIn(Sources) : Importable(job.image, f) = importable}
         IN /\ Range(Collected(importable)) = part
            /\ Len(Sources) # 1 => Len(Collected(importable)) = Cardinality(part)
<1> DEFINE part == {f \in FoundIn(Sources) : Importable(job.image, f) = importable}
<1>1. Range(Sources) \in SUBSET SymbolFiles(job)
  BY RangeOfSeq
<1>2. CASE Len(Sources) = 1
  <2> DEFINE v == Visited(job.image, Sources[1])
             P == {i \in DOMAIN v : Importable(job.image, v[i]) = importable}
  <2>1. DOMAIN Sources = {1}
    <3>1. DOMAIN Sources = 1..1
      BY <1>2, ListTyped
    <3> QED BY <3>1
  <2>2. Range(Sources) = {Sources[1]}
    BY <2>1 DEF Range
  <2>3. FoundIn(Sources) = Range(v)
    BY <2>2 DEF FoundIn
  <2>4. Len(v) \in Nat /\ DOMAIN v = 1..Len(v)
    BY <1>1, <2>2, VisitedTyped
  <2>5. Collected(importable) = At(v, P)
    BY <1>2 DEF Collected, Filtered
  <2>6. Range(At(v, P)) = {v[i] : i \in P}
    <3>1. P \in SUBSET (1..Len(v))
      BY <2>4
    <3> HIDE DEF v, P
    <3> QED BY <2>4, <3>1, AtRange
  <2>7. {v[i] : i \in P} = part
    <3> HIDE DEF v
    <3> QED BY <2>3 DEF Range
  <2> HIDE DEF v, P, part
  <2> QED BY <1>2, <2>5, <2>6, <2>7 DEF part
<1>3. CASE Len(Sources) # 1
  <2> DEFINE visited == [f \in Range(Sources) |-> Range(Visited(job.image, f))]
  <2>1. IsFiniteSet(Range(Sources))
    <3>1. Len(Sources) \in Nat /\ DOMAIN Sources = 1..Len(Sources)
      BY ListTyped
    <3>2. IsFiniteSet(DOMAIN Sources)
      BY <3>1, FS_Interval
    <3>3. IsFiniteSet({Sources[i] : i \in DOMAIN Sources})
      BY <3>2, ImageOfFinite
    <3> QED BY <3>3 DEF Range
  <2>2. \A f \in Range(Sources) : visited[f] \in SUBSET Plain /\ IsFiniteSet(visited[f])
    BY <1>1, VisitedTyped
  <2>3. FoundIn(Sources) = UNION {visited[f] : f \in Range(Sources)}
    BY DEF FoundIn
  <2>4. DOMAIN visited = Range(Sources)
    OBVIOUS
  <2> HIDE DEF visited
  <2>5. IsFiniteSet({visited[f] : f \in Range(Sources)})
    BY <2>1, <2>4, ImageOfFinite
  <2>6. IsFiniteSet(UNION {visited[f] : f \in Range(Sources)})
    <3>1. \A T \in {visited[f] : f \in Range(Sources)} : IsFiniteSet(T)
      BY <2>2
    <3> QED BY <2>5, <3>1, FS_UNION
  <2>7. part \in SUBSET FoundIn(Sources) /\ part \in SUBSET Plain
    BY <2>2, <2>3
  <2> HIDE DEF part
  <2>8. IsFiniteSet(part)
    BY <2>3, <2>6, <2>7, FS_Subset
  <2>9. Collected(importable) = InOrder(part)
    BY <1>3 DEF Collected, part, FoundIn
  <2>10. Range(InOrder(part)) = part /\ Len(InOrder(part)) = Cardinality(part)
    BY <2>7, <2>8, InOrderRange
  <2> QED BY <2>9, <2>10 DEF part
<1> QED
  BY <1>2, <1>3

---------------------------------------------------------------------------
(* What was given is kept, and the symbols are the union. *)

GivenKept == ~job.path => debug = job.explicit.debug /\ FoundEmbedded

UnionInv == HarmInv /\ BuildInv /\ GivenKept /\ SymbolsAreUnion

LEMMA UnionInit == Init => UnionInv
BY HarmInit, BuildInit DEF Init, UnionInv, GivenKept, FoundEmbedded, SymbolsAreUnion

LEMMA GivenKeeps == ASSUME HarmInv, GivenKept, [Next]_vars PROVE GivenKept'
<1>1. job' = job
  BY DEF Next, vars, Unreadable, TryLinked, LinkedExhausted, TryTree, AskRemote, TryAlternate,
         BadAlternateLink, AlternateExhausted, TryPackage, PackageExhausted, Check, ImportSymbols,
         WithoutSymbols, ImportDwarf, Fail, Skip
<1>2. CASE Unreadable \/ TryLinked \/ LinkedExhausted \/ TryTree \/ AskRemote
  <2>1. job.path
    BY <1>2 DEF Unreadable, TryLinked, LinkedExhausted, TryTree, AskRemote, HarmInv, SearchInv, Looking,
                ForDebug, Searching
  <2> QED BY <1>1, <2>1 DEF GivenKept
<1>3. CASE BadAlternateLink \/ TryAlternate \/ AlternateExhausted \/ TryPackage \/ PackageExhausted
  BY <1>1, <1>3 DEF GivenKept, FoundEmbedded, BadAlternateLink, TryAlternate, AlternateExhausted, TryPackage,
                    PackageExhausted, Fail, Skip, chosen
<1>4. CASE Check
  BY <1>1, <1>4 DEF GivenKept, FoundEmbedded, Check
<1>5. CASE ImportSymbols \/ WithoutSymbols \/ ImportDwarf
  BY <1>1, <1>5 DEF GivenKept, FoundEmbedded, ImportSymbols, WithoutSymbols, ImportDwarf, Fail, chosen
<1>6. CASE UNCHANGED vars
  BY <1>6 DEF vars, chosen, GivenKept, FoundEmbedded
<1> QED
  BY <1>2, <1>3, <1>4, <1>5, <1>6 DEF Next

\* When the symbols are imported the sources are files of the job.
LEMMA SourcesVouched ==
  ASSUME HarmInv, BuildInv, GivenKept, pc = "symbols",
         GivenSymbols = <<>> \/ ValidCompanion(job.image, GivenSymbols[1])
  PROVE  SourcesKnown
<1> DEFINE F == SymbolFiles(job)
<1>1. job \in Jobs /\ Acceptable(debug) /\ Acceptable(embedded) /\ Acceptable(GivenSymbols)
  BY DEF BuildInv, Vouched, Acceptable
<1>2. \A x : ValidCompanion(job.image, x) => x # Missing
  BY DEF ValidCompanion, Parses
<1>3. \A option \in {job.explicit.debug, GivenSymbols, job.embedded} :
        option = <<>> \/ option = <<option[1]>>
  BY <1>1, SymbolsAssumption DEF GivenSymbols
<1>4. \A x : Range(<<x>>) = {x}
  BY DEF Range
<1>5. \A option \in {job.explicit.debug, GivenSymbols, job.embedded} :
        Acceptable(option) => OptionIn(option, F)
  <2> SUFFICES ASSUME NEW option \in {job.explicit.debug, GivenSymbols, job.embedded},
                      Acceptable(option), option # <<>>
               PROVE  OptionIn(option, F)
    BY DEF OptionIn
  <2>1. option = <<option[1]>> /\ option[1] # Missing
    BY <1>2, <1>3 DEF Acceptable
  <2>2. option[1] \in Range(option)
    BY <1>4, <2>1
  <2>3. option[1] \in F
    BY <2>1, <2>2 DEF SymbolFiles, GivenSymbols
  <2> QED BY <2>1, <2>3 DEF OptionIn
<1>6. OptionIn(GivenSymbols, F)
  BY <1>1, <1>5
<1>7. FoundEmbedded
  BY DEF HarmInv, Harmless, GivenKept
<1>8. OptionIn(embedded, F)
  BY <1>1, <1>5, <1>7 DEF FoundEmbedded, OptionIn
<1>9. OptionIn(debug, F)
  <2>1. CASE job.path
    <3>1. FoundDebug
      BY <2>1 DEF HarmInv, Harmless
    <3>2. Files \ {Missing} \subseteq F
      BY DEF Files, SymbolFiles
    <3> QED BY <1>2, <3>1, <3>2 DEF FoundDebug, OptionIn
  <2>2. CASE ~job.path
    <3>1. debug = job.explicit.debug
      BY <2>2 DEF GivenKept
    <3> QED BY <1>1, <1>5, <3>1
  <2> QED BY <2>1, <2>2
<1> QED
  BY <1>1, <1>6, <1>8, <1>9 DEF SourcesKnown

LEMMA ImportIsUnion ==
  ASSUME HarmInv, BuildInv, GivenKept, ImportSymbols
  PROVE  SymbolsAreUnion'
<1> SUFFICES ASSUME pc' \in {"dwarf", "done"}, job.symbols
             PROVE  SymbolsAreUnion'
  BY DEF ImportSymbols, SymbolsAreUnion
<1>1. /\ pc = "symbols" /\ UNCHANGED <<job, debug, embedded>>
      /\ GivenSymbols = <<>> \/ ValidCompanion(job.image, GivenSymbols[1])
      /\ \A f \in Range(Sources) : ~Unplaced(job.image, f)
      /\ functions' = Collected(TRUE)
      /\ counts' = [imported |-> Len(Collected(TRUE)), rejected |-> Len(Collected(FALSE))]
  BY DEF ImportSymbols, Fail, chosen
<1>2. SourcesKnown
  BY <1>1, SourcesVouched
<1>3. /\ job \in Jobs /\ Sources \in Seq(SymbolFiles(job))
      /\ Range(Sources) = Range(GivenSymbols \o Separate) \cup {job.image}
  BY <1>2, SourcesAre DEF SourcesKnown
<1> DEFINE files == Range(job.explicit.symbols \o (IF debug # <<>> THEN debug ELSE embedded)) \cup {job.image}
           found == UNION {Range(Visited(job.image, f)) : f \in files}
           inside == {f \in found : \E r \in Ranges(job.image) : f.start >= r.start /\ f.end <= r.end
                                                                /\ f.end - f.start <= MaxSize}
<1>0. files' = files /\ found' = found /\ inside' = inside
  BY <1>1
<1>4. files = Range(Sources)
  BY <1>3 DEF GivenSymbols, Separate
<1>5. found = FoundIn(Sources)
  BY <1>4 DEF FoundIn
<1> HIDE DEF files
<1>6. inside = {f \in found : Importable(job.image, f) = TRUE}
  <2>0. found \in SUBSET Plain
    <3>1. Range(Sources) \in SUBSET SymbolFiles(job)
      BY <1>3, RangeOfSeq
    <3>2. \A f \in files : Range(Visited(job.image, f)) \in SUBSET Plain
      BY <1>1, <1>3, <1>4, <3>1, VisitedTyped
    <3> QED BY <3>2
  <2>1. \A f \in found :
          (\E r \in Ranges(job.image) : f.start >= r.start /\ f.end <= r.end /\ f.end - f.start <= MaxSize)
          <=> Importable(job.image, f)
    BY DEF Importable
  <2>2. \A f : Importable(job.image, f) \in BOOLEAN
    BY DEF Importable
  <2> HIDE DEF found
  <2> QED BY <2>1, <2>2
<1> HIDE DEF found
<1>7. found \ inside = {f \in found : Importable(job.image, f) = FALSE}
  <2>1. \A f : Importable(job.image, f) \in BOOLEAN
    BY DEF Importable
  <2> QED BY <1>6, <2>1
<1> HIDE DEF inside
<1>8. /\ Range(Collected(TRUE)) = inside
      /\ Len(Sources) # 1 => /\ Len(Collected(TRUE)) = Cardinality(inside)
                             /\ Len(Collected(FALSE)) = Cardinality(found \ inside)
  BY <1>1, <1>3, <1>5, <1>6, <1>7, CollectedAre
<1>9. Cardinality({f.key : f \in files}) > 1 => Len(Sources) # 1
  <2> SUFFICES ASSUME Len(Sources) = 1 PROVE ~(Cardinality({f.key : f \in files}) > 1)
    OBVIOUS
  <2>1. DOMAIN Sources = {1}
    <3>1. DOMAIN Sources = 1..1
      BY <1>3, ListTyped
    <3> QED BY <3>1
  <2>2. files = {Sources[1]}
    BY <1>4, <2>1 DEF Range
  <2>3. {f.key : f \in files} = {Sources[1].key}
    BY <2>2
  <2>4. Cardinality({Sources[1].key}) = 1
    BY FS_Singleton
  <2> QED BY <2>3, <2>4
<1> QED
  <2>1. Range(functions') = inside'
    BY <1>0, <1>1, <1>8
  <2>2. Cardinality({f.key : f \in files'}) > 1 =>
          counts' = [imported |-> Cardinality(inside'), rejected |-> Cardinality(found' \ inside')]
    BY <1>0, <1>1, <1>8, <1>9
  <2> QED BY <2>1, <2>2 DEF SymbolsAreUnion, files, found, inside

LEMMA UnionNext == UnionInv /\ [Next]_vars => UnionInv'
<1> SUFFICES ASSUME UnionInv, [Next]_vars PROVE UnionInv'
  OBVIOUS
<1>1. HarmInv' /\ BuildInv' /\ GivenKept'
  BY HarmNext, BuildNext, GivenKeeps DEF UnionInv
<1>2. SymbolsAreUnion'
  <2>1. CASE ImportSymbols
    BY <2>1, ImportIsUnion DEF UnionInv
  <2>2. CASE WithoutSymbols
    BY <2>2 DEF WithoutSymbols, SymbolsAreUnion
  <2>3. CASE UNCHANGED vars
    BY <2>3 DEF UnionInv, vars, chosen, SymbolsAreUnion
  <2>4. CASE Next /\ ~ImportSymbols /\ ~WithoutSymbols /\ ~ImportDwarf
    <3>1. pc' \notin {"dwarf", "done"}
      BY <2>4 DEF Next, Unreadable, TryLinked, LinkedExhausted, TryTree, AskRemote, BadAlternateLink,
         TryAlternate, AlternateExhausted, TryPackage, PackageExhausted, Check, ToAlternate, ToPackage, Fail, Skip
    <3> QED BY <3>1 DEF SymbolsAreUnion
  <2>5. CASE ImportDwarf
    <3>1. pc = "dwarf" /\ UNCHANGED <<job, debug, embedded, functions, counts>>
      BY <2>5 DEF ImportDwarf, chosen
    <3>2. SymbolsAreUnion
      BY DEF UnionInv
    <3> QED BY <3>1, <3>2 DEF SymbolsAreUnion
  <2> QED BY <2>1, <2>2, <2>3, <2>4, <2>5
<1> QED
  BY <1>1, <1>2 DEF UnionInv

\* For any symbol tables and sections, given or found: what is imported is what
\* the image and its companions hold inside the executable ranges, each function
\* once when there are several files, and all else is counted as rejected.
THEOREM UnionOfSymbols == Spec => []SymbolsAreUnion
<1>1. UnionInv => SymbolsAreUnion
  BY DEF UnionInv
<1> QED
  BY <1>1, UnionInit, UnionNext, PTL DEF Spec

=============================================================================
