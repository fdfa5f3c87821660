------------------------- MODULE FunctionTable_proofs -------------------------
(***************************************************************************)
(* The table of a builder, for any functions, any number of them and any   *)
(* order they are added in.                                                *)
(***************************************************************************)
EXTENDS FunctionTable, FunctionTheorems, FiniteSetTheorems, SequenceTheorems,
        WellFoundedInduction, TLAPS

(* Keys.  The functions of a table are told apart by a lexicographic order. *)

Keys(n) == [1..n -> Int]

LEMMA LeastOf ==
  ASSUME NEW S \in SUBSET Nat, S # {}
  PROVE  \E x \in S : \A y \in S : x <= y
<1>1. IsWellFoundedOn(OpToRel(<, Nat), Nat)
  BY NatLessThanWellFounded
<1>2. \A x, y \in S : <<y, x>> \in OpToRel(<, Nat) <=> y < x
  BY DEF OpToRel
<1>3. \E x \in S : \A y \in S : ~(<<y, x>> \in OpToRel(<, Nat))
  BY <1>1, WFMin
<1>4. \A x, y \in S : ~(y < x) => x <= y
  OBVIOUS
<1> QED
  BY <1>2, <1>3, <1>4

LEMMA KeysDiffer ==
  ASSUME NEW n \in Nat, NEW k \in Keys(n), NEW l \in Keys(n), k # l
  PROVE  Precedes(k, l) \/ Precedes(l, k)
<1> DEFINE D == {i \in 1..n : k[i] # l[i]}
<1>1. D # {}
  BY DEF Keys
<1>2. PICK i \in D : \A j \in D : i <= j
  <2>1. D \in SUBSET Nat
    OBVIOUS
  <2> HIDE DEF D
  <2> QED BY <1>1, <2>1, LeastOf
<1>3. \A j \in 1..i - 1 : k[j] = l[j]
  BY <1>2
<1>4. k[i] < l[i] \/ l[i] < k[i]
  BY <1>2 DEF Keys
<1> QED
  BY <1>2, <1>3, <1>4 DEF Precedes, Keys

LEMMA PrecedesIrreflexive ==
  ASSUME NEW n \in Nat, NEW k \in Keys(n)
  PROVE  ~Precedes(k, k)
BY DEF Precedes, Keys

LEMMA PrecedesTransitive ==
  ASSUME NEW n \in Nat, NEW k \in Keys(n), NEW l \in Keys(n), NEW m \in Keys(n),
         Precedes(k, l), Precedes(l, m)
  PROVE  Precedes(k, m)
<1>1. PICK i \in 1..n : k[i] < l[i] /\ \A j \in 1..i - 1 : k[j] = l[j]
  BY DEF Precedes, Keys
<1>2. PICK h \in 1..n : l[h] < m[h] /\ \A j \in 1..h - 1 : l[j] = m[j]
  BY DEF Precedes, Keys
<1>3. CASE i <= h
  <2>1. k[i] < m[i]
    <3>1. CASE i = h
      BY <1>1, <1>2, <3>1 DEF Keys
    <3>2. CASE i < h
      BY <1>1, <1>2, <3>2 DEF Keys
    <3> QED BY <1>3, <3>1, <3>2
  <2>2. \A j \in 1..i - 1 : k[j] = m[j]
    BY <1>1, <1>2, <1>3
  <2> QED BY <2>1, <2>2 DEF Precedes, Keys
<1>4. CASE h < i
  <2>1. k[h] < m[h]
    BY <1>1, <1>2, <1>4
  <2>2. \A j \in 1..h - 1 : k[j] = m[j]
    BY <1>1, <1>2, <1>4
  <2> QED BY <2>1, <2>2 DEF Precedes, Keys
<1> QED
  BY <1>3, <1>4

LEMMA AppendedKey ==
  ASSUME NEW n \in Nat, NEW k \in Keys(n), NEW i \in Nat
  PROVE  /\ Append(k, i) \in Keys(n + 1)
         /\ Append(k, i)[n + 1] = i
         /\ \A h \in 1..n : Append(k, i)[h] = k[h]
<1>1. k \in Seq(Int) /\ Len(k) = n
  BY DEF Keys
<1>2. /\ Append(k, i) \in Seq(Int) /\ Len(Append(k, i)) = n + 1
      /\ Append(k, i)[n + 1] = i
      /\ \A h \in 1..n : Append(k, i)[h] = k[h]
  BY <1>1
<1>3. Append(k, i) \in [1..n + 1 -> Int]
  BY <1>2, LenProperties
<1> QED
  BY <1>2, <1>3 DEF Keys

\* A position behind the key decides between equal keys only.
LEMMA PositionDecides ==
  ASSUME NEW n \in Nat, NEW k \in Keys(n), NEW l \in Keys(n), NEW i \in Nat, NEW j \in Nat
  PROVE  /\ Append(k, i) \in Keys(n + 1) /\ Append(k, i)[n + 1] = i
         /\ Precedes(k, l) => Precedes(Append(k, i), Append(l, j))
         /\ Precedes(Append(k, i), Append(l, j)) => k = l \/ Precedes(k, l)
<1> DEFINE a == Append(k, i)
           b == Append(l, j)
<1>1. /\ a \in Keys(n + 1) /\ b \in Keys(n + 1) /\ a[n + 1] = i /\ b[n + 1] = j
      /\ \A h \in 1..n : a[h] = k[h] /\ b[h] = l[h]
  <2>1. a \in Keys(n + 1) /\ a[n + 1] = i /\ \A h \in 1..n : a[h] = k[h]
    BY AppendedKey
  <2>2. b \in Keys(n + 1) /\ b[n + 1] = j /\ \A h \in 1..n : b[h] = l[h]
    BY AppendedKey
  <2> QED BY <2>1, <2>2
<1> HIDE DEF a, b
<1>2. ASSUME Precedes(k, l) PROVE Precedes(a, b)
  <2>1. PICK h \in 1..n : k[h] < l[h] /\ \A g \in 1..h - 1 : k[g] = l[g]
    BY <1>2 DEF Precedes, Keys
  <2>2. h \in 1..n + 1 /\ a[h] < b[h] /\ \A g \in 1..h - 1 : a[g] = b[g]
    BY <1>1, <2>1
  <2> QED BY <1>1, <2>2 DEF Precedes, Keys
<1>3. ASSUME Precedes(a, b), k # l PROVE Precedes(k, l)
  <2>1. PICK h \in 1..n + 1 : a[h] < b[h] /\ \A g \in 1..h - 1 : a[g] = b[g]
    BY <1>1, <1>3 DEF Precedes, Keys
  <2>2. h # n + 1
    BY <1>1, <1>3, <2>1 DEF Keys
  <2>3. h \in 1..n /\ k[h] < l[h] /\ \A g \in 1..h - 1 : k[g] = l[g]
    BY <1>1, <2>1, <2>2
  <2> QED BY <2>3 DEF Precedes, Keys
<1> QED
  BY <1>1, <1>2, <1>3 DEF a, b

-----------------------------------------------------------------------------
(* Places.  Every function has a place of its own, and every place its      *)
(* function, so that sorting is a rearrangement.                            *)

\* A sequence of n functions that have ordering keys.
Sortable(fs, n) ==
  /\ n \in Nat /\ DOMAIN fs = 1..n
  /\ \A i \in 1..n : OrderingKey(fs[i]) \in Keys(7)

Key(fs, i) == Append(OrderingKey(fs[i]), i)

Earlier(fs, i) == {j \in DOMAIN fs : Precedes(Key(fs, j), Key(fs, i))}

LEMMA SortableKeys ==
  ASSUME NEW fs, NEW n, Sortable(fs, n)
  PROVE  /\ n \in Nat /\ DOMAIN fs = 1..n
         /\ \A i \in 1..n : Key(fs, i) \in Keys(8)
         /\ \A i, j \in 1..n : i # j => Key(fs, i) # Key(fs, j)
         /\ \A i \in 1..n : PlaceOf(fs, i) = Cardinality(Earlier(fs, i)) + 1
<1>1. n \in Nat /\ DOMAIN fs = 1..n
  BY DEF Sortable
<1>2. ASSUME NEW i \in 1..n PROVE Key(fs, i) \in Keys(8) /\ Key(fs, i)[8] = i
  <2>1. OrderingKey(fs[i]) \in Keys(7) /\ i \in Nat /\ 7 \in Nat
    BY <1>1 DEF Sortable
  <2>2. Key(fs, i) \in Keys(7 + 1) /\ Key(fs, i)[7 + 1] = i
    BY <2>1, AppendedKey, ZenonT(60) DEF Key
  <2>3. 7 + 1 = 8
    OBVIOUS
  <2> QED BY <2>2, <2>3
<1>3. \A i, j \in 1..n : i # j => Key(fs, i) # Key(fs, j)
  BY <1>2
<1>4. \A i \in 1..n : PlaceOf(fs, i) = Cardinality(Earlier(fs, i)) + 1
  BY DEF PlaceOf, Earlier, Key
<1> QED
  BY <1>1, <1>2, <1>3, <1>4

LEMMA EarlierOf ==
  ASSUME NEW fs, NEW n, Sortable(fs, n), NEW i \in 1..n
  PROVE  /\ Earlier(fs, i) \subseteq 1..n \ {i} /\ IsFiniteSet(Earlier(fs, i))
         /\ Cardinality(Earlier(fs, i)) \in 0..n - 1
         /\ PlaceOf(fs, i) \in 1..n
<1>1. Earlier(fs, i) \subseteq 1..n \ {i}
  BY SortableKeys, PrecedesIrreflexive DEF Earlier
<1>2. n \in Nat /\ IsFiniteSet(1..n) /\ Cardinality(1..n) = n
  BY SortableKeys, FS_Interval
<1>3. IsFiniteSet(1..n \ {i}) /\ Cardinality(1..n \ {i}) = n - 1
  BY <1>2, FS_RemoveElement
<1>4. IsFiniteSet(Earlier(fs, i)) /\ Cardinality(Earlier(fs, i)) <= n - 1
  BY <1>1, <1>3, FS_Subset
<1>5. Cardinality(Earlier(fs, i)) \in Nat
  BY <1>4, FS_CardinalityType
<1>6. PlaceOf(fs, i) = Cardinality(Earlier(fs, i)) + 1
  BY SortableKeys
<1> QED
  BY <1>1, <1>2, <1>4, <1>5, <1>6

LEMMA PlacesOrdered ==
  ASSUME NEW fs, NEW n, Sortable(fs, n), NEW i \in 1..n, NEW j \in 1..n,
         Precedes(Key(fs, i), Key(fs, j))
  PROVE  PlaceOf(fs, i) < PlaceOf(fs, j)
<1>1. Earlier(fs, i) \subseteq Earlier(fs, j)
  BY SortableKeys, PrecedesTransitive DEF Earlier
<1>2. i \in Earlier(fs, j) /\ i \notin Earlier(fs, i)
  BY SortableKeys, EarlierOf DEF Earlier
<1>3. Earlier(fs, i) \in SUBSET Earlier(fs, j) /\ Earlier(fs, i) # Earlier(fs, j)
  BY <1>1, <1>2
<1>4. /\ IsFiniteSet(Earlier(fs, j))
      /\ Cardinality(Earlier(fs, i)) \in Nat /\ Cardinality(Earlier(fs, j)) \in Nat
  BY EarlierOf
<1>5. Cardinality(Earlier(fs, i)) < Cardinality(Earlier(fs, j))
  BY <1>3, <1>4, FS_Subset
<1> QED
  BY <1>4, <1>5, SortableKeys

LEMMA PlacesApart ==
  ASSUME NEW fs, NEW n, Sortable(fs, n), NEW i \in 1..n, NEW j \in 1..n, i # j
  PROVE  PlaceOf(fs, i) # PlaceOf(fs, j)
<1>1. Precedes(Key(fs, i), Key(fs, j)) \/ Precedes(Key(fs, j), Key(fs, i))
  BY SortableKeys, KeysDiffer
<1>2. PlaceOf(fs, i) \in Nat /\ PlaceOf(fs, j) \in Nat
  BY EarlierOf
<1> QED
  BY <1>1, <1>2, PlacesOrdered

LEMMA PlacesTaken ==
  ASSUME NEW fs, NEW n, Sortable(fs, n), NEW place \in 1..n
  PROVE  \E i \in 1..n : PlaceOf(fs, i) = place
<1> DEFINE places == [i \in 1..n |-> PlaceOf(fs, i)]
<1>1. places \in [1..n -> 1..n]
  BY EarlierOf
<1>2. \A i, j \in 1..n : places[i] = places[j] => i = j
  BY PlacesApart
<1>3. n \in Nat /\ IsFiniteSet(1..n)
  BY SortableKeys, FS_Interval
<1> HIDE DEF places
<1>4. places \in Injection(1..n, 1..n)
  BY <1>1, <1>2, Fun_IsInj
<1>5. places \in Surjection(1..n, 1..n)
  BY <1>3, <1>4, FS_Injection
<1>6. \E i \in 1..n : places[i] = place
  BY <1>5 DEF Surjection
<1> QED
  BY <1>6 DEF places

\* A rearrangement of S and its inverse.
LEMMA Rearrangement ==
  ASSUME NEW S, NEW p \in Bijection(S, S)
  PROVE  /\ p \in [S -> S] /\ \A s \in S : \E m \in S : p[m] = s
         /\ Inverse(p, S, S) \in Bijection(S, S)
         /\ Inverse(p, S, S) \in [S -> S]
         /\ \A a, b \in S : Inverse(p, S, S)[a] = Inverse(p, S, S)[b] => a = b
         /\ \A m \in S : Inverse(p, S, S)[p[m]] = m
<1>1. p \in [S -> S] /\ \A s \in S : \E m \in S : p[m] = s
  BY DEF Bijection, Injection, Surjection
<1>2. Inverse(p, S, S) \in Bijection(S, S) /\ \A m \in S : Inverse(p, S, S)[p[m]] = m
  BY Fun_BijInverse
<1>3. /\ Inverse(p, S, S) \in [S -> S]
      /\ \A a, b \in S : Inverse(p, S, S)[a] = Inverse(p, S, S)[b] => a = b
  BY <1>2 DEF Bijection, Injection, IsInjective
<1> QED
  BY <1>1, <1>2, <1>3

\* g holds the functions of fs, or functions of their keys, rearranged by p: the
\* function at a place of g is not after the one at that place of fs.  The place
\* counts the functions before it.
LEMMA NotBefore ==
  ASSUME NEW fs, NEW g, NEW n, Sortable(fs, n), Sortable(g, n),
         NEW p \in Bijection(1..n, 1..n),
         \A m \in 1..n : OrderingKey(g[m]) = OrderingKey(fs[p[m]]),
         NEW i \in 1..n, NEW j \in 1..n, PlaceOf(fs, i) = PlaceOf(g, j)
  PROVE  ~Precedes(OrderingKey(fs[i]), OrderingKey(g[j]))
<1> SUFFICES ASSUME Precedes(OrderingKey(fs[i]), OrderingKey(g[j]))
             PROVE  FALSE
  OBVIOUS
<1> DEFINE A == Earlier(fs, i) \cup {i}
           back == Inverse(p, 1..n, 1..n)
           moved == [a \in A |-> back[a]]
<1>1. /\ p \in [1..n -> 1..n] /\ back \in [1..n -> 1..n]
      /\ \A a, b \in 1..n : back[a] = back[b] => a = b
      /\ \A m \in 1..n : back[p[m]] = m
  BY Rearrangement
<1>2. \A a \in 1..n : p[back[a]] = a
  <2>1. \A a \in 1..n : \E m \in 1..n : p[m] = a
    BY Rearrangement
  <2> QED BY <1>1, <2>1
<1> HIDE DEF back
<1>3. A \subseteq 1..n /\ IsFiniteSet(A) /\ Cardinality(A) = Cardinality(Earlier(fs, i)) + 1
  BY EarlierOf, FS_AddElement
<1>4. \A m \in 1..n : OrderingKey(fs[m]) \in Keys(7) /\ OrderingKey(g[m]) \in Keys(7)
  BY DEF Sortable
<1>5. ASSUME NEW a \in A PROVE Precedes(OrderingKey(fs[a]), OrderingKey(g[j]))
  <2>1. a \in 1..n /\ n \in Nat
    BY <1>3, SortableKeys
  <2>2. a = i \/ Precedes(Key(fs, a), Key(fs, i))
    BY DEF Earlier
  <2>3. \/ OrderingKey(fs[a]) = OrderingKey(fs[i])
        \/ Precedes(OrderingKey(fs[a]), OrderingKey(fs[i]))
    <3>1. CASE a = i
      BY <3>1
    <3>2. CASE Precedes(Key(fs, a), Key(fs, i))
      <4>1. /\ OrderingKey(fs[a]) \in Keys(7) /\ OrderingKey(fs[i]) \in Keys(7)
            /\ 7 \in Nat /\ a \in Nat /\ i \in Nat
        BY <1>4, <2>1
      <4> QED BY <3>2, <4>1, PositionDecides DEF Key
    <3> QED BY <2>2, <3>1, <3>2
  <2> QED BY <1>4, <2>1, <2>3, PrecedesTransitive
<1>6. ASSUME NEW a \in A PROVE back[a] \in Earlier(g, j)
  <2>1. a \in 1..n /\ back[a] \in 1..n /\ p[back[a]] = a
    BY <1>1, <1>2, <1>3
  <2>2. Precedes(OrderingKey(g[back[a]]), OrderingKey(g[j]))
    BY <1>5, <2>1
  <2>3. Precedes(Key(g, back[a]), Key(g, j))
    <3>1. /\ OrderingKey(g[back[a]]) \in Keys(7) /\ OrderingKey(g[j]) \in Keys(7)
          /\ 7 \in Nat /\ back[a] \in Nat /\ j \in Nat
      BY <1>4, <2>1
    <3> QED BY <2>2, <3>1, PositionDecides DEF Key
  <2>4. DOMAIN g = 1..n
    BY SortableKeys
  <2> QED BY <2>1, <2>3, <2>4 DEF Earlier
<1>7. moved \in Injection(A, Earlier(g, j))
  <2>1. moved \in [A -> Earlier(g, j)]
    BY <1>6
  <2>2. \A a, b \in A : moved[a] = moved[b] => a = b
    BY <1>1, <1>3
  <2> HIDE DEF moved
  <2> QED BY <2>1, <2>2, Fun_IsInj
<1>8. Cardinality(A) <= Cardinality(Earlier(g, j))
  <2>1. IsFiniteSet(Earlier(g, j))
    BY EarlierOf
  <2> HIDE DEF moved, A
  <2> QED BY <1>7, <2>1, FS_Injection
<1>9. /\ Cardinality(Earlier(fs, i)) \in Nat /\ Cardinality(Earlier(g, j)) \in Nat
      /\ Cardinality(Earlier(fs, i)) + 1 = Cardinality(Earlier(g, j)) + 1
  BY EarlierOf, SortableKeys
<1> QED
  BY <1>3, <1>8, <1>9

\* g holds the elements of fs, rearranged by p.
Rearranged(g, fs, n, p) == DOMAIN g = 1..n /\ \A m \in 1..n : g[m] = fs[p[m]]

KeysTellApart(fs, n) ==
  \A i, j \in 1..n : OrderingKey(fs[i]) = OrderingKey(fs[j]) => fs[i] = fs[j]

\* Sorting forgets the order of insertion, unless two functions share a key.
LEMMA SortForgetsOrder ==
  ASSUME NEW fs, NEW g, NEW n, NEW p, p \in Bijection(1..n, 1..n),
         Sortable(fs, n), KeysTellApart(fs, n), Rearranged(g, fs, n, p)
  PROVE  SortByOrderingKey(g) = SortByOrderingKey(fs)
<1> DEFINE back == Inverse(p, 1..n, 1..n)
           of(s, place) == CHOOSE i \in 1..n : PlaceOf(s, i) = place
<1>1. p \in [1..n -> 1..n] /\ \A a \in 1..n : \E m \in 1..n : p[m] = a
  BY Rearrangement
<1>2. Sortable(g, n)
  BY <1>1 DEF Sortable, Rearranged
<1>3. /\ back \in Bijection(1..n, 1..n)
      /\ \A m \in 1..n : OrderingKey(fs[m]) = OrderingKey(g[back[m]])
  <2>1. /\ back \in Bijection(1..n, 1..n) /\ back \in [1..n -> 1..n]
        /\ \A m \in 1..n : back[p[m]] = m
    BY Rearrangement
  <2>2. ASSUME NEW m \in 1..n PROVE g[back[m]] = fs[m]
    <3>1. PICK h \in 1..n : p[h] = m
      BY <1>1
    <3>2. back[m] = h
      BY <2>1, <3>1
    <3> QED BY <3>1, <3>2 DEF Rearranged
  <2> QED BY <2>1, <2>2
<1> HIDE DEF back
<1>4. \A m \in 1..n : OrderingKey(g[m]) = OrderingKey(fs[p[m]])
  BY DEF Rearranged
<1>5. ASSUME NEW place \in 1..n PROVE g[of(g, place)] = fs[of(fs, place)]
  <2>1. of(g, place) \in 1..n /\ PlaceOf(g, of(g, place)) = place
    BY <1>2, PlacesTaken
  <2>2. of(fs, place) \in 1..n /\ PlaceOf(fs, of(fs, place)) = place
    BY PlacesTaken
  <2> HIDE DEF of
  <2>3. ~Precedes(OrderingKey(fs[of(fs, place)]), OrderingKey(g[of(g, place)]))
    BY <1>2, <1>4, <2>1, <2>2, NotBefore
  <2>4. ~Precedes(OrderingKey(g[of(g, place)]), OrderingKey(fs[of(fs, place)]))
    BY <1>2, <1>3, <2>1, <2>2, NotBefore
  <2>5. /\ 7 \in Nat
        /\ OrderingKey(fs[of(fs, place)]) \in Keys(7)
        /\ OrderingKey(g[of(g, place)]) \in Keys(7)
    BY <1>2, <2>1, <2>2 DEF Sortable
  <2>6. OrderingKey(g[of(g, place)]) = OrderingKey(fs[of(fs, place)])
    BY <2>3, <2>4, <2>5, KeysDiffer
  <2>7. PICK m \in 1..n : p[of(g, place)] = m
    BY <1>1, <2>1
  <2>8. g[of(g, place)] = fs[m]
    BY <2>1, <2>7 DEF Rearranged
  <2> QED BY <2>2, <2>6, <2>8 DEF KeysTellApart
<1>6. DOMAIN fs = 1..n /\ DOMAIN g = 1..n
  BY DEF Sortable, Rearranged
<1> QED
  BY <1>5, <1>6 DEF SortByOrderingKey

-----------------------------------------------------------------------------
(* The functions a caller may add have ordering keys. *)

LEMMA RowsCompacted ==
  ASSUME NEW rows \in Seq(Rows)
  PROVE  Len(CompactRows(rows)) \in Nat
<1> DEFINE positions == {i \in DOMAIN rows :
              i = 1 \/ rows[i].file # rows[i - 1].file \/ rows[i].line # rows[i - 1].line}
           kept == CompactRows(rows)
<1>1. IsFiniteSet(DOMAIN rows)
  BY FS_Interval
<1>2. IsFiniteSet(positions)
  BY <1>1, FS_Subset
<1>3. Cardinality(positions) \in Nat
  BY <1>2, FS_CardinalityType
<1>4. DOMAIN kept = 1..Cardinality(positions)
  BY DEF CompactRows, At
<1> HIDE DEF positions, kept
<1>5. Len(kept) = Cardinality(positions)
  BY <1>3, <1>4
<1> QED
  BY <1>3, <1>5 DEF kept

LEMMA CandidateKey ==
  ASSUME NEW f \in Candidates
  PROVE  OrderingKey(Compacted(f)) \in Keys(7)
<1> DEFINE c == Compacted(f)
<1>1. /\ f \in [start : Nat, end : Nat, name : Nat, lines : Seq(Rows), calls : Seq(Nat),
                sites : SUBSET Nat, merged : {<<>>}]
      /\ IsFiniteSet(f.sites)
  BY CandidatesAssumption
<1>2. /\ c.start = f.start /\ c.end = f.end /\ c.name = f.name /\ c.calls = f.calls
      /\ c.sites = f.sites /\ c.lines = CompactRows(f.lines) /\ DOMAIN c.merged = {}
  BY <1>1 DEF Compacted, Throughout
<1>3. Len(c.merged) = 0
  <2>1. c.merged = [i \in 1..0 |-> f.merged[i]]
    BY <1>1 DEF Compacted, Throughout
  <2>2. [i \in 1..0 |-> f.merged[i]] \in Seq({f.merged[1]})
    OBVIOUS
  <2> QED BY <2>1, <2>2
<1> HIDE DEF c
<1>4. /\ c.start \in Int /\ c.end \in Int /\ Len(c.calls) \in Int /\ Len(c.lines) \in Int
      /\ Cardinality(c.sites) \in Int /\ Len(c.merged) \in Int /\ c.name \in Int
  BY <1>1, <1>2, <1>3, RowsCompacted, FS_CardinalityType
<1>5. OrderingKey(c) \in Keys(7)
  BY <1>4 DEF OrderingKey, Keys
<1> QED
  BY <1>5 DEF c

\* Candidates added in another order are sorted alike, if no two that are told
\* apart have one key.
LEMMA SortedForgetsOrder ==
  ASSUME NEW added \in Seq(Candidates),
         NEW p \in Bijection(DOMAIN added, DOMAIN added),
         \A f, g \in {Compacted(h) : h \in Range(added)} :
           OrderingKey(f) = OrderingKey(g) => f = g
  PROVE  Sorted([i \in DOMAIN added |-> added[p[i]]]) = Sorted(added)
<1> DEFINE n == Len(added)
           moved == [i \in DOMAIN added |-> added[p[i]]]
           fs == [i \in DOMAIN added |-> Compacted(added[i])]
           g == [i \in DOMAIN moved |-> Compacted(moved[i])]
<1>1. n \in Nat /\ DOMAIN added = 1..n /\ \A i \in 1..n : added[i] \in Candidates
  OBVIOUS
<1>2. Sortable(fs, n)
  BY <1>1, CandidateKey DEF Sortable
<1>3. p \in Bijection(1..n, 1..n) /\ p \in [1..n -> 1..n]
  BY <1>1, Rearrangement
<1>4. Rearranged(g, fs, n, p)
  BY <1>1, <1>3 DEF Rearranged
<1>5. \A i \in 1..n : fs[i] \in {Compacted(h) : h \in Range(added)}
  BY <1>1 DEF Range
<1>6. KeysTellApart(fs, n)
  BY <1>5 DEF KeysTellApart
<1>7. SortByOrderingKey(g) = SortByOrderingKey(fs)
  <2> HIDE DEF g, fs, n, moved
  <2> QED BY <1>2, <1>3, <1>4, <1>6, SortForgetsOrder
<1> QED
  BY <1>7 DEF Sorted

-----------------------------------------------------------------------------
(* Numbers and positions. *)

LEMMA MinOf ==
  ASSUME NEW S \in SUBSET Nat, S # {}
  PROVE  Min(S) \in S /\ \A x \in S : Min(S) <= x
<1>1. \E x \in S : \A y \in S : x <= y
  BY LeastOf
<1> QED
  BY <1>1 DEF Min

LEMMA MaxOf ==
  ASSUME NEW S \in SUBSET Nat, S # {}, NEW b \in Nat, \A x \in S : x <= b
  PROVE  Max(S) \in S /\ \A x \in S : x <= Max(S)
<1> DEFINE U == {u \in Nat : \A x \in S : x <= u}
<1>1. PICK u \in U : \A v \in U : u <= v
  BY LeastOf
<1>2. u \in S
  <2> SUFFICES ASSUME u \notin S PROVE FALSE
    OBVIOUS
  <2>1. \A x \in S : x < u
    BY <1>1
  <2>2. u - 1 \in Nat
    <3>1. PICK x \in S : x < u
      BY <2>1
    <3> QED BY <3>1
  <2>3. u - 1 \in U
    BY <2>1, <2>2
  <2> QED BY <1>1, <2>3
<1>3. \E m \in S : \A x \in S : m >= x
  BY <1>1, <1>2
<1> QED
  BY <1>3 DEF Max

\* The rank of a position among some.
Rank(P, i) == Cardinality({j \in P : j <= i})

LEMMA RankOf ==
  ASSUME NEW P \in SUBSET Nat, IsFiniteSet(P), NEW i \in P
  PROVE  /\ Rank(P, i) \in 1..Cardinality(P) /\ Cardinality(P) \in Nat
         /\ \A h \in P : h < i => Rank(P, h) < Rank(P, i)
<1> DEFINE upto(h) == {j \in P : j <= h}
<1>1. \A h \in P : IsFiniteSet(upto(h)) /\ Cardinality(upto(h)) \in Nat
                   /\ Cardinality(upto(h)) <= Cardinality(P)
  <2> TAKE h \in P
  <2>1. upto(h) \in SUBSET P
    OBVIOUS
  <2> HIDE DEF upto
  <2> QED BY <2>1, FS_Subset, FS_CardinalityType
<1>2. Cardinality(P) \in Nat
  BY FS_CardinalityType
<1>3. Cardinality(upto(i)) # 0
  <2>1. i \in upto(i)
    OBVIOUS
  <2> HIDE DEF upto
  <2> QED BY <1>1, <2>1, FS_EmptySet
<1>4. ASSUME NEW h \in P, h < i PROVE Cardinality(upto(h)) < Cardinality(upto(i))
  <2>1. upto(h) \in SUBSET upto(i) /\ i \in upto(i) /\ i \notin upto(h)
    <3>1. h \in Nat /\ i \in Nat /\ \A j \in P : j \in Nat
      OBVIOUS
    <3>2. \A j \in P : j <= h => j <= i
      BY <1>4, <3>1
    <3>3. ~(i <= h)
      BY <1>4, <3>1
    <3>4. i \notin upto(h)
      BY <3>3
    <3>5. i \in upto(i)
      BY <3>1
    <3> QED BY <3>2, <3>4, <3>5
  <2> HIDE DEF upto
  <2> QED BY <1>1, <2>1, FS_Subset
<1> QED
  BY <1>1, <1>2, <1>3, <1>4 DEF Rank

LEMMA RankTaken ==
  ASSUME NEW P \in SUBSET Nat, IsFiniteSet(P), NEW k \in 1..Cardinality(P)
  PROVE  \E i \in P : Rank(P, i) = k
<1> DEFINE n == Cardinality(P)
           ranks == [i \in P |-> Rank(P, i)]
<1>1. ranks \in [P -> 1..n]
  BY RankOf
<1>2. \A i, j \in P : ranks[i] = ranks[j] => i = j
  <2> SUFFICES ASSUME NEW i \in P, NEW j \in P, i # j PROVE Rank(P, i) # Rank(P, j)
    OBVIOUS
  <2>1. Rank(P, i) \in Nat /\ Rank(P, j) \in Nat
    BY RankOf
  <2>2. i < j \/ j < i
    OBVIOUS
  <2> QED BY <2>1, <2>2, RankOf
<1>3. n \in Nat /\ IsFiniteSet(1..n) /\ Cardinality(1..n) = n
  BY FS_CardinalityType, FS_Interval
<1>4. ranks \in Injection(P, 1..n)
  <2> HIDE DEF ranks, n
  <2> QED BY <1>1, <1>2, Fun_IsInj
<1>5. ranks \in Surjection(P, 1..n)
  <2>1. Cardinality(P) = Cardinality(1..n)
    BY <1>3
  <2> HIDE DEF ranks, n
  <2> QED BY <1>3, <1>4, <2>1, FS_Injection
<1>6. \E i \in P : ranks[i] = k
  <2> HIDE DEF ranks
  <2> QED BY <1>5 DEF Surjection
<1> QED
  BY <1>6

\* At lists the positions in order.
LEMMA AtOf ==
  ASSUME NEW s, NEW P \in SUBSET Nat, IsFiniteSet(P)
  PROVE  \E at \in [1..Cardinality(P) -> P] :
           /\ Cardinality(P) \in Nat
           /\ At(s, P) = [k \in 1..Cardinality(P) |-> s[at[k]]]
           /\ \A k, l \in 1..Cardinality(P) : k < l => at[k] < at[l]
           /\ \A i \in P : \E k \in 1..Cardinality(P) : at[k] = i
<1> DEFINE n == Cardinality(P)
           pos(k) == CHOOSE i \in P : Cardinality({j \in P : j <= i}) = k
           at == [k \in 1..n |-> pos(k)]
<1>1. ASSUME NEW k \in 1..n PROVE pos(k) \in P /\ Rank(P, pos(k)) = k
  BY RankTaken DEF Rank
<1>2. n \in Nat
  BY FS_CardinalityType
<1>3. At(s, P) = [k \in 1..n |-> s[at[k]]]
  BY DEF At
<1> HIDE DEF pos
<1>4. at \in [1..n -> P]
  BY <1>1
<1>5. ASSUME NEW k \in 1..n, NEW l \in 1..n, k < l PROVE at[k] < at[l]
  <2>1. /\ at[k] \in P /\ at[l] \in P /\ Rank(P, at[k]) = k /\ Rank(P, at[l]) = l
    BY <1>1
  <2> HIDE DEF at
  <2>2. at[l] < at[k] => Rank(P, at[l]) < Rank(P, at[k])
    BY <2>1, RankOf
  <2>3. at[k] # at[l]
    BY <1>5, <2>1
  <2>4. at[k] \in Nat /\ at[l] \in Nat /\ k \in Nat /\ l \in Nat
    <3>1. k \in Nat /\ l \in Nat
      BY <1>2
    <3>2. \A x \in P : x \in Nat
      OBVIOUS
    <3> QED BY <2>1, <3>1, <3>2
  <2> QED BY <1>5, <2>1, <2>2, <2>3, <2>4
<1>6. ASSUME NEW i \in P PROVE \E k \in 1..n : at[k] = i
  <2>1. Rank(P, i) \in 1..n
    BY RankOf
  <2>2. at[Rank(P, i)] \in P /\ Rank(P, at[Rank(P, i)]) = Rank(P, i)
    BY <1>1, <2>1
  <2> HIDE DEF at
  <2>3. \A x, y \in P : Rank(P, x) = Rank(P, y) => x = y
    <3> SUFFICES ASSUME NEW x \in P, NEW y \in P, x # y PROVE Rank(P, x) # Rank(P, y)
      OBVIOUS
    <3>1. Rank(P, x) \in Nat /\ Rank(P, y) \in Nat /\ (x < y \/ y < x)
      BY RankOf
    <3> QED BY <3>1, RankOf
  <2> QED BY <2>1, <2>2, <2>3
<1> QED
  BY <1>2, <1>3, <1>4, <1>5, <1>6

-----------------------------------------------------------------------------
(* Rows.  Dropping a row that repeats the one before changes no answer. *)

RowsKept(rows) ==
  {i \in DOMAIN rows :
     i = 1 \/ rows[i].file # rows[i - 1].file \/ rows[i].line # rows[i - 1].line}

LEMMA RowsKeptOf ==
  ASSUME NEW rows \in Seq(Rows)
  PROVE  /\ RowsKept(rows) \in SUBSET Nat /\ IsFiniteSet(RowsKept(rows))
         /\ RowsKept(rows) \subseteq 1..Len(rows) /\ Len(rows) \in Nat
         /\ CompactRows(rows) = At(rows, RowsKept(rows))
<1>1. IsFiniteSet(1..Len(rows)) /\ Len(rows) \in Nat /\ DOMAIN rows = 1..Len(rows)
  BY FS_Interval
<1>2. RowsKept(rows) \in SUBSET (1..Len(rows))
  BY <1>1 DEF RowsKept
<1>3. IsFiniteSet(RowsKept(rows))
  BY <1>1, <1>2, FS_Subset
<1> QED
  BY <1>1, <1>2, <1>3 DEF CompactRows, RowsKept

\* The row at i says what the last row kept up to i says.
LEMMA HeadOfRun ==
  ASSUME NEW rows \in Seq(Rows), NEW i \in 1..Len(rows)
  PROVE  \E h \in RowsKept(rows) :
           /\ h <= i /\ \A k \in RowsKept(rows) : k <= i => k <= h
           /\ rows[h].file = rows[i].file /\ rows[h].line = rows[i].line
<1> DEFINE Headed(m) ==
             \E h \in RowsKept(rows) :
               /\ h <= m /\ \A k \in RowsKept(rows) : k <= m => k <= h
               /\ rows[h].file = rows[m].file /\ rows[h].line = rows[m].line
           Bad == {m \in 1..Len(rows) : ~Headed(m)}
<1>1. Len(rows) \in Nat /\ DOMAIN rows = 1..Len(rows) /\ RowsKept(rows) \subseteq 1..Len(rows)
  BY RowsKeptOf
<1>2. ASSUME NEW m \in Bad, \A n \in Bad : m <= n PROVE FALSE
  <2>1. m \in 1..Len(rows) /\ ~Headed(m)
    OBVIOUS
  <2>2. CASE m \in RowsKept(rows)
    BY <1>1, <2>1, <2>2
  <2>3. CASE m \notin RowsKept(rows)
    <3>1. /\ m - 1 \in 1..Len(rows) /\ rows[m].file = rows[m - 1].file
          /\ rows[m].line = rows[m - 1].line
      BY <1>1, <2>1, <2>3 DEF RowsKept
    <3>2. Headed(m - 1)
      <4>1. m - 1 \notin Bad
        BY <1>1, <1>2, <2>1
      <4> HIDE DEF Headed
      <4> QED BY <3>1, <4>1
    <3>3. PICK h \in RowsKept(rows) :
            /\ h <= m - 1 /\ \A k \in RowsKept(rows) : k <= m - 1 => k <= h
            /\ rows[h].file = rows[m - 1].file /\ rows[h].line = rows[m - 1].line
      BY <3>2
    <3>4. \A k \in RowsKept(rows) : k <= m => k <= h
      BY <1>1, <2>1, <2>3, <3>3
    <3>5. Headed(m)
      BY <1>1, <2>1, <3>1, <3>3, <3>4
    <3> QED BY <2>1, <3>5
  <2> QED BY <2>2, <2>3
<1>3. Bad \in SUBSET Nat
  BY <1>1
<1>4. Bad = {}
  <2> HIDE DEF Bad
  <2> QED BY <1>2, <1>3, LeastOf
<1> HIDE DEF Headed
<1>5. Headed(i)
  BY <1>4
<1> QED
  BY <1>5 DEF Headed

Ascending(rows) == \A i \in 1..Len(rows) - 1 : rows[i].address <= rows[i + 1].address

LEMMA AscendingRows ==
  ASSUME NEW rows \in Seq(Rows), Ascending(rows), NEW i \in 1..Len(rows), NEW j \in i..Len(rows)
  PROVE  rows[i].address <= rows[j].address
<1> DEFINE Bad == {m \in i..Len(rows) : ~(rows[i].address <= rows[m].address)}
<1>1. Len(rows) \in Nat /\ \A m \in 1..Len(rows) : rows[m].address \in Nat
  <2>1. Len(rows) \in Nat /\ \A m \in 1..Len(rows) : rows[m] \in Rows
    OBVIOUS
  <2> QED BY <2>1 DEF Rows
<1>2. ASSUME NEW m \in Bad, \A n \in Bad : m <= n PROVE FALSE
  <2>1. m \in i..Len(rows) /\ ~(rows[i].address <= rows[m].address)
    OBVIOUS
  <2>2. m # i
    BY <1>1, <2>1
  <2>3. m - 1 \in i..Len(rows) /\ m - 1 \in 1..Len(rows) - 1 /\ m - 1 \notin Bad
    BY <1>1, <1>2, <2>1, <2>2
  <2>4. rows[i].address <= rows[m - 1].address
    BY <2>3
  <2>5. rows[m - 1].address <= rows[(m - 1) + 1].address
    BY <2>3 DEF Ascending
  <2>6. (m - 1) + 1 = m
    BY <1>1, <2>1
  <2>7. m \in 1..Len(rows)
    BY <1>1, <2>1
  <2> QED BY <1>1, <2>1, <2>3, <2>4, <2>5, <2>6, <2>7
<1>3. Bad \in SUBSET Nat
  BY <1>1
<1>4. Bad = {}
  <2> HIDE DEF Bad
  <2> QED BY <1>2, <1>3, LeastOf
<1> QED
  BY <1>4

Below(rows, a) == {i \in DOMAIN rows : rows[i].address <= a}

LEMMA CompactRowsOf ==
  ASSUME NEW rows \in Seq(Rows)
  PROVE  \E at \in [1..Len(CompactRows(rows)) -> RowsKept(rows)] :
           /\ Len(CompactRows(rows)) \in Nat
           /\ CompactRows(rows) \in Seq(Rows)
           /\ \A k \in 1..Len(CompactRows(rows)) : CompactRows(rows)[k] = rows[at[k]]
           /\ \A k, l \in 1..Len(CompactRows(rows)) : k < l => at[k] < at[l]
           /\ \A i \in RowsKept(rows) : \E k \in 1..Len(CompactRows(rows)) : at[k] = i
<1> DEFINE P == RowsKept(rows)
           n == Cardinality(P)
           c == CompactRows(rows)
<1>1. P \in SUBSET Nat /\ IsFiniteSet(P) /\ P \subseteq 1..Len(rows) /\ c = At(rows, P)
  BY RowsKeptOf
<1> HIDE DEF P, c
<1>2. PICK at \in [1..n -> P] :
        /\ n \in Nat
        /\ At(rows, P) = [k \in 1..n |-> rows[at[k]]]
        /\ \A k, l \in 1..n : k < l => at[k] < at[l]
        /\ \A i \in P : \E k \in 1..n : at[k] = i
  BY <1>1, AtOf
<1>3. \A k \in 1..n : rows[at[k]] \in Rows
  <2>1. \A i \in 1..Len(rows) : rows[i] \in Rows
    OBVIOUS
  <2>2. \A k \in 1..n : at[k] \in 1..Len(rows)
    BY <1>1, <1>2
  <2> QED BY <2>1, <2>2
<1> HIDE DEF n
<1>4. c \in Seq(Rows) /\ Len(c) = n
  <2>1. c = [k \in 1..n |-> rows[at[k]]] /\ n \in Nat
    BY <1>1, <1>2
  <2> QED BY <1>3, <2>1, SMTT(20)
<1> QED
  BY <1>1, <1>2, <1>4, ZenonT(60) DEF P, c

LEMMA CompactAnswers ==
  ASSUME NEW rows \in Seq(Rows), Ascending(rows), NEW a \in Nat
  PROVE  /\ Below(CompactRows(rows), a) = {} <=> Below(rows, a) = {}
         /\ Below(rows, a) # {} =>
              LET was == rows[Max(Below(rows, a))]
                  is == CompactRows(rows)[Max(Below(CompactRows(rows), a))]
              IN is.file = was.file /\ is.line = was.line
<1> DEFINE c == CompactRows(rows)
           P == RowsKept(rows)
           m == Max(Below(rows, a))
<1>1. PICK at \in [1..Len(c) -> P] :
        /\ Len(c) \in Nat /\ c \in Seq(Rows)
        /\ \A k \in 1..Len(c) : c[k] = rows[at[k]]
        /\ \A k, l \in 1..Len(c) : k < l => at[k] < at[l]
        /\ \A i \in P : \E k \in 1..Len(c) : at[k] = i
  BY CompactRowsOf
<1>2. /\ P \subseteq 1..Len(rows) /\ Len(rows) \in Nat /\ DOMAIN rows = 1..Len(rows)
      /\ DOMAIN c = 1..Len(c)
      /\ \A i \in 1..Len(rows) : rows[i].address \in Nat
  <2>1. P \subseteq 1..Len(rows) /\ Len(rows) \in Nat /\ DOMAIN rows = 1..Len(rows)
    BY RowsKeptOf
  <2>2. \A i \in 1..Len(rows) : rows[i] \in Rows
    OBVIOUS
  <2>3. DOMAIN c = 1..Len(c)
    BY <1>1
  <2> QED BY <2>1, <2>2, <2>3 DEF Rows
<1>3. ASSUME Below(rows, a) = {} PROVE Below(c, a) = {}
  BY <1>1, <1>2, <1>3 DEF Below
<1>4. ASSUME Below(rows, a) # {}
      PROVE  /\ Below(c, a) # {}
             /\ c[Max(Below(c, a))].file = rows[m].file
             /\ c[Max(Below(c, a))].line = rows[m].line
  <2>1. m \in Below(rows, a) /\ \A i \in Below(rows, a) : i <= m
    <3>1. Below(rows, a) \in SUBSET Nat /\ \A i \in Below(rows, a) : i <= Len(rows)
      BY <1>2 DEF Below
    <3> QED BY <1>2, <1>4, <3>1, MaxOf
  <2>2. m \in 1..Len(rows) /\ rows[m].address <= a
    BY <1>2, <2>1 DEF Below
  <2> HIDE DEF m
  <2>3. PICK h \in P : /\ h <= m /\ \A k \in P : k <= m => k <= h
                       /\ rows[h].file = rows[m].file /\ rows[h].line = rows[m].line
    BY <2>2, HeadOfRun
  <2>4. PICK k \in 1..Len(c) : at[k] = h
    BY <1>1
  <2>5. rows[h].address <= rows[m].address
    BY <1>2, <2>2, <2>3, AscendingRows
  <2>6. k \in Below(c, a)
    BY <1>1, <1>2, <2>2, <2>3, <2>4, <2>5 DEF Below
  <2>7. ASSUME NEW l \in Below(c, a) PROVE l <= k
    <3>1. l \in 1..Len(c) /\ rows[at[l]].address <= a /\ at[l] \in P
      BY <1>1, <1>2 DEF Below
    <3>2. at[l] \in Below(rows, a)
      BY <1>2, <3>1 DEF Below
    <3>3. at[l] <= h
      BY <2>1, <2>3, <3>1, <3>2
    <3>4. k < l => h < at[l]
      BY <1>1, <2>4, <3>1
    <3> QED BY <1>1, <1>2, <2>4, <3>1, <3>3, <3>4
  <2>8. Max(Below(c, a)) = k
    <3>1. Below(c, a) \in SUBSET Nat /\ \A x \in Below(c, a) : x <= Len(c)
      BY <1>1, <1>2 DEF Below
    <3>2. Max(Below(c, a)) \in Below(c, a) /\ \A x \in Below(c, a) : x <= Max(Below(c, a))
      BY <1>1, <2>6, <3>1, MaxOf
    <3> QED BY <2>6, <2>7, <3>1, <3>2
  <2> QED BY <1>1, <2>3, <2>4, <2>6, <2>8
<1> QED
  BY <1>3, <1>4

-----------------------------------------------------------------------------
(* Sorted functions. *)

\* Functions without aliases whose range does not go back.
Plain ==
  {f \in [start : Nat, end : Nat, name : Nat \ {0}, lines : Seq(Rows), calls : Seq(Nat),
          sites : SUBSET Nat, merged : {<<>>}] :
     IsFiniteSet(f.sites) /\ f.start <= f.end}

LEMMA PlainOf ==
  ASSUME NEW f \in Candidates, f.start <= f.end
  PROVE  /\ f \in Plain /\ Compacted(f) \in Plain
         /\ Compacted(f) = [f EXCEPT !.lines = CompactRows(f.lines)]
<1>1. /\ f \in [start : Nat, end : Nat, name : Nat \ {0}, lines : Seq(Rows), calls : Seq(Nat),
                sites : SUBSET Nat, merged : {<<>>}]
      /\ IsFiniteSet(f.sites)
  BY CandidatesAssumption
<1>2. f \in Plain
  BY <1>1 DEF Plain
<1>3. CompactRows(f.lines) \in Seq(Rows)
  BY <1>1, CompactRowsOf
<1>4. [i \in DOMAIN f.merged |-> [f.merged[i] EXCEPT !.lines = CompactRows(@)]] = <<>>
  <2> DEFINE e == [i \in 1..0 |-> [f.merged[i] EXCEPT !.lines = CompactRows(@)]]
  <2>1. DOMAIN f.merged = 1..0
    BY <1>1
  <2>2. e \in Seq({1}) /\ Len(e) = 0
    <3>1. \A i \in 1..0 : FALSE
      OBVIOUS
    <3> QED BY <3>1
  <2> HIDE DEF e
  <2>3. e = <<>>
    BY <2>2
  <2> QED BY <2>1, <2>3 DEF e
<1>5. Compacted(f) = [f EXCEPT !.lines = CompactRows(f.lines)]
  <2>1. Compacted(f) = [[f EXCEPT !.lines = CompactRows(@)] EXCEPT !.merged =
                          [i \in DOMAIN f.merged |-> [f.merged[i] EXCEPT !.lines = CompactRows(@)]]]
    BY DEF Compacted, Throughout
  <2>2. f.merged = <<>>
    BY <1>1
  <2> QED BY <1>1, <1>4, <2>1, <2>2
<1>6. Compacted(f) \in Plain
  BY <1>1, <1>2, <1>3, <1>5 DEF Plain
<1> QED
  BY <1>2, <1>5, <1>6

LEMMA PlainKey ==
  ASSUME NEW f \in Plain
  PROVE  /\ OrderingKey(f) \in Keys(7)
         /\ HasRichInfo(f) <=> \/ 0 < OrderingKey(f)[3] \/ 0 < OrderingKey(f)[4]
                               \/ 0 < OrderingKey(f)[5]
         /\ OrderingKey(f)[1] = f.start /\ OrderingKey(f)[2] = f.end
         /\ OrderingKey(f)[3] \in Nat /\ OrderingKey(f)[4] \in Nat /\ OrderingKey(f)[5] \in Nat
         /\ OrderingKey(f)[6] \in Nat
<1>1. /\ f.start \in Nat /\ f.end \in Nat /\ f.name \in Nat /\ f.lines \in Seq(Rows)
      /\ f.calls \in Seq(Nat) /\ IsFiniteSet(f.sites) /\ f.merged = <<>>
  BY DEF Plain
<1>2. Cardinality(f.sites) \in Nat /\ (Cardinality(f.sites) = 0 <=> f.sites = {})
  BY <1>1, FS_CardinalityType, FS_EmptySet
<1>3. /\ Len(f.calls) \in Nat /\ (Len(f.calls) = 0 <=> f.calls = <<>>)
      /\ Len(f.lines) \in Nat /\ (Len(f.lines) = 0 <=> f.lines = <<>>)
      /\ Len(f.merged) = 0
  <2>1. Len(f.calls) \in Nat /\ (Len(f.calls) = 0 <=> f.calls = <<>>)
    BY <1>1, EmptySeq
  <2>2. Len(f.lines) \in Nat /\ (Len(f.lines) = 0 <=> f.lines = <<>>)
    BY <1>1, EmptySeq
  <2> QED BY <1>1, <2>1, <2>2
<1>4. OrderingKey(f) \in Keys(7)
  BY <1>1, <1>2, <1>3 DEF OrderingKey, Keys
<1>5. /\ OrderingKey(f)[1] = f.start /\ OrderingKey(f)[2] = f.end
      /\ OrderingKey(f)[3] = Len(f.calls) /\ OrderingKey(f)[4] = Len(f.lines)
      /\ OrderingKey(f)[5] = Cardinality(f.sites) /\ OrderingKey(f)[6] = Len(f.merged)
  BY DEF OrderingKey
<1> QED
  BY <1>2, <1>3, <1>4, <1>5 DEF HasRichInfo

LEMMA PlainType ==
  ASSUME NEW f \in Plain
  PROVE  /\ f.start \in Nat /\ f.end \in Nat /\ f.start <= f.end
         /\ f.name \in Nat \ {0} /\ f.lines \in Seq(Rows) /\ f.merged = <<>>
BY DEF Plain

RangeBefore(f, g) == f.start < g.start \/ (f.start = g.start /\ f.end < g.end)

\* Functions sorted by their keys.
Ordered(S, n) ==
  /\ n \in Nat /\ S \in [1..n -> Plain]
  /\ \A p, q \in 1..n : p < q => ~Precedes(OrderingKey(S[q]), OrderingKey(S[p]))

\* In sorted functions ranges ascend, and of one range the plain ones come first.
LEMMA OrderedRanges ==
  ASSUME NEW S, NEW n, Ordered(S, n), NEW p \in 1..n, NEW q \in 1..n, p < q
  PROVE  \/ RangeBefore(S[p], S[q])
         \/ SameRange(S[p], S[q]) /\ (HasRichInfo(S[p]) => HasRichInfo(S[q]))
<1> DEFINE k == OrderingKey(S[p])
           l == OrderingKey(S[q])
<1>1. S[p] \in Plain /\ S[q] \in Plain /\ ~Precedes(l, k) /\ 7 \in Nat
  BY DEF Ordered
<1>2. /\ k \in Keys(7) /\ l \in Keys(7)
      /\ k[1] = S[p].start /\ k[2] = S[p].end /\ l[1] = S[q].start /\ l[2] = S[q].end
      /\ HasRichInfo(S[p]) <=> 0 < k[3] \/ 0 < k[4] \/ 0 < k[5]
      /\ HasRichInfo(S[q]) <=> 0 < l[3] \/ 0 < l[4] \/ 0 < l[5]
      /\ k[3] \in Nat /\ k[4] \in Nat /\ k[5] \in Nat
      /\ l[3] \in Nat /\ l[4] \in Nat /\ l[5] \in Nat
  BY <1>1, PlainKey
<1> HIDE DEF k, l
<1>3. CASE k = l
  BY <1>2, <1>3 DEF SameRange
<1>4. CASE k # l
  <2>1. Precedes(k, l)
    BY <1>1, <1>2, <1>4, KeysDiffer
  <2>2. PICK i \in 1..7 : k[i] < l[i] /\ \A j \in 1..i - 1 : k[j] = l[j]
    BY <1>2, <2>1 DEF Precedes, Keys
  <2>3. CASE i = 1
    BY <1>2, <2>2, <2>3 DEF RangeBefore
  <2>4. CASE i = 2
    <3>1. k[1] = l[1]
      BY <2>2, <2>4
    <3> QED BY <1>2, <2>2, <2>4, <3>1 DEF RangeBefore
  <2>5. CASE i \in 3..7
    <3>1. k[1] = l[1] /\ k[2] = l[2]
      BY <2>2, <2>5
    <3>2. HasRichInfo(S[p]) => HasRichInfo(S[q])
      <4>1. CASE i = 3
        BY <1>2, <2>2, <4>1
      <4>2. CASE i = 4
        BY <1>2, <2>2, <4>2
      <4>3. CASE i = 5
        BY <1>2, <2>2, <4>3
      <4>4. CASE i \in 6..7
        <5>1. k[3] = l[3] /\ k[4] = l[4] /\ k[5] = l[5]
          BY <2>2, <4>4
        <5> QED BY <1>2, <5>1
      <4> QED BY <2>5, <4>1, <4>2, <4>3, <4>4
    <3> QED BY <1>2, <3>1, <3>2 DEF SameRange
  <2> QED BY <2>2, <2>3, <2>4, <2>5
<1> QED
  BY <1>3, <1>4

\* Sorting candidates rearranges them, and orders them.
LEMMA SortedOf ==
  ASSUME NEW added \in Seq(Candidates), \A i \in DOMAIN added : added[i].start <= added[i].end
  PROVE  LET n == Len(added)
             S == Sorted(added)
         IN /\ Ordered(S, n)
            /\ \E from \in Bijection(1..n, 1..n) :
                 \A p \in 1..n : S[p] = Compacted(added[from[p]])
<1> DEFINE n == Len(added)
           fs == [i \in DOMAIN added |-> Compacted(added[i])]
           S == SortByOrderingKey(fs)
           from == [place \in 1..n |-> CHOOSE i \in DOMAIN fs : PlaceOf(fs, i) = place]
<1>1. n \in Nat /\ DOMAIN added = 1..n /\ \A i \in 1..n : added[i] \in Candidates
  OBVIOUS
<1>2. \A i \in 1..n : fs[i] \in Plain /\ fs[i] = Compacted(added[i])
  BY <1>1, PlainOf
<1>3. DOMAIN fs = 1..n /\ Sortable(fs, n)
  BY <1>1, <1>2, PlainKey DEF Sortable
<1> HIDE DEF fs, n
<1>4. ASSUME NEW place \in 1..n PROVE from[place] \in 1..n /\ PlaceOf(fs, from[place]) = place
  <2>1. \E i \in 1..n : PlaceOf(fs, i) = place
    BY <1>3, PlacesTaken
  <2>2. from[place] = CHOOSE i \in 1..n : PlaceOf(fs, i) = place
    BY <1>3
  <2> HIDE DEF from
  <2> QED BY <2>1, <2>2
<1>5. S = [place \in 1..n |-> fs[from[place]]]
  BY <1>3 DEF SortByOrderingKey
<1>6. from \in [1..n -> 1..n]
  BY <1>4
<1> HIDE DEF from, S
<1>7. from \in Bijection(1..n, 1..n)
  <2>1. \A p, q \in 1..n : from[p] = from[q] => p = q
    BY <1>4
  <2>2. from \in Injection(1..n, 1..n)
    BY <1>6, <2>1, Fun_IsInj
  <2>3. IsFiniteSet(1..n)
    BY <1>3, FS_Interval DEF Sortable
  <2>4. from \in Surjection(1..n, 1..n)
    BY <2>2, <2>3, FS_Injection
  <2> QED BY <2>2, <2>4 DEF Bijection
<1>8. ASSUME NEW p \in 1..n, NEW q \in 1..n, p < q
      PROVE  ~Precedes(OrderingKey(S[q]), OrderingKey(S[p]))
  <2> SUFFICES ASSUME Precedes(OrderingKey(fs[from[q]]), OrderingKey(fs[from[p]])) PROVE FALSE
    BY <1>5
  <2>1. /\ from[p] \in 1..n /\ from[q] \in 1..n /\ n \in Nat
        /\ PlaceOf(fs, from[p]) = p /\ PlaceOf(fs, from[q]) = q
    BY <1>3, <1>4 DEF Sortable
  <2>2. /\ OrderingKey(fs[from[q]]) \in Keys(7) /\ OrderingKey(fs[from[p]]) \in Keys(7) /\ 7 \in Nat
        /\ from[p] \in Nat /\ from[q] \in Nat
    BY <1>3, <2>1 DEF Sortable
  <2>3. Precedes(Key(fs, from[q]), Key(fs, from[p]))
    BY <2>2, PositionDecides DEF Key
  <2>4. q < p
    BY <1>3, <2>1, <2>3, PlacesOrdered
  <2> QED BY <1>8, <2>1, <2>4
<1>9. S \in [1..n -> Plain]
  BY <1>2, <1>5, <1>6
<1>10. Ordered(S, n)
  BY <1>3, <1>8, <1>9 DEF Ordered, Sortable
<1>11. \A p \in 1..n : S[p] = Compacted(added[from[p]])
  BY <1>2, <1>5, <1>6
<1>12. S = Sorted(added)
  BY DEF S, fs, Sorted
<1> QED
  BY <1>7, <1>10, <1>11, <1>12 DEF n

-----------------------------------------------------------------------------
(* What is kept of the first functions, one function after another. *)

LEMMA KeptSteps ==
  ASSUME NEW S, NEW policy, policy # "Preserve", Len(S) \in Nat
  PROVE  \E kept :
           /\ kept[0] = <<>>
           /\ \A n \in 1..Len(S) : kept[n] = Step(policy, kept[n - 1], S[n])
           /\ FunctionSet(S, policy) = kept[Len(S)]
<1> DEFINE L == Len(S)
           Next0(g, n) == IF n = 0 THEN <<>> ELSE Step(policy, g[n - 1], S[n])
           Upto(m) == \E g : g = [n \in 0..m |-> Next0(g, n)]
           Bad == {m \in 0..L : ~Upto(m)}
<1>1. L \in Nat
  OBVIOUS
<1> HIDE DEF L
<1>2. ASSUME NEW m \in Bad, \A n \in Bad : m <= n PROVE FALSE
  <2>1. m \in 0..L /\ m \in Nat
    BY <1>1
  <2>2. CASE m = 0
    <3> DEFINE g == [n \in 0..0 |-> <<>>]
    <3>1. g = [n \in 0..0 |-> Next0(g, n)]
      OBVIOUS
    <3> HIDE DEF Next0
    <3>2. Upto(0)
      BY <3>1
    <3> QED BY <2>2, <3>2
  <2>3. CASE m # 0
    <3>1. m - 1 \in 0..L /\ m - 1 \notin Bad
      <4>1. m - 1 \in 0..L /\ ~(m <= m - 1)
        BY <1>1, <2>1, <2>3
      <4> HIDE DEF Bad
      <4> QED BY <1>2, <4>1
    <3>2. PICK g : g = [n \in 0..m - 1 |-> Next0(g, n)]
      <4>1. Upto(m - 1)
        <5> HIDE DEF Upto
        <5> QED BY <3>1
      <4> QED BY <4>1
    <3> DEFINE h == [n \in 0..m |-> IF n < m THEN g[n] ELSE Step(policy, g[m - 1], S[m])]
    <3>3. ASSUME NEW n \in 0..m PROVE h[n] = Next0(h, n)
      <4>1. CASE n = m
        <5>1. m - 1 \in 0..m /\ m - 1 < m
          BY <2>1, <2>3
        <5>2. h[m - 1] = g[m - 1]
          BY <5>1
        <5>3. h[m] = Step(policy, g[m - 1], S[m])
          BY <2>1
        <5> HIDE DEF h
        <5> QED BY <2>3, <4>1, <5>2, <5>3
      <4>2. CASE n # m
        <5>1. n \in 0..m - 1 /\ n < m /\ n \in Nat
          BY <2>1, <4>2
        <5>2. h[n] = g[n]
          BY <5>1
        <5>3. g[n] = Next0(g, n)
          <6> HIDE DEF Next0
          <6> QED BY <3>2, <5>1, Zenon
        <5>4. n # 0 => n - 1 \in 0..m /\ n - 1 < m
          BY <2>1, <5>1
        <5>5. n # 0 => h[n - 1] = g[n - 1]
          BY <5>4
        <5> HIDE DEF h
        <5> QED BY <5>2, <5>3, <5>5
      <4> QED BY <4>1, <4>2
    <3>4. h = [n \in 0..m |-> h[n]]
      OBVIOUS
    <3> HIDE DEF h
    <3>5. h = [n \in 0..m |-> Next0(h, n)]
      <4> HIDE DEF Next0
      <4> QED BY <3>3, <3>4, Zenon
    <3> HIDE DEF Next0
    <3>6. Upto(m)
      BY <3>5
    <3> QED BY <3>6
  <2> QED BY <2>2, <2>3
<1>3. Bad = {}
  <2>1. Bad \in SUBSET Nat
    BY <1>1
  <2> HIDE DEF Bad
  <2> QED BY <1>2, <2>1, LeastOf
<1> DEFINE kept == CHOOSE g : g = [n \in 0..L |-> Next0(g, n)]
<1>4. kept = [n \in 0..L |-> Next0(kept, n)]
  <2>1. L \in 0..L
    BY <1>1
  <2> HIDE DEF Next0
  <2>2. Upto(L)
    BY <1>3, <2>1
  <2> QED BY <2>2
<1>5. FunctionSet(S, policy) = kept[L]
  BY DEF FunctionSet, L
<1> HIDE DEF kept
<1>6. kept[0] = <<>> /\ \A n \in 1..L : kept[n] = Step(policy, kept[n - 1], S[n])
  <2>1. ASSUME NEW n \in 0..L PROVE kept[n] = Next0(kept, n)
    <3> HIDE DEF Next0
    <3> QED BY <1>4, Zenon
  <2>2. 0 \in 0..L /\ \A n \in 1..L : n \in 0..L /\ n # 0
    BY <1>1
  <2> QED BY <2>1, <2>2
<1> QED
  BY <1>5, <1>6 DEF L

-----------------------------------------------------------------------------
(* Deduplication. *)

\* What function i becomes when it is the last of its range so far.
Best(S, i) ==
  IF i > 1 /\ SameRange(S[i - 1], S[i]) THEN Survivor(S[i - 1], S[i]) ELSE S[i]

LEMMA BestOf ==
  ASSUME NEW S, NEW n, Ordered(S, n), NEW i \in 1..n
  PROVE  /\ Best(S, i) \in Plain /\ SameRange(Best(S, i), S[i])
         /\ HasRichInfo(Best(S, i)) <=> HasRichInfo(S[i])
         /\ ~HasRichInfo(S[i]) => Best(S, i) = S[i]
         /\ Best(S, i).name # S[i].name =>
              /\ i > 1 /\ SameRange(S[i - 1], S[i]) /\ HasRichInfo(S[i]) /\ ~HasRichInfo(S[i - 1])
              /\ <<S[i - 1].name, S[i].name>> \in Mangled
              /\ Best(S, i).name = S[i - 1].name
         /\ i > 1 /\ SameRange(S[i - 1], S[i]) /\ HasRichInfo(S[i]) /\ ~HasRichInfo(S[i - 1])
            /\ <<S[i - 1].name, S[i].name>> \in Mangled
              => Best(S, i).name = S[i - 1].name
<1>1. S[i] \in Plain /\ n \in Nat
  BY DEF Ordered
<1>2. CASE ~(i > 1 /\ SameRange(S[i - 1], S[i]))
  BY <1>1, <1>2 DEF Best, SameRange
<1>3. CASE i > 1 /\ SameRange(S[i - 1], S[i])
  <2>1. i - 1 \in 1..n /\ i - 1 < i
    BY <1>1, <1>3
  <2>2. S[i - 1] \in Plain
    BY <2>1 DEF Ordered
  <2>3. HasRichInfo(S[i - 1]) => HasRichInfo(S[i])
    BY <1>3, <2>1, <2>2, OrderedRanges DEF RangeBefore, SameRange, Plain
  <2>5. HasRichInfo(S[i]) /\ ~HasRichInfo(S[i - 1]) =>
           Best(S, i) = [S[i] EXCEPT !.name = IF <<S[i - 1].name, S[i].name>> \in Mangled
                                              THEN S[i - 1].name ELSE S[i].name]
    BY <1>3 DEF Best, Survivor
  <2>4. \/ Best(S, i) = S[i]
        \/ /\ HasRichInfo(S[i]) /\ ~HasRichInfo(S[i - 1])
           /\ Best(S, i) = [S[i] EXCEPT !.name = IF <<S[i - 1].name, S[i].name>> \in Mangled
                                                 THEN S[i - 1].name ELSE S[i].name]
    <3>1. CASE HasRichInfo(S[i]) /\ ~HasRichInfo(S[i - 1])
      BY <2>5, <3>1
    <3>2. CASE HasRichInfo(S[i - 1]) = HasRichInfo(S[i])
      BY <1>3, <3>2 DEF Best, Survivor
    <3>3. HasRichInfo(S[i]) \in BOOLEAN /\ HasRichInfo(S[i - 1]) \in BOOLEAN
      BY DEF HasRichInfo
    <3> QED BY <2>3, <3>1, <3>2, <3>3
  <2>6. CASE Best(S, i) = S[i]
    BY <1>1, <1>3, <2>5, <2>6 DEF SameRange, Plain
  <2>7. CASE /\ HasRichInfo(S[i]) /\ ~HasRichInfo(S[i - 1])
             /\ Best(S, i) = [S[i] EXCEPT !.name = IF <<S[i - 1].name, S[i].name>> \in Mangled
                                                   THEN S[i - 1].name ELSE S[i].name]
    BY <1>1, <1>3, <2>2, <2>7 DEF SameRange, Plain, HasRichInfo
  <2> QED BY <2>4, <2>6, <2>7
<1> QED
  BY <1>2, <1>3

LEMMA BestRows ==
  ASSUME NEW S, NEW n, Ordered(S, n), NEW i \in 1..n
  PROVE  Best(S, i).lines = S[i].lines
<1>1. S[i] \in Plain /\ n \in Nat
  BY DEF Ordered
<1>2. CASE ~HasRichInfo(S[i])
  BY <1>2, BestOf
<1>3. CASE ~(i > 1 /\ SameRange(S[i - 1], S[i]))
  BY <1>3 DEF Best
<1>4. CASE HasRichInfo(S[i]) /\ i > 1 /\ SameRange(S[i - 1], S[i])
  <2>1. Best(S, i) = Survivor(S[i - 1], S[i])
    BY <1>4 DEF Best
  <2>2. CASE HasRichInfo(S[i - 1])
    BY <1>4, <2>1, <2>2 DEF Survivor
  <2>3. CASE ~HasRichInfo(S[i - 1])
    <3>1. Best(S, i) = [S[i] EXCEPT !.name = IF <<S[i - 1].name, S[i].name>> \in Mangled
                                             THEN S[i - 1].name ELSE S[i].name]
      BY <1>4, <2>1, <2>3 DEF Survivor
    <3> QED BY <1>1, <3>1 DEF Plain
  <2> QED BY <2>2, <2>3
<1> QED
  BY <1>2, <1>3, <1>4

\* What deduplication has kept of the first n functions.
Deduplicated(S, n, kept) ==
  /\ kept \in Seq(Plain)
  /\ n = 0 => kept = <<>>
  /\ n > 0 => Len(kept) > 0 /\ kept[Len(kept)] = Best(S, n)
  /\ \A t \in 1..Len(kept) :
       \E i \in 1..n : kept[t] = Best(S, i) /\ (i < n => ~SameRange(S[i], S[i + 1]))
  /\ \A t, u \in 1..Len(kept) :
       t < u => RangeBefore(kept[t], kept[u]) /\ (IsEmpty(kept[t]) => kept[t].start < kept[u].start)
  /\ \A i \in 1..n : \E t \in 1..Len(kept) :
       \/ SameRange(kept[t], S[i])
       \/ IsEmpty(S[i]) /\ ~IsEmpty(kept[t]) /\ kept[t].start = S[i].start

LEMMA AppendAt ==
  ASSUME NEW X, NEW s \in Seq(X), NEW x \in X
  PROVE  /\ Append(s, x) \in Seq(X) /\ Len(Append(s, x)) = Len(s) + 1
         /\ Append(s, x)[Len(s) + 1] = x
         /\ \A t \in 1..Len(s) : Append(s, x)[t] = s[t]
         /\ Len(s) \in Nat
OBVIOUS

LEMMA FrontAppend ==
  ASSUME NEW X, NEW s \in Seq(X), Len(s) > 0, NEW x \in X
  PROVE  /\ Append(Front(s), x) \in Seq(X) /\ Len(Append(Front(s), x)) = Len(s)
         /\ Append(Front(s), x)[Len(s)] = x
         /\ \A t \in 1..Len(s) - 1 : Append(Front(s), x)[t] = s[t]
         /\ Len(s) \in Nat
<1>1. Front(s) \in Seq(X) /\ Len(Front(s)) = Len(s) - 1 /\ Len(s) \in Nat
  <2>1. Len(s) - 1 \in Nat /\ 1 \in Int /\ \A i \in 1..Len(s) - 1 : s[i] \in X
    OBVIOUS
  <2>2. SubSeq(s, 1, Len(s) - 1) \in Seq(X) /\ Len(SubSeq(s, 1, Len(s) - 1)) = Len(s) - 1
    <3> DEFINE m == Len(s) - 1
    <3>1. m \in Nat /\ m \in Int /\ 1 \in Int /\ \A i \in 1..m : s[i] \in X
      BY <2>1
    <3> HIDE DEF m
    <3>2. /\ SubSeq(s, 1, m) \in Seq(X)
          /\ Len(SubSeq(s, 1, m)) = IF 1 <= m THEN m - 1 + 1 ELSE 0
      BY <3>1, SubSeqProperties
    <3>3. Len(SubSeq(s, 1, m)) = m
      BY <3>1, <3>2
    <3> QED BY <3>2, <3>3 DEF m
  <2> QED BY <2>1, <2>2 DEF Front
<1>2. \A t \in 1..Len(s) - 1 : Front(s)[t] = s[t]
  BY DEF Front
<1>3. /\ Append(Front(s), x) \in Seq(X) /\ Len(Append(Front(s), x)) = Len(Front(s)) + 1
      /\ Append(Front(s), x)[Len(Front(s)) + 1] = x
      /\ \A t \in 1..Len(Front(s)) : Append(Front(s), x)[t] = Front(s)[t]
  BY <1>1, AppendAt
<1>4. Len(s) - 1 + 1 = Len(s)
  BY <1>1
<1> QED
  BY <1>1, <1>2, <1>3, <1>4

LEMMA SurvivesAgain ==
  ASSUME NEW S, NEW N, Ordered(S, N), NEW n \in 1..N, n > 1, SameRange(S[n - 1], S[n])
  PROVE  Survivor(Best(S, n - 1), S[n]) = Best(S, n)
<1>1. n - 1 \in 1..N /\ N \in Nat
  BY DEF Ordered
<1>2. /\ HasRichInfo(Best(S, n - 1)) <=> HasRichInfo(S[n - 1])
      /\ ~HasRichInfo(S[n - 1]) => Best(S, n - 1) = S[n - 1]
  BY <1>1, BestOf
<1>3. HasRichInfo(S[n - 1]) => HasRichInfo(S[n])
  <2>1. S[n - 1] \in Plain /\ S[n] \in Plain /\ n - 1 < n
    BY <1>1 DEF Ordered
  <2>2. \/ RangeBefore(S[n - 1], S[n])
        \/ HasRichInfo(S[n - 1]) => HasRichInfo(S[n])
    BY <1>1, <2>1, OrderedRanges
  <2> QED BY <2>1, <2>2, PlainType DEF RangeBefore, SameRange
<1>4. Best(S, n) = Survivor(S[n - 1], S[n])
  BY DEF Best
<1> QED
  BY <1>2, <1>3, <1>4 DEF Survivor

\* One function more, kept in the place of the last one.
LEMMA ReplacesLast ==
  ASSUME NEW S, NEW N, Ordered(S, N), NEW n \in 1..N, n > 1, NEW kept, Deduplicated(S, n - 1, kept),
         ~SameRange(S[n - 1], S[n]) =>
            IsEmpty(S[n - 1]) /\ ~IsEmpty(S[n]) /\ S[n - 1].start = S[n].start
  PROVE  Deduplicated(S, n, Append(Front(kept), Best(S, n)))
<1> DEFINE L == Len(kept)
           b == Best(S, n)
           after == Append(Front(kept), b)
<1>1. /\ N \in Nat /\ n - 1 \in 1..N /\ n - 1 > 0 /\ n - 1 < n
      /\ S[n] \in Plain /\ S[n - 1] \in Plain
  BY DEF Ordered
<1>2. /\ b \in Plain /\ SameRange(b, S[n]) /\ SameRange(Best(S, n - 1), S[n - 1])
      /\ Best(S, n - 1) \in Plain
  BY <1>1, BestOf
<1>3. kept \in Seq(Plain) /\ L > 0 /\ kept[L] = Best(S, n - 1)
  BY <1>1 DEF Deduplicated
<1> HIDE DEF b
<1>4. /\ after \in Seq(Plain) /\ Len(after) = L /\ after[L] = b /\ L \in Nat
      /\ \A t \in 1..L - 1 : after[t] = kept[t]
  BY <1>2, <1>3, FrontAppend
<1> HIDE DEF after, L
<1>5. \A t \in 1..L : kept[t] \in Plain
  BY <1>3 DEF L
<1>6. \A t \in 1..L - 1 : RangeBefore(kept[t], kept[L]) /\
                          (IsEmpty(kept[t]) => kept[t].start < kept[L].start)
  <2> TAKE t \in 1..L - 1
  <2>1. t \in 1..Len(kept) /\ L \in 1..Len(kept) /\ t < L
    BY <1>3, <1>4 DEF L
  <2> QED BY <2>1 DEF Deduplicated
<1>7. ASSUME NEW t \in 1..L - 1
      PROVE  RangeBefore(after[t], b) /\ (IsEmpty(after[t]) => after[t].start < b.start)
  <2>1. kept[t] \in Plain /\ kept[L] \in Plain /\ after[t] = kept[t]
    BY <1>3, <1>4, <1>5
  <2>2. CASE SameRange(S[n - 1], S[n])
    BY <1>2, <1>3, <1>6, <2>1, <2>2 DEF SameRange, RangeBefore
  <2>3. CASE ~SameRange(S[n - 1], S[n])
    <3>1. /\ kept[L].start = kept[L].end /\ kept[L].start = b.start /\ b.start # b.end
      BY <1>2, <1>3, <2>3 DEF SameRange, IsEmpty
    <3>2. /\ kept[t].start \in Nat /\ kept[t].end \in Nat /\ kept[t].start <= kept[t].end
          /\ b.start \in Nat /\ b.end \in Nat /\ b.start <= b.end
      BY <1>2, <2>1, PlainType
    <3>3. RangeBefore(kept[t], kept[L]) /\ (IsEmpty(kept[t]) => kept[t].start < kept[L].start)
      BY <1>6
    <3> QED BY <2>1, <3>1, <3>2, <3>3 DEF RangeBefore, IsEmpty
  <2> QED BY <2>2, <2>3
<1>8. ASSUME NEW t \in 1..L
      PROVE  \E i \in 1..n : after[t] = Best(S, i) /\ (i < n => ~SameRange(S[i], S[i + 1]))
  <2>1. CASE t = L
    <3>1. n \in 1..n /\ ~(n < n)
      BY <1>1
    <3> QED BY <1>4, <2>1, <3>1 DEF b
  <2>2. CASE t # L
    <3>1. t \in 1..L - 1 /\ after[t] = kept[t]
      BY <1>4, <2>2
    <3>2. PICK i \in 1..n - 1 : kept[t] = Best(S, i) /\ (i < n - 1 => ~SameRange(S[i], S[i + 1]))
      BY DEF Deduplicated, L
    <3>3. i # n - 1
      <4> SUFFICES ASSUME i = n - 1 PROVE FALSE
        OBVIOUS
      <4>1. kept[t] = kept[L] /\ RangeBefore(kept[t], kept[L])
        BY <1>3, <1>6, <3>1, <3>2
      <4>2. kept[L].start \in Nat /\ kept[L].end \in Nat
        BY <1>2, <1>3, PlainType
      <4> QED BY <4>1, <4>2 DEF RangeBefore
    <3>4. i \in 1..n /\ i < n - 1
      BY <1>1, <3>2, <3>3
    <3> QED BY <3>1, <3>2, <3>4
  <2> QED BY <2>1, <2>2
<1>9. ASSUME NEW t \in 1..L, NEW u \in 1..L, t < u
      PROVE  RangeBefore(after[t], after[u]) /\ (IsEmpty(after[t]) => after[t].start < after[u].start)
  <2>1. t \in 1..L - 1
    BY <1>4, <1>9
  <2>2. CASE u = L
    BY <1>4, <1>7, <2>1, <2>2
  <2>3. CASE u # L
    <3>1. u \in 1..L - 1 /\ after[t] = kept[t] /\ after[u] = kept[u]
      BY <1>4, <2>1, <2>3
    <3>2. t \in 1..Len(kept) /\ u \in 1..Len(kept)
      BY <1>4 DEF L
    <3> QED BY <1>9, <3>1, <3>2 DEF Deduplicated
  <2> QED BY <2>2, <2>3
<1>10. ASSUME NEW i \in 1..n
       PROVE  \E t \in 1..L : \/ SameRange(after[t], S[i])
                              \/ IsEmpty(S[i]) /\ ~IsEmpty(after[t]) /\ after[t].start = S[i].start
  <2>1. L \in 1..L
    BY <1>3, <1>4
  <2>2. CASE i = n
    BY <1>2, <1>4, <2>1, <2>2
  <2>3. CASE i # n
    <3>1. i \in 1..n - 1 /\ i \in 1..N
      BY <1>1, <2>3
    <3>2. PICK t \in 1..L : \/ SameRange(kept[t], S[i])
                            \/ IsEmpty(S[i]) /\ ~IsEmpty(kept[t]) /\ kept[t].start = S[i].start
      BY <3>1 DEF Deduplicated, L
    <3>3. CASE t # L
      <4>1. after[t] = kept[t]
        BY <1>4, <3>3
      <4> QED BY <3>2, <4>1
    <3>4. CASE t = L
      <4>1. CASE SameRange(S[n - 1], S[n])
        BY <1>2, <1>3, <1>4, <2>1, <3>2, <3>4, <4>1 DEF SameRange, IsEmpty
      <4>2. CASE ~SameRange(S[n - 1], S[n])
        <5>1. IsEmpty(kept[L]) /\ ~IsEmpty(b) /\ b.start = kept[L].start
          BY <1>2, <1>3, <4>2 DEF SameRange, IsEmpty
        <5>2. IsEmpty(S[i]) /\ b.start = S[i].start
          BY <3>2, <3>4, <5>1 DEF SameRange, IsEmpty
        <5> QED BY <1>4, <2>1, <5>1, <5>2
      <4> QED BY <4>1, <4>2
    <3> QED BY <3>3, <3>4
  <2> QED BY <2>2, <2>3
<1>11. n > 0 /\ n # 0
  BY <1>1
<1> QED
  BY <1>3, <1>4, <1>8, <1>9, <1>10, <1>11 DEF Deduplicated, b, after

\* One function more, kept behind the last one.
LEMMA FollowsLast ==
  ASSUME NEW S, NEW N, Ordered(S, N), NEW n \in 1..N, NEW kept, Deduplicated(S, n - 1, kept),
         n > 1 => /\ ~SameRange(S[n - 1], S[n])
                  /\ IsEmpty(S[n - 1]) => S[n - 1].start < S[n].start
  PROVE  Deduplicated(S, n, Append(kept, S[n]))
<1> DEFINE L == Len(kept)
           after == Append(kept, S[n])
<1>1. N \in Nat /\ S[n] \in Plain /\ n \in Nat /\ n - 1 \in Nat
  BY DEF Ordered
<1>2. Best(S, n) = S[n]
  BY DEF Best
<1>3. kept \in Seq(Plain) /\ (n = 1 => L = 0) /\ (n > 1 => L > 0 /\ kept[L] = Best(S, n - 1))
  BY <1>1 DEF Deduplicated
<1>4. /\ after \in Seq(Plain) /\ Len(after) = L + 1 /\ after[L + 1] = S[n] /\ L \in Nat
      /\ \A t \in 1..L : after[t] = kept[t]
  BY <1>1, <1>3, AppendAt
<1> HIDE DEF after, L
<1>5. \A t \in 1..L : kept[t] \in Plain
  BY <1>3 DEF L
<1>6. ASSUME NEW t \in 1..L
      PROVE  RangeBefore(kept[t], S[n]) /\ (IsEmpty(kept[t]) => kept[t].start < S[n].start)
  <2>1. n > 1 /\ n - 1 \in 1..N /\ n - 1 < n
    BY <1>1, <1>3, <1>4
  <2>2. /\ SameRange(kept[L], S[n - 1]) /\ S[n - 1] \in Plain
        /\ RangeBefore(S[n - 1], S[n])
    <3>1. SameRange(Best(S, n - 1), S[n - 1])
      BY <2>1, BestOf
    <3>2. RangeBefore(S[n - 1], S[n])
      BY <2>1, OrderedRanges
    <3>3. S[n - 1] \in Plain
      BY <2>1 DEF Ordered
    <3> QED BY <1>3, <2>1, <3>1, <3>2, <3>3
  <2>3. CASE t = L
    BY <2>1, <2>2, <2>3 DEF SameRange, RangeBefore, IsEmpty
  <2>4. CASE t # L
    <3>1. t \in 1..L /\ L \in 1..L /\ t < L
      BY <1>4, <2>4
    <3>2. RangeBefore(kept[t], kept[L]) /\ (IsEmpty(kept[t]) => kept[t].start < kept[L].start)
      BY <3>1 DEF Deduplicated, L
    <3>3. /\ kept[t].start \in Nat /\ kept[t].end \in Nat
          /\ kept[L].start \in Nat /\ kept[L].end \in Nat
          /\ S[n].start \in Nat /\ S[n].end \in Nat
      BY <1>1, <1>5, <3>1, PlainType
    <3> QED BY <2>2, <3>2, <3>3 DEF SameRange, RangeBefore
  <2> QED BY <2>3, <2>4
<1>7. ASSUME NEW t \in 1..L + 1
      PROVE  \E i \in 1..n : after[t] = Best(S, i) /\ (i < n => ~SameRange(S[i], S[i + 1]))
  <2>1. CASE t = L + 1
    <3>1. n \in 1..n /\ ~(n < n)
      BY <1>1
    <3> QED BY <1>2, <1>4, <2>1, <3>1
  <2>2. CASE t # L + 1
    <3>1. t \in 1..L /\ after[t] = kept[t]
      BY <1>4, <2>2
    <3>2. PICK i \in 1..n - 1 : kept[t] = Best(S, i) /\ (i < n - 1 => ~SameRange(S[i], S[i + 1]))
      BY <3>1 DEF Deduplicated, L
    <3>3. CASE i = n - 1
      <4>1. i \in 1..n /\ i + 1 = n /\ n > 1
        BY <1>1, <3>2, <3>3
      <4> QED BY <3>1, <3>2, <3>3, <4>1
    <3>4. CASE i # n - 1
      <4>1. i \in 1..n /\ i < n - 1
        BY <1>1, <3>2, <3>4
      <4> QED BY <3>1, <3>2, <4>1
    <3> QED BY <3>3, <3>4
  <2> QED BY <2>1, <2>2
<1>8. ASSUME NEW t \in 1..L + 1, NEW u \in 1..L + 1, t < u
      PROVE  RangeBefore(after[t], after[u]) /\ (IsEmpty(after[t]) => after[t].start < after[u].start)
  <2>1. t \in 1..L
    BY <1>4, <1>8
  <2>2. CASE u = L + 1
    BY <1>4, <1>6, <2>1, <2>2
  <2>3. CASE u # L + 1
    <3>1. u \in 1..L /\ after[t] = kept[t] /\ after[u] = kept[u]
      BY <1>4, <2>1, <2>3
    <3>2. t \in 1..Len(kept) /\ u \in 1..Len(kept)
      BY <1>4, <2>1, <3>1 DEF L
    <3> QED BY <1>8, <3>1, <3>2 DEF Deduplicated
  <2> QED BY <2>2, <2>3
<1>9. ASSUME NEW i \in 1..n
      PROVE  \E t \in 1..L + 1 : \/ SameRange(after[t], S[i])
                                 \/ IsEmpty(S[i]) /\ ~IsEmpty(after[t]) /\ after[t].start = S[i].start
  <2>1. CASE i = n
    <3>1. L + 1 \in 1..L + 1
      BY <1>4
    <3> QED BY <1>4, <2>1, <3>1 DEF SameRange
  <2>2. CASE i # n
    <3>1. i \in 1..n - 1
      BY <1>1, <2>2
    <3>2. PICK t \in 1..L : \/ SameRange(kept[t], S[i])
                            \/ IsEmpty(S[i]) /\ ~IsEmpty(kept[t]) /\ kept[t].start = S[i].start
      BY <3>1 DEF Deduplicated, L
    <3>3. t \in 1..L + 1 /\ after[t] = kept[t]
      BY <1>4
    <3> QED BY <3>2, <3>3
  <2> QED BY <2>1, <2>2
<1>10. n > 0 /\ n # 0 /\ L + 1 > 0
  BY <1>1, <1>4
<1>11. /\ \A t \in 1..Len(after) :
            \E i \in 1..n : after[t] = Best(S, i) /\ (i < n => ~SameRange(S[i], S[i + 1]))
       /\ \A t, u \in 1..Len(after) :
            t < u => RangeBefore(after[t], after[u]) /\ (IsEmpty(after[t]) => after[t].start < after[u].start)
       /\ \A i \in 1..n : \E t \in 1..Len(after) :
            \/ SameRange(after[t], S[i])
            \/ IsEmpty(S[i]) /\ ~IsEmpty(after[t]) /\ after[t].start = S[i].start
  <2> HIDE DEF after
  <2> QED BY <1>4, <1>7, <1>8, <1>9
<1>12. /\ after \in Seq(Plain)
       /\ Len(after) > 0 /\ after[Len(after)] = Best(S, n)
  <2> HIDE DEF after
  <2> QED BY <1>2, <1>4, <1>10
<1> HIDE DEF after
<1>13. Deduplicated(S, n, after)
  BY <1>10, <1>11, <1>12 DEF Deduplicated
<1> QED
  BY <1>13 DEF after

LEMMA DedupKeeps ==
  ASSUME NEW S, NEW N, Ordered(S, N), NEW n \in 1..N, NEW kept, Deduplicated(S, n - 1, kept)
  PROVE  Deduplicated(S, n, DedupStep(kept, S[n]))
<1>1. N \in Nat /\ S[n] \in Plain /\ n \in Nat
  BY DEF Ordered
<1>2. CASE n = 1
  <2>1. kept = <<>>
    BY <1>2 DEF Deduplicated
  <2>2. DedupStep(kept, S[n]) = Append(kept, S[n])
    BY <2>1 DEF DedupStep
  <2> QED BY <1>1, <1>2, <2>2, FollowsLast
<1>3. CASE n > 1
  <2>1. n - 1 \in 1..N /\ n - 1 > 0 /\ n - 1 < n
    BY <1>1, <1>3
  <2>2. kept # <<>> /\ Last(kept) = Best(S, n - 1)
    BY <2>1 DEF Deduplicated, Last
  <2>3. SameRange(Best(S, n - 1), S[n - 1]) /\ S[n - 1] \in Plain /\ Best(S, n - 1) \in Plain
    BY <2>1, BestOf DEF Ordered
  <2>4. CASE SameRange(S[n - 1], S[n])
    <3>1. DedupStep(kept, S[n]) = Append(Front(kept), Best(S, n))
      BY <1>3, <2>2, <2>3, <2>4, SurvivesAgain DEF DedupStep, SameRange
    <3> QED BY <1>3, <2>4, <3>1, ReplacesLast
  <2>5. CASE ~SameRange(S[n - 1], S[n]) /\ IsEmpty(S[n - 1]) /\ Covers(S[n], S[n - 1].start)
    <3>1. RangeBefore(S[n - 1], S[n])
      BY <2>1, <2>5, OrderedRanges
    <3>2. ~IsEmpty(S[n]) /\ S[n - 1].start = S[n].start
      <4>1. /\ S[n].start \in Nat /\ S[n].end \in Nat
            /\ S[n - 1].start \in Nat /\ S[n - 1].end \in Nat
        BY <1>1, <2>3, PlainType
      <4> QED BY <2>5, <3>1, <4>1 DEF RangeBefore, IsEmpty, Covers
    <3>3. Best(S, n) = S[n]
      BY <2>5 DEF Best
    <3>4. DedupStep(kept, S[n]) = Append(Front(kept), Best(S, n))
      BY <2>2, <2>3, <2>5, <3>3 DEF DedupStep, SameRange, IsEmpty
    <3> QED BY <1>3, <2>5, <3>2, <3>4, ReplacesLast
  <2>6. CASE ~SameRange(S[n - 1], S[n]) /\ ~(IsEmpty(S[n - 1]) /\ Covers(S[n], S[n - 1].start))
    <3>1. RangeBefore(S[n - 1], S[n])
      BY <2>1, <2>6, OrderedRanges
    <3>2. IsEmpty(S[n - 1]) => S[n - 1].start < S[n].start
      <4>1. /\ S[n].start \in Nat /\ S[n].end \in Nat
            /\ S[n - 1].start \in Nat /\ S[n - 1].end \in Nat
        BY <1>1, <2>3, PlainType
      <4> QED BY <2>6, <3>1, <4>1 DEF RangeBefore, IsEmpty, Covers
    <3>3. DedupStep(kept, S[n]) = Append(kept, S[n])
      BY <2>2, <2>3, <2>6 DEF DedupStep, SameRange, IsEmpty
    <3> QED BY <2>6, <3>2, <3>3, FollowsLast
  <2> QED BY <2>4, <2>5, <2>6
<1> QED
  BY <1>1, <1>2, <1>3

LEMMA DedupResult ==
  ASSUME NEW S, NEW N, Ordered(S, N), Len(S) = N,
         NEW policy, policy \notin {"Preserve", "MergeEqualRanges"}
  PROVE  Deduplicated(S, N, FunctionSet(S, policy))
<1>1. N \in Nat
  BY DEF Ordered
<1>2. PICK kept :
        /\ kept[0] = <<>>
        /\ \A n \in 1..N : kept[n] = Step(policy, kept[n - 1], S[n])
        /\ FunctionSet(S, policy) = kept[N]
  BY <1>1, KeptSteps
<1> DEFINE Bad == {n \in 0..N : ~Deduplicated(S, n, kept[n])}
<1>3. ASSUME NEW n \in Bad, \A m \in Bad : n <= m PROVE FALSE
  <2>1. n \in 0..N /\ ~Deduplicated(S, n, kept[n])
    OBVIOUS
  <2>2. CASE n = 0
    <3>1. <<>> \in Seq(Plain) /\ \A t \in 1..Len(<<>>) : FALSE
      OBVIOUS
    <3>2. kept[n] = <<>> /\ ~(n > 0) /\ \A i \in 1..n : FALSE
      BY <1>2, <2>2
    <3> QED BY <2>1, <3>1, <3>2 DEF Deduplicated
  <2>3. CASE n # 0
    <3>1. n \in 1..N /\ n - 1 \in 0..N /\ ~(n <= n - 1)
      BY <1>1, <2>1, <2>3
    <3>2. n - 1 \notin Bad
      <4> HIDE DEF Bad
      <4> QED BY <1>3, <3>1
    <3>3. Deduplicated(S, n - 1, kept[n - 1])
      BY <3>1, <3>2
    <3>4. kept[n] = DedupStep(kept[n - 1], S[n])
      BY <1>2, <3>1 DEF Step
    <3> QED BY <2>1, <3>1, <3>3, <3>4, DedupKeeps
  <2> QED BY <2>2, <2>3
<1>4. Bad = {}
  <2>1. Bad \in SUBSET Nat
    BY <1>1
  <2> HIDE DEF Bad
  <2> QED BY <1>3, <2>1, LeastOf
<1>5. N \in 0..N
  BY <1>1
<1> QED
  BY <1>2, <1>4, <1>5

-----------------------------------------------------------------------------
(* The functions added, and the sorted table of them. *)

LEMMA CompactedOf ==
  ASSUME NEW f \in Candidates, f.start <= f.end
  PROVE  LET c == Compacted(f)
         IN /\ f \in Plain /\ c \in Plain /\ SameRange(c, f) /\ c.name = f.name
            /\ c.lines = CompactRows(f.lines)
            /\ HasRichInfo(c) <=> HasRichInfo(f)
<1> DEFINE c == Compacted(f)
<1>1. /\ f \in Plain /\ c \in Plain /\ c = [f EXCEPT !.lines = CompactRows(f.lines)]
  BY PlainOf
<1> HIDE DEF c
<1>2. /\ c.start = f.start /\ c.end = f.end /\ c.name = f.name /\ c.calls = f.calls
      /\ c.sites = f.sites /\ c.lines = CompactRows(f.lines)
  BY <1>1 DEF Plain
<1>3. c.lines = <<>> <=> f.lines = <<>>
  <2>1. f.lines \in Seq(Rows)
    BY <1>1, PlainType
  <2>2. PICK at \in [1..Len(c.lines) -> RowsKept(f.lines)] :
          /\ Len(c.lines) \in Nat /\ c.lines \in Seq(Rows)
          /\ \A i \in RowsKept(f.lines) : \E k \in 1..Len(c.lines) : at[k] = i
    BY <1>2, <2>1, CompactRowsOf
  <2>3. RowsKept(f.lines) \subseteq 1..Len(f.lines) /\ Len(f.lines) \in Nat
    BY <2>1, RowsKeptOf
  <2>4. CASE f.lines = <<>>
    <3>1. ~\E i \in 1..Len(f.lines) : TRUE
      BY <2>4
    <3>2. ~\E k \in 1..Len(c.lines) : TRUE
      BY <2>2, <2>3, <3>1
    <3>3. Len(c.lines) = 0
      BY <2>2, <3>2
    <3> QED BY <2>2, <2>4, <3>3, EmptySeq
  <2>5. CASE f.lines # <<>>
    <3>1. 1 \in 1..Len(f.lines)
      BY <2>1, <2>3, <2>5, EmptySeq
    <3>2. 1 \in RowsKept(f.lines)
      BY <2>1, <3>1 DEF RowsKept
    <3>3. PICK k \in 1..Len(c.lines) : at[k] = 1
      BY <2>2, <3>2
    <3>4. Len(c.lines) # 0
      BY <2>2, <3>3
    <3> QED BY <2>2, <2>5, <3>4, EmptySeq
  <2> QED BY <2>4, <2>5
<1> QED
  BY <1>1, <1>2, <1>3 DEF c, SameRange, HasRichInfo

\* Candidates and what sorting makes of them.
SortedFrom(S, added, from, n) ==
  /\ added \in Seq(Candidates) /\ n = Len(added)
  /\ \A i \in DOMAIN added : added[i].start <= added[i].end
  /\ Ordered(S, n)
  /\ from \in Bijection(1..n, 1..n)
  /\ \A p \in 1..n : S[p] = Compacted(added[from[p]])

LEMMA SortedFromOf ==
  ASSUME NEW S, NEW added, NEW from, NEW n, SortedFrom(S, added, from, n)
  PROVE  /\ n \in Nat /\ DOMAIN added = 1..n /\ Range(added) = {added[j] : j \in 1..n}
         /\ \A j \in 1..n : /\ added[j] \in Candidates /\ added[j] \in Plain
                            /\ \E p \in 1..n : from[p] = j
         /\ \A p \in 1..n : /\ from[p] \in 1..n /\ S[p] \in Plain
                            /\ S[p] = Compacted(added[from[p]])
                            /\ SameRange(S[p], added[from[p]])
                            /\ S[p].name = added[from[p]].name
                            /\ S[p].lines = CompactRows(added[from[p]].lines)
                            /\ HasRichInfo(S[p]) <=> HasRichInfo(added[from[p]])
         /\ \A p, q \in 1..n : from[p] = from[q] => p = q
<1>1. /\ n \in Nat /\ DOMAIN added = 1..n /\ Range(added) = {added[j] : j \in 1..n}
      /\ \A j \in 1..n : added[j] \in Candidates /\ added[j].start <= added[j].end
  BY DEF SortedFrom, Range
<1>2. /\ \A p \in 1..n : from[p] \in 1..n
      /\ \A j \in 1..n : \E p \in 1..n : from[p] = j
      /\ \A p, q \in 1..n : from[p] = from[q] => p = q
  <2>1. from \in Bijection(1..n, 1..n)
    BY DEF SortedFrom
  <2> QED BY <2>1, Rearrangement DEF Bijection, Injection, IsInjective
<1>3. \A j \in 1..n : added[j] \in Plain
  BY <1>1, CompactedOf
<1>4. ASSUME NEW p \in 1..n
      PROVE  /\ S[p] \in Plain /\ S[p] = Compacted(added[from[p]])
             /\ SameRange(S[p], added[from[p]])
             /\ S[p].name = added[from[p]].name
             /\ S[p].lines = CompactRows(added[from[p]].lines)
             /\ HasRichInfo(S[p]) <=> HasRichInfo(added[from[p]])
  <2>1. /\ S[p] = Compacted(added[from[p]])
        /\ added[from[p]] \in Candidates /\ added[from[p]].start <= added[from[p]].end
    BY <1>1, <1>2 DEF SortedFrom
  <2> QED BY <2>1, CompactedOf
<1> QED
  BY <1>1, <1>2, <1>3, <1>4

\* The functions of one range follow each other.
LEMMA Contiguous ==
  ASSUME NEW S, NEW n, Ordered(S, n), NEW p \in 1..n, NEW q \in 1..n, NEW r \in 1..n,
         p <= q, q <= r, SameRange(S[p], S[r])
  PROVE  SameRange(S[p], S[q])
<1>1. n \in Nat /\ S[p] \in Plain /\ S[q] \in Plain /\ S[r] \in Plain
  BY DEF Ordered
<1>2. /\ S[p].start \in Nat /\ S[p].end \in Nat /\ S[q].start \in Nat /\ S[q].end \in Nat
      /\ S[r].start \in Nat /\ S[r].end \in Nat
  BY <1>1, PlainType
<1>3. p = q \/ RangeBefore(S[p], S[q]) \/ SameRange(S[p], S[q])
  BY <1>1, OrderedRanges
<1>4. q = r \/ RangeBefore(S[q], S[r]) \/ SameRange(S[q], S[r])
  BY <1>1, OrderedRanges
<1> QED
  BY <1>2, <1>3, <1>4 DEF RangeBefore, SameRange

\* No function of a range comes behind the last one of it.
LastOfRange(S, n, i) == i < n => ~SameRange(S[i], S[i + 1])

LEMMA LastIsLast ==
  ASSUME NEW S, NEW n, Ordered(S, n), NEW i \in 1..n, LastOfRange(S, n, i),
         NEW q \in 1..n, SameRange(S[i], S[q])
  PROVE  q <= i
<1> SUFFICES ASSUME i < q PROVE FALSE
  BY DEF Ordered
<1>1. i + 1 \in 1..n /\ i <= i + 1 /\ i + 1 <= q /\ i < n
  BY DEF Ordered
<1>2. SameRange(S[i], S[i + 1])
  BY <1>1, Contiguous
<1> QED
  BY <1>1, <1>2 DEF LastOfRange

-----------------------------------------------------------------------------
(* The answer of the last function of a range. *)

\* Nothing of the range is preferred to it.
LEMMA LastPreferred ==
  ASSUME NEW S, NEW added, NEW from, NEW n, SortedFrom(S, added, from, n),
         NEW i \in 1..n, LastOfRange(S, n, i),
         NEW E \in SUBSET Range(added), \A g \in E : SameRange(added[from[i]], g)
  PROVE  Preferred(added[from[i]], E)
<1> SUFFICES ASSUME NEW g \in E,
                    Precedes(OrderingKey(Compacted(added[from[i]])), OrderingKey(Compacted(g)))
             PROVE  FALSE
  BY DEF Preferred
<1>1. Ordered(S, n)
  BY DEF SortedFrom
<1>2. PICK q \in 1..n : g = added[from[q]]
  <2>1. PICK j \in 1..n : g = added[j]
    <3>1. Range(added) = {added[j] : j \in 1..n}
      BY SortedFromOf
    <3> QED BY <3>1
  <2>2. PICK p \in 1..n : from[p] = j
    BY SortedFromOf
  <2> QED BY <2>1, <2>2
<1>3. SameRange(S[i], S[q])
  <2>1. SameRange(S[i], added[from[i]]) /\ SameRange(S[q], added[from[q]])
    BY SortedFromOf
  <2>2. SameRange(added[from[i]], added[from[q]])
    BY <1>2
  <2> QED BY <2>1, <2>2 DEF SameRange
<1>4. q <= i
  BY <1>1, <1>3, LastIsLast
<1>5. Precedes(OrderingKey(S[i]), OrderingKey(S[q]))
  BY <1>2, SortedFromOf
<1>6. CASE q = i
  <2>1. OrderingKey(S[i]) \in Keys(7) /\ 7 \in Nat
    BY SortedFromOf, PlainKey
  <2> QED BY <1>5, <1>6, <2>1, PrecedesIrreflexive
<1>7. CASE q # i
  <2>1. q < i
    BY <1>4, <1>7, SortedFromOf
  <2> QED BY <1>1, <1>5, <2>1 DEF Ordered
<1> QED
  BY <1>6, <1>7

\* The row found in compacted rows is the row of the uncompacted ones.
LEMMA SameRow ==
  ASSUME NEW f \in Candidates, f.start <= f.end, NEW g, NEW table, NEW a \in Nat,
         g.lines = CompactRows(f.lines)
  PROVE  LET rows == IF RowsAscend(f) THEN f ELSE Compacted(f)
         IN Answer(g, table, a) = [Answer(rows, table, a) EXCEPT !.name = g.name]
<1> DEFINE c == Compacted(f)
           Found(h) == h.lines[Max(Below(h.lines, a))]
<1>1. /\ f \in Plain /\ c.lines = CompactRows(f.lines)
  BY CompactedOf
<1>2. f.lines \in Seq(Rows) /\ f.merged = <<>>
  BY <1>1, PlainType
<1>3. \A h : Answer(h, table, a) =
               IF Below(h.lines, a) = {} THEN [name |-> h.name, file |-> EmptyEntry, line |-> 0]
               ELSE [name |-> h.name, file |-> table[Found(h).file + 1], line |-> Found(h).line]
  BY DEF Answer, Below, Nothing
<1> HIDE DEF c
<1>4. CASE ~RowsAscend(f)
  <2>1. Below(g.lines, a) = Below(c.lines, a) /\ Found(g) = Found(c)
    BY <1>1
  <2> HIDE DEF Found
  <2>2. CASE Below(g.lines, a) = {}
    <3>1. Answer(c, table, a) = [name |-> c.name, file |-> EmptyEntry, line |-> 0]
      BY <1>3, <2>1, <2>2
    <3>2. Answer(g, table, a) = [name |-> g.name, file |-> EmptyEntry, line |-> 0]
      BY <1>3, <2>2
    <3>3. Answer(g, table, a) = [Answer(c, table, a) EXCEPT !.name = g.name]
      BY <3>1, <3>2
    <3> QED BY <1>4, <3>3 DEF c
  <2>3. CASE Below(g.lines, a) # {}
    BY <1>3, <1>4, <2>1, <2>3 DEF c
  <2> QED BY <2>2, <2>3
<1>5. CASE RowsAscend(f)
  <2>1. Ascending(f.lines)
    BY <1>5 DEF RowsAscend, Ascending
  <2>2. /\ Below(g.lines, a) = {} <=> Below(f.lines, a) = {}
        /\ Below(f.lines, a) # {} =>
             Found(g).file = Found(f).file /\ Found(g).line = Found(f).line
    BY <1>2, <2>1, CompactAnswers
  <2> HIDE DEF Found
  <2>3. CASE Below(f.lines, a) = {}
    BY <1>3, <1>5, <2>2, <2>3
  <2>4. CASE Below(f.lines, a) # {}
    BY <1>3, <1>5, <2>2, <2>4
  <2> QED BY <2>3, <2>4
<1> QED
  BY <1>4, <1>5

LEMMA ThreeRivals ==
  ASSUME NEW R, IsFiniteSet(R), NEW x \in R, NEW y \in R, NEW z \in R, x # y, y # z, x # z
  PROVE  Cardinality(R) > 2
<1>1. /\ IsFiniteSet({}) /\ Cardinality({}) = 0
  BY FS_EmptySet
<1>2. /\ IsFiniteSet({x}) /\ Cardinality({x}) = 1
  BY FS_Singleton
<1>3. IsFiniteSet({x} \cup {y}) /\ Cardinality({x} \cup {y}) = 2
  <2> DEFINE P == {x}
  <2>1. IsFiniteSet(P) /\ Cardinality(P) = 1 /\ y \notin P
    BY <1>2
  <2> HIDE DEF P
  <2>2. IsFiniteSet(P \cup {y}) /\ Cardinality(P \cup {y}) = Cardinality(P) + 1
    BY <2>1, FS_AddElement
  <2> QED BY <2>1, <2>2 DEF P
<1>4. IsFiniteSet({x} \cup {y} \cup {z}) /\ Cardinality({x} \cup {y} \cup {z}) = 3
  <2> DEFINE P == {x} \cup {y}
  <2>1. IsFiniteSet(P) /\ Cardinality(P) = 2 /\ z \notin P
    BY <1>3
  <2> HIDE DEF P
  <2>2. IsFiniteSet(P \cup {z}) /\ Cardinality(P \cup {z}) = Cardinality(P) + 1
    BY <2>1, FS_AddElement
  <2> QED BY <2>1, <2>2 DEF P
<1>5. {x} \cup {y} \cup {z} \in SUBSET R
  OBVIOUS
<1>6. Cardinality({x} \cup {y} \cup {z}) <= Cardinality(R) /\ Cardinality(R) \in Nat
  BY <1>5, FS_Subset, FS_CardinalityType
<1> QED
  BY <1>4, <1>6

\* It answers with its name, or with the mangled form of it that a plain
\* function of the range has.
LEMMA LastAnswersTo ==
  ASSUME NEW S, NEW from, NEW n, SortedFrom(S, functions, from, n),
         NEW i \in 1..n, LastOfRange(S, n, i)
  PROVE  AnswersTo(functions[from[i]], Best(S, i).name)
<1> DEFINE f == functions[from[i]]
           name == Best(S, i).name
           rivals == {k \in DOMAIN functions : SameRange(f, functions[k])}
           mangled == {k \in rivals : /\ HasRichInfo(f) /\ ~HasRichInfo(functions[k])
                                      /\ <<functions[k].name, f.name>> \in Mangled}
<1> SUFFICES \/ \E k \in mangled : name = functions[k].name
             \/ name = f.name /\ (mangled = {} \/ Cardinality(rivals) > 2)
  BY DEF AnswersTo
<1>1. Ordered(S, n) /\ n \in Nat /\ DOMAIN functions = 1..n
  BY SortedFromOf DEF SortedFrom
<1>2. /\ from[i] \in 1..n /\ SameRange(S[i], f) /\ S[i].name = f.name
      /\ HasRichInfo(S[i]) <=> HasRichInfo(f)
  <2> HIDE DEF f
  <2>1. /\ from[i] \in 1..n /\ SameRange(S[i], functions[from[i]])
        /\ S[i].name = functions[from[i]].name
        /\ HasRichInfo(S[i]) <=> HasRichInfo(functions[from[i]])
    BY SortedFromOf
  <2> QED BY <2>1 DEF f
<1>3. \A p \in 1..n : /\ from[p] \in 1..n /\ SameRange(S[p], functions[from[p]])
                      /\ S[p].name = functions[from[p]].name
                      /\ HasRichInfo(S[p]) <=> HasRichInfo(functions[from[p]])
  BY SortedFromOf
<1>4. \A p \in 1..n : SameRange(S[p], S[i]) => from[p] \in rivals
  BY <1>1, <1>2, <1>3 DEF SameRange
<1>5. i > 1 => i - 1 \in 1..n
  BY <1>1
<1> HIDE DEF f
<1>6. CASE name # S[i].name
  <2>1. /\ i > 1 /\ SameRange(S[i - 1], S[i]) /\ HasRichInfo(S[i]) /\ ~HasRichInfo(S[i - 1])
        /\ <<S[i - 1].name, S[i].name>> \in Mangled
        /\ name = S[i - 1].name
    BY <1>1, <1>6, BestOf
  <2>2. from[i - 1] \in mangled /\ name = functions[from[i - 1]].name
    BY <1>2, <1>3, <1>4, <1>5, <2>1
  <2> QED BY <2>2
<1>7. CASE name = S[i].name
  <2> SUFFICES ASSUME NEW k \in mangled, ~\E m \in mangled : name = functions[m].name
               PROVE  Cardinality(rivals) > 2
    BY <1>2, <1>7
  <2>1. /\ k \in 1..n /\ SameRange(f, functions[k]) /\ HasRichInfo(f)
        /\ ~HasRichInfo(functions[k]) /\ <<functions[k].name, f.name>> \in Mangled
    BY <1>1
  <2>2. PICK q \in 1..n : from[q] = k
    BY <2>1, SortedFromOf
  <2>3. SameRange(S[i], S[q])
    BY <1>2, <1>3, <2>1, <2>2 DEF SameRange
  <2>4. q < i
    <3>1. q <= i
      BY <1>1, <2>3, LastIsLast
    <3>2. q # i
      BY <1>2, <1>3, <2>1, <2>2
    <3> QED BY <1>1, <3>1, <3>2
  <2>5. i > 1 /\ i - 1 \in 1..n /\ q <= i - 1 /\ i - 1 <= i
    BY <1>1, <2>4
  <2>6. SameRange(S[i - 1], S[i])
    <3>1. SameRange(S[q], S[i])
      BY <2>3 DEF SameRange
    <3>2. SameRange(S[q], S[i - 1])
      BY <1>1, <2>5, <3>1, Contiguous
    <3> QED BY <3>1, <3>2 DEF SameRange
  <2>7. q # i - 1
    <3> SUFFICES ASSUME q = i - 1 PROVE FALSE
      OBVIOUS
    <3>1. ~HasRichInfo(S[i - 1]) /\ HasRichInfo(S[i]) /\ <<S[i - 1].name, S[i].name>> \in Mangled
      BY <1>2, <1>3, <2>1, <2>2
    <3>2. name = S[i - 1].name
      BY <1>1, <2>5, <2>6, <3>1, BestOf
    <3>3. name = functions[k].name
      BY <1>3, <2>2, <3>2
    <3> QED BY <3>3
  <2>8. /\ from[q] \in rivals /\ from[i - 1] \in rivals /\ from[i] \in rivals
        /\ from[q] # from[i - 1] /\ from[i - 1] # from[i] /\ from[q] # from[i]
    <3>1. from[q] \in rivals /\ from[i - 1] \in rivals
      BY <1>4, <2>3, <2>5, <2>6 DEF SameRange
    <3>2. from[i] \in rivals
      BY <1>4 DEF SameRange
    <3>3. q # i - 1 /\ i - 1 # i /\ q # i
      BY <1>1, <2>4, <2>7
    <3>4. /\ from[q] # from[i - 1] /\ from[i - 1] # from[i] /\ from[q] # from[i]
      BY <2>5, <3>3, SortedFromOf
    <3> QED BY <3>1, <3>2, <3>4
  <2>9. IsFiniteSet(rivals)
    <3>1. rivals \in SUBSET (1..n) /\ IsFiniteSet(1..n)
      BY <1>1, FS_Interval
    <3> HIDE DEF rivals
    <3> QED BY <3>1, FS_Subset
  <2> HIDE DEF rivals
  <2> QED BY <2>8, <2>9, ThreeRivals
<1> QED
  BY <1>6, <1>7

-----------------------------------------------------------------------------
(* The repair of the last range. *)

LEMMA SeqType ==
  ASSUME NEW X, NEW s \in Seq(X)
  PROVE  Len(s) \in Nat /\ DOMAIN s = 1..Len(s) /\ \A i \in 1..Len(s) : s[i] \in X
OBVIOUS

LEMMA RepairedEndOf ==
  ASSUME NEW s \in Nat
  PROVE  RepairedEnd(s) \in Nat /\ s <= RepairedEnd(s)
<1> DEFINE around == {i \in DOMAIN Executable : Covers(Executable[i], s)}
           e == IF around = {} THEN s ELSE Executable[Min(around)].end
<1>1. /\ MaxSize \in Nat /\ DOMAIN Executable \subseteq Nat
      /\ \A i \in DOMAIN Executable : Executable[i].end \in Nat
  <2>1. /\ MaxSize \in Nat /\ Executable \in Seq([start : Nat, end : Nat])
    BY TextAssumption
  <2>2. /\ DOMAIN Executable = 1..Len(Executable) /\ Len(Executable) \in Nat
        /\ \A i \in 1..Len(Executable) : Executable[i] \in [start : Nat, end : Nat]
    BY <2>1, SeqType
  <2> QED BY <2>1, <2>2
<1>2. e \in Nat /\ s <= e
  <2>1. CASE around = {}
    BY <2>1
  <2>2. CASE around # {}
    <3>1. around \in SUBSET Nat
      BY <1>1
    <3>2. Min(around) \in around
      <4> HIDE DEF around
      <4> QED BY <2>2, <3>1, MinOf
    <3> QED BY <1>1, <2>2, <3>2 DEF Covers
  <2> QED BY <2>1, <2>2
<1>3. RepairedEnd(s) = IF e - s > MaxSize THEN s + MaxSize ELSE e
  BY DEF RepairedEnd
<1> HIDE DEF e
<1> QED
  BY <1>1, <1>2, <1>3

Ended(f, end) == [f EXCEPT !.end = end]

\* Only the last element is touched, if it is empty: it gets an end.
LEMMA RepairedOf ==
  ASSUME NEW D \in Seq(Plain), NEW repair
  PROVE  LET T == RepairFinalRange(D, repair)
         IN /\ DOMAIN T = 1..Len(D) /\ Len(D) \in Nat
            /\ \A t \in 1..Len(D) :
                 \/ T[t] = D[t]
                 \/ /\ t = Len(D) /\ repair /\ IsEmpty(D[t])
                    /\ T[t] = Ended(D[t], RepairedEnd(D[t].start))
<1> DEFINE K == Len(D)
           T == RepairFinalRange(D, repair)
<1>1. K \in Nat /\ DOMAIN D = 1..K /\ \A t \in 1..K : D[t] \in Plain
  OBVIOUS
<1>2. CASE T = D
  BY <1>1, <1>2
<1>3. CASE T # D
  <2> DEFINE f == Last(D)
             g == Throughout(f, LAMBDA h : [h EXCEPT !.end = RepairedEnd(h.start)])
  <2>1. repair /\ D # <<>> /\ IsEmpty(f) /\ T = Append(Front(D), g)
    BY <1>3 DEF RepairFinalRange
  <2>2. K > 0 /\ K \in 1..K /\ f = D[K] /\ f \in Plain
    BY <1>1, <2>1, EmptySeq DEF Last
  <2>3. g = Ended(f, RepairedEnd(f.start))
    <3>1. f.merged = <<>>
      BY <2>2, PlainType
    <3>2. g = [[f EXCEPT !.end = RepairedEnd(f.start)] EXCEPT !.merged =
                 [i \in DOMAIN f.merged |-> [f.merged[i] EXCEPT !.end = RepairedEnd(f.merged[i].start)]]]
      BY DEF Throughout
    <3>3. [i \in DOMAIN f.merged |-> [f.merged[i] EXCEPT !.end = RepairedEnd(f.merged[i].start)]] = <<>>
      <4> DEFINE e == [i \in 1..0 |-> [f.merged[i] EXCEPT !.end = RepairedEnd(f.merged[i].start)]]
      <4>1. DOMAIN f.merged = 1..0
        BY <3>1
      <4>2. e \in Seq({1}) /\ Len(e) = 0
        <5>1. \A i \in 1..0 : FALSE
          OBVIOUS
        <5> QED BY <5>1
      <4> HIDE DEF e
      <4>3. e = <<>>
        BY <4>2
      <4> QED BY <4>1, <4>3 DEF e
    <3> HIDE DEF g
    <3> QED BY <2>2, <3>1, <3>2, <3>3 DEF Plain, Ended
  <2> HIDE DEF f, g
  <2>4. g \in Plain
    <3>1. /\ f.start \in Nat /\ RepairedEnd(f.start) \in Nat /\ f.start <= RepairedEnd(f.start)
      BY <2>2, PlainType, RepairedEndOf
    <3> QED BY <2>2, <2>3, <3>1 DEF Plain, Ended
  <2>5. /\ T \in Seq(Plain) /\ Len(T) = K /\ T[K] = g
        /\ \A t \in 1..K - 1 : T[t] = D[t]
    <3> HIDE DEF T
    <3> QED BY <2>1, <2>2, <2>4, FrontAppend
  <2>6. DOMAIN T = 1..K
    <3> HIDE DEF T
    <3> QED BY <2>5
  <2>7. ASSUME NEW t \in 1..K
        PROVE  \/ T[t] = D[t]
               \/ t = K /\ repair /\ IsEmpty(D[t]) /\ T[t] = Ended(D[t], RepairedEnd(D[t].start))
    <3>1. CASE t = K
      BY <2>1, <2>2, <2>3, <2>5, <3>1
    <3>2. CASE t # K
      <4>1. t \in 1..K - 1
        <5> HIDE DEF K
        <5> QED BY <1>1, <3>2
      <4> QED BY <2>5, <4>1
    <3> QED BY <3>1, <3>2
  <2> QED BY <1>1, <2>6, <2>7
<1> QED
  BY <1>2, <1>3

-----------------------------------------------------------------------------
(* Lookups in a deduplicated table. *)

BelowOf(fs, a) == {f \in fs : f.start <= a}
NearOf(fs, a) == {f \in BelowOf(fs, a) : \A g \in BelowOf(fs, a) : g.start <= f.start}
SizedOf(fs, a) == {f \in NearOf(fs, a) : ~IsEmpty(f)}
CoveringOf(fs, a) == {f \in SizedOf(fs, a) : Covers(f, a)}
EligibleOf(fs, a) ==
  IF SizedOf(fs, a) = {} THEN NearOf(fs, a)
  ELSE {f \in CoveringOf(fs, a) : \A g \in CoveringOf(fs, a) : f.end <= g.end}

\* A table of the best functions of the ranges added: sorted, an empty range left
\* out where another one starts.
Represents(D, S, added, from, n) ==
  /\ D \in Seq(Plain)
  /\ \A g \in Range(added) : g \in Plain
  /\ \A t \in 1..Len(D) :
       \E i \in 1..n : /\ D[t] = Best(S, i) /\ LastOfRange(S, n, i) /\ D[t].lines = S[i].lines
                       /\ added[from[i]] \in Range(added) /\ SameRange(D[t], added[from[i]])
  /\ \A t, u \in 1..Len(D) :
       t < u => RangeBefore(D[t], D[u]) /\ (IsEmpty(D[t]) => D[t].start < D[u].start)
  /\ \A g \in Range(added) : \E t \in 1..Len(D) :
       \/ SameRange(D[t], g)
       \/ IsEmpty(g) /\ ~IsEmpty(D[t]) /\ D[t].start = g.start

LEMMA DedupRepresents ==
  ASSUME NEW S, NEW added, NEW from, NEW n, SortedFrom(S, added, from, n),
         NEW D, Deduplicated(S, n, D)
  PROVE  Represents(D, S, added, from, n)
<1>1. Ordered(S, n) /\ n \in Nat
  BY SortedFromOf DEF SortedFrom
<1>2. \A g \in Range(added) : \E p \in 1..n : g = added[from[p]]
  <2> TAKE g \in Range(added)
  <2>1. Range(added) = {added[j] : j \in 1..n}
    BY SortedFromOf
  <2>2. PICK j \in 1..n : g = added[j]
    BY <2>1
  <2>3. PICK p \in 1..n : from[p] = j
    BY SortedFromOf
  <2> QED BY <2>2, <2>3
<1>3. \A g \in Range(added) : g \in Plain
  <2>1. \A p \in 1..n : from[p] \in 1..n
    BY SortedFromOf
  <2>2. \A j \in 1..n : added[j] \in Plain
    BY SortedFromOf
  <2> QED BY <1>2, <2>1, <2>2
<1>4. ASSUME NEW t \in 1..Len(D)
      PROVE  \E i \in 1..n : /\ D[t] = Best(S, i) /\ LastOfRange(S, n, i) /\ D[t].lines = S[i].lines
                             /\ added[from[i]] \in Range(added) /\ SameRange(D[t], added[from[i]])
  <2>1. PICK i \in 1..n : D[t] = Best(S, i) /\ (i < n => ~SameRange(S[i], S[i + 1]))
    BY DEF Deduplicated
  <2>2. SameRange(Best(S, i), S[i])
    BY <1>1, BestOf
  <2>3. from[i] \in 1..n /\ SameRange(S[i], added[from[i]])
    BY SortedFromOf
  <2>4. Range(added) = {added[j] : j \in 1..n}
    BY SortedFromOf
  <2>5. Best(S, i).lines = S[i].lines
    BY <1>1, BestRows
  <2> QED BY <2>1, <2>2, <2>3, <2>4, <2>5 DEF SameRange, LastOfRange
<1>5. ASSUME NEW g \in Range(added)
      PROVE  \E t \in 1..Len(D) : \/ SameRange(D[t], g)
                                  \/ IsEmpty(g) /\ ~IsEmpty(D[t]) /\ D[t].start = g.start
  <2>1. PICK p \in 1..n : g = added[from[p]]
    BY <1>2
  <2>2. SameRange(S[p], g)
    BY <2>1, SortedFromOf
  <2>3. PICK t \in 1..Len(D) : \/ SameRange(D[t], S[p])
                               \/ IsEmpty(S[p]) /\ ~IsEmpty(D[t]) /\ D[t].start = S[p].start
    BY DEF Deduplicated
  <2> QED BY <2>2, <2>3 DEF SameRange, IsEmpty
<1>6. \A t, u \in 1..Len(D) :
        t < u => RangeBefore(D[t], D[u]) /\ (IsEmpty(D[t]) => D[t].start < D[u].start)
  BY DEF Deduplicated
<1>7. D \in Seq(Plain)
  BY DEF Deduplicated
<1> QED
  BY <1>3, <1>4, <1>5, <1>6, <1>7 DEF Represents

\* The places a lookup finds belong to the eligible functions.
LEMMA LookupFinds ==
  ASSUME NEW S, NEW added, NEW from, NEW n, NEW D, Represents(D, S, added, from, n),
         NEW repair, NEW a \in Nat
  PROVE  LET T == RepairFinalRange(D, repair)
             matching == MatchingFunction(T, a)
             eligible == EligibleOf(Range(added), a)
         IN /\ matching = {} =>
                 \A f \in eligible : /\ repair /\ f.start < RepairedEnd(f.start)
                                     /\ RepairedEnd(f.start) <= a
            /\ matching # {} =>
                 \E i \in 1..n :
                   /\ added[from[i]] \in eligible /\ LastOfRange(S, n, i)
                   /\ \A g \in eligible : SameRange(added[from[i]], g)
                   /\ T[Min(matching)].name = Best(S, i).name
                   /\ T[Min(matching)].lines = S[i].lines
<1> DEFINE T == RepairFinalRange(D, repair)
           matching == MatchingFunction(T, a)
           fs == Range(added)
           K == Len(D)
           eligible == EligibleOf(fs, a)
<1>1. /\ DOMAIN T = 1..K /\ K \in Nat
      /\ \A t \in 1..K :
           \/ T[t] = D[t]
           \/ /\ t = K /\ repair /\ IsEmpty(D[t])
              /\ T[t] = Ended(D[t], RepairedEnd(D[t].start))
  BY RepairedOf DEF Represents
<1>2. \A t \in 1..K : D[t] \in Plain
  BY DEF Represents
<1>3. \A t \in 1..K : D[t].start \in Nat /\ D[t].end \in Nat /\ D[t].start <= D[t].end
  BY <1>2, PlainType
<1>4. \A g \in fs : g.start \in Nat /\ g.end \in Nat /\ g.start <= g.end
  BY PlainType DEF Represents
<1>5. \A t \in 1..K : \E i \in 1..n :
        /\ D[t] = Best(S, i) /\ LastOfRange(S, n, i) /\ D[t].lines = S[i].lines
        /\ added[from[i]] \in fs /\ SameRange(D[t], added[from[i]])
  BY DEF Represents
<1>6. \A t, u \in 1..K :
        t < u => RangeBefore(D[t], D[u]) /\ (IsEmpty(D[t]) => D[t].start < D[u].start)
  BY DEF Represents
<1>7. \A g \in fs : \E t \in 1..K : \/ SameRange(D[t], g)
                                    \/ IsEmpty(g) /\ ~IsEmpty(D[t]) /\ D[t].start = g.start
  BY DEF Represents
<1> HIDE DEF T, K, fs
<1>8. \A t \in 1..K : /\ T[t].start = D[t].start /\ T[t].name = D[t].name
                      /\ T[t].lines = D[t].lines
                      /\ ~IsEmpty(D[t]) => T[t] = D[t]
  <2> TAKE t \in 1..K
  <2>1. CASE T[t] = D[t]
    BY <2>1
  <2>2. CASE T[t] = Ended(D[t], RepairedEnd(D[t].start)) /\ IsEmpty(D[t])
    BY <1>2, <2>2 DEF Ended, Plain
  <2> QED BY <1>1, <2>1, <2>2
<1>9. matching = {t \in 1..K : /\ D[t].start <= a
                               /\ \A u \in 1..K : D[u].start <= a => D[u].start <= D[t].start
                               /\ IsEmpty(T[t]) \/ Covers(T[t], a)}
  BY <1>1, <1>8 DEF MatchingFunction
<1> HIDE DEF matching
\* Starts near in the table are starts near among the functions.
<1>10. ASSUME NEW t \in 1..K, NEW g \in fs, D[t].start = g.start,
              g \in NearOf(fs, a)
       PROVE  D[t].start <= a /\ \A u \in 1..K : D[u].start <= a => D[u].start <= D[t].start
  <2>1. \A u \in 1..K : \E h \in fs : h.start = D[u].start
    BY <1>5 DEF SameRange
  <2> QED BY <1>10, <2>1 DEF NearOf, BelowOf
<1>11. ASSUME NEW t \in matching, NEW g \in fs, D[t].start = g.start
       PROVE  g \in NearOf(fs, a)
  <2>1. t \in 1..K /\ D[t].start <= a /\ \A u \in 1..K : D[u].start <= a => D[u].start <= D[t].start
    BY <1>9
  <2>2. \A h \in fs : \E u \in 1..K : h.start = D[u].start
    BY <1>7 DEF SameRange
  <2> QED BY <1>11, <2>1, <2>2 DEF NearOf, BelowOf
<1>12. \A g, h \in NearOf(fs, a) : g \in fs /\ g.start = h.start
  <2> TAKE g, h \in NearOf(fs, a)
  <2>1. g \in fs /\ h \in fs /\ g.start <= h.start /\ h.start <= g.start
    BY DEF NearOf, BelowOf
  <2> QED BY <1>4, <2>1
<1>13. ASSUME matching = {}, NEW f \in eligible
       PROVE  repair /\ f.start < RepairedEnd(f.start) /\ RepairedEnd(f.start) <= a
  <2>1. f \in NearOf(fs, a) /\ f \in fs /\ (SizedOf(fs, a) # {} => ~IsEmpty(f) /\ Covers(f, a))
    BY <1>12 DEF EligibleOf, CoveringOf, SizedOf
  <2>2. PICK t \in 1..K : \/ SameRange(D[t], f)
                          \/ IsEmpty(f) /\ ~IsEmpty(D[t]) /\ D[t].start = f.start
    BY <1>7, <2>1
  <2>3. D[t].start = f.start
    BY <2>2 DEF SameRange
  <2>4. ~(IsEmpty(T[t]) \/ Covers(T[t], a))
    BY <1>9, <1>10, <1>13, <2>1, <2>3
  <2>5. SizedOf(fs, a) = {}
    <3> SUFFICES ASSUME SizedOf(fs, a) # {} PROVE FALSE
      OBVIOUS
    <3>1. ~IsEmpty(f) /\ Covers(f, a) /\ SameRange(D[t], f)
      BY <2>1, <2>2
    <3>2. T[t] = D[t]
      BY <1>8, <3>1 DEF IsEmpty, SameRange
    <3> QED BY <2>4, <3>1, <3>2 DEF Covers, SameRange
  <2>6. IsEmpty(D[t])
    <3>1. PICK i \in 1..n : added[from[i]] \in fs /\ SameRange(D[t], added[from[i]])
      BY <1>5
    <3>2. added[from[i]] \in NearOf(fs, a)
      BY <2>1, <2>3, <3>1 DEF NearOf, BelowOf, SameRange
    <3>3. IsEmpty(added[from[i]])
      BY <2>5, <3>2 DEF SizedOf
    <3> QED BY <3>1, <3>3 DEF SameRange, IsEmpty
  <2>7. repair /\ T[t] = Ended(D[t], RepairedEnd(D[t].start))
    BY <1>1, <2>4, <2>6
  <2>8. T[t].start = f.start /\ T[t].end = RepairedEnd(f.start)
    BY <1>2, <2>3, <2>7 DEF Ended, Plain
  <2>9. RepairedEnd(f.start) \in Nat /\ f.start <= RepairedEnd(f.start) /\ f.start \in Nat /\ f.start <= a
    BY <1>4, <2>1, RepairedEndOf DEF NearOf, BelowOf
  <2> QED BY <2>4, <2>7, <2>8, <2>9 DEF IsEmpty, Covers
<1>14. ASSUME matching # {}
       PROVE  \E i \in 1..n :
                   /\ added[from[i]] \in eligible /\ LastOfRange(S, n, i)
                   /\ \A g \in eligible : SameRange(added[from[i]], g)
                   /\ T[Min(matching)].name = Best(S, i).name
                   /\ T[Min(matching)].lines = S[i].lines
  <2> DEFINE t == Min(matching)
  <2>1. t \in matching /\ \A u \in matching : t <= u
    <3>1. matching \in SUBSET Nat
      BY <1>1, <1>9
    <3> QED BY <1>14, <3>1, MinOf
  <2> HIDE DEF t
  <2>2. t \in 1..K /\ (IsEmpty(T[t]) \/ Covers(T[t], a))
    BY <1>9, <2>1
  <2>3. PICK i \in 1..n : /\ D[t] = Best(S, i) /\ LastOfRange(S, n, i) /\ D[t].lines = S[i].lines
                          /\ added[from[i]] \in fs /\ SameRange(D[t], added[from[i]])
    BY <1>5, <2>2
  <2> DEFINE f == added[from[i]]
  <2> HIDE DEF f
  <2>4. f \in fs /\ SameRange(D[t], f)
    BY <2>3 DEF f
  <2>5. f \in NearOf(fs, a)
    BY <1>11, <2>1, <2>4 DEF SameRange
  <2>6. ASSUME NEW g \in fs, g \in SizedOf(fs, a)
        PROVE  \E u \in 1..K : SameRange(D[u], g)
    BY <1>7, <2>6 DEF SizedOf
  <2>7. CASE SizedOf(fs, a) = {}
    <3>1. eligible = NearOf(fs, a)
      BY <2>7 DEF EligibleOf
    <3>2. \A g \in NearOf(fs, a) : IsEmpty(g)
      BY <2>7 DEF SizedOf
    <3>3. \A g \in eligible : SameRange(f, g)
      BY <1>12, <2>5, <3>1, <3>2 DEF SameRange, IsEmpty
    <3> QED BY <1>8, <2>2, <2>3, <2>5, <3>1, <3>3 DEF f, t
  <2>8. CASE SizedOf(fs, a) # {}
    <3>1. PICK g : g \in SizedOf(fs, a) /\ g \in NearOf(fs, a) /\ g \in fs /\ ~IsEmpty(g)
      BY <1>12, <2>8 DEF SizedOf
    <3>2. ~IsEmpty(D[t])
      <4> SUFFICES ASSUME IsEmpty(D[t]) PROVE FALSE
        OBVIOUS
      <4>1. PICK u \in 1..K : SameRange(D[u], g)
        BY <2>6, <3>1
      <4>2. D[u].start = D[t].start /\ D[u].start # D[u].end
        <5>1. g.start = f.start
          BY <1>12, <2>5, <3>1
        <5> QED BY <2>4, <3>1, <4>1, <5>1 DEF SameRange, IsEmpty
      <4>3. t < u \/ u < t \/ t = u
        BY <1>1, <2>2, <4>1
      <4>4. CASE t < u
        <5>1. D[t].start < D[u].start
          BY <1>6, <2>2, <4>4
        <5> QED BY <1>3, <2>2, <4>2, <5>1
      <4>5. CASE u < t
        <5>1. RangeBefore(D[u], D[t])
          BY <1>6, <2>2, <4>5
        <5>2. D[t].start = D[t].end
          BY DEF IsEmpty
        <5>3. /\ D[t].start \in Nat /\ D[t].end \in Nat /\ D[u].start \in Nat /\ D[u].end \in Nat
              /\ D[u].start <= D[u].end
          BY <1>3, <2>2
        <5> QED BY <4>2, <5>1, <5>2, <5>3 DEF RangeBefore
      <4>6. CASE t = u
        BY <4>2, <4>6 DEF IsEmpty
      <4> QED BY <4>3, <4>4, <4>5, <4>6
    <3>3. T[t] = D[t] /\ Covers(D[t], a)
      BY <1>8, <2>2, <3>2
    <3>4. f \in SizedOf(fs, a) /\ f \in CoveringOf(fs, a)
      BY <2>4, <2>5, <3>2, <3>3 DEF SizedOf, CoveringOf, SameRange, IsEmpty, Covers
    <3>5. ASSUME NEW h \in CoveringOf(fs, a) PROVE f.end <= h.end
      <4>1. h \in SizedOf(fs, a) /\ h \in fs /\ h \in NearOf(fs, a) /\ ~IsEmpty(h) /\ Covers(h, a)
        BY <1>12 DEF CoveringOf, SizedOf
      <4>2. PICK u \in 1..K : SameRange(D[u], h)
        BY <2>6, <4>1
      <4>3. u \in matching
        <5>1. T[u] = D[u]
          BY <1>8, <4>1, <4>2 DEF SameRange, IsEmpty
        <5>2. Covers(T[u], a)
          BY <4>1, <4>2, <5>1 DEF SameRange, Covers
        <5> QED BY <1>9, <1>10, <4>1, <4>2, <5>2 DEF SameRange
      <4>4. t <= u
        BY <2>1, <4>3
      <4>5. t = u \/ t < u
        BY <1>1, <2>2, <4>4
      <4>6. D[u].start = D[t].start
        <5>1. h.start = f.start
          BY <1>12, <2>5, <4>1
        <5> QED BY <2>4, <4>2, <5>1 DEF SameRange
      <4>7. D[t].end <= D[u].end
        <5>1. CASE t < u
          <6>1. RangeBefore(D[t], D[u])
            BY <1>6, <2>2, <5>1
          <6> QED BY <1>3, <2>2, <4>6, <6>1 DEF RangeBefore
        <5>2. CASE t = u
          BY <1>3, <2>2, <5>2
        <5> QED BY <4>5, <5>1, <5>2
      <4> QED BY <2>4, <4>2, <4>7 DEF SameRange
    <3>6. f \in eligible
      BY <2>8, <3>4, <3>5 DEF EligibleOf
    <3>7. ASSUME NEW h \in eligible PROVE SameRange(f, h)
      <4>1. h \in CoveringOf(fs, a) /\ h.end <= f.end
        BY <2>8, <3>4 DEF EligibleOf
      <4>2. h \in NearOf(fs, a) /\ h \in fs
        BY <1>12, <4>1 DEF CoveringOf, SizedOf
      <4>3. h.start = f.start /\ f.end <= h.end
        BY <1>12, <2>5, <3>5, <4>1, <4>2
      <4> QED BY <1>4, <2>4, <4>1, <4>2, <4>3 DEF SameRange
    <3> QED BY <1>8, <2>2, <2>3, <3>6, <3>7 DEF f, t
  <2> QED BY <2>7, <2>8
<1> QED
  BY <1>13, <1>14 DEF matching, T, fs

LEMMA AnswerName ==
  ASSUME NEW f, NEW table, NEW a
  PROVE  Answer(f, table, a).name = f.name
<1> DEFINE row == f.lines[Max({i \in DOMAIN f.lines : f.lines[i].address <= a})]
<1>1. \/ Answer(f, table, a) = [name |-> f.name, file |-> EmptyEntry, line |-> 0]
      \/ Answer(f, table, a) = [name |-> f.name, file |-> table[row.file + 1], line |-> row.line]
  BY DEF Answer, Nothing
<1> HIDE DEF row
<1> QED
  BY <1>1

LEMMA EligibleAdded ==
  ASSUME NEW fs, NEW a
  PROVE  EligibleOf(fs, a) \in SUBSET fs
BY DEF EligibleOf, CoveringOf, SizedOf, NearOf, BelowOf

\* A deduplicated table gives the best answers.
LEMMA DedupAnswersBest ==
  ASSUME functions \in Seq(Candidates), \A i \in DOMAIN functions : Valid(functions[i]),
         image.functions =
           RepairFinalRange(FunctionSet(Sorted(functions), "Deduplicate"), options.repair)
  PROVE  BestAnswers
<1> DEFINE n == Len(functions)
           S == Sorted(functions)
           D == FunctionSet(S, "Deduplicate")
           fs == Range(functions)
<1>1. \A i \in DOMAIN functions : functions[i].start <= functions[i].end
  BY DEF Valid
<1>2. Ordered(S, n) /\ \E from \in Bijection(1..n, 1..n) :
                         \A p \in 1..n : S[p] = Compacted(functions[from[p]])
  <2> HIDE DEF n, S
  <2> QED BY <1>1, SortedOf DEF n, S
<1> HIDE DEF S
<1>3. PICK from \in Bijection(1..n, 1..n) : \A p \in 1..n : S[p] = Compacted(functions[from[p]])
  BY <1>2
<1>4. SortedFrom(S, functions, from, n)
  BY <1>1, <1>2, <1>3 DEF SortedFrom
<1> HIDE DEF n
<1>5. Len(S) = n
  <2>1. S \in [1..n -> Plain] /\ n \in Nat
    BY <1>2 DEF Ordered
  <2> QED BY <2>1
<1>6. Represents(D, S, functions, from, n)
  <2>1. Deduplicated(S, n, D)
    BY <1>2, <1>5, DedupResult
  <2> HIDE DEF D
  <2> QED BY <1>4, <2>1, DedupRepresents
<1>7. image.functions = RepairFinalRange(D, options.repair)
  BY DEF S
<1> HIDE DEF D
<1>8. ASSUME NEW a \in Addresses
      PROVE  LET eligible == EligibleOf(fs, a)
                 found == Lookup(image, a)
             IN IF found = Nothing
                THEN \A f \in eligible : options.repair /\ f.start < RepairedEnd(f.start)
                                                       /\ RepairedEnd(f.start) <= a
                ELSE \E f \in eligible :
                       /\ Preferred(f, eligible)
                       /\ LET rows == IF RowsAscend(f) THEN f ELSE Compacted(f)
                          IN found = [Answer(rows, image.files, a) EXCEPT !.name = found.name]
                       /\ AnswersTo(f, found.name)
  <2> DEFINE T == image.functions
             matching == MatchingFunction(T, a)
             eligible == EligibleOf(fs, a)
             found == Lookup(image, a)
             g == T[Min(matching)]
  <2>1. a \in Nat
    BY TextAssumption
  <2>2. /\ matching = {} =>
             \A f \in eligible : options.repair /\ f.start < RepairedEnd(f.start)
                                                /\ RepairedEnd(f.start) <= a
        /\ matching # {} =>
             \E i \in 1..n :
               /\ functions[from[i]] \in eligible /\ LastOfRange(S, n, i)
               /\ \A h \in eligible : SameRange(functions[from[i]], h)
               /\ g.name = Best(S, i).name
               /\ g.lines = S[i].lines
    BY <1>6, <1>7, <2>1, LookupFinds
  <2>3. eligible \in SUBSET fs
    BY EligibleAdded
  <2> HIDE DEF fs, eligible
  <2>4. CASE matching = {}
    <3>1. found = Nothing
      BY <2>4 DEF Lookup
    <3> QED BY <2>2, <2>4, <3>1 DEF eligible
  <2>5. CASE matching # {}
    <3>1. found = Answer(g, image.files, a)
      BY <2>5 DEF Lookup
    <3> HIDE DEF g, matching, found
    <3>2. PICK i \in 1..n :
               /\ functions[from[i]] \in eligible /\ LastOfRange(S, n, i)
               /\ \A h \in eligible : SameRange(functions[from[i]], h)
               /\ g.name = Best(S, i).name
               /\ g.lines = S[i].lines
      BY <2>2, <2>5
    <3> DEFINE f == functions[from[i]]
    <3>3. found.name = g.name
      BY <3>1, AnswerName
    <3>4. found # Nothing
      <4>1. Best(S, i) \in Plain
        BY <1>2, BestOf
      <4>2. Best(S, i).name # 0
        BY <4>1, PlainType
      <4> QED BY <3>2, <3>3, <4>2 DEF Nothing
    <3>5. Preferred(f, eligible)
      BY <1>4, <2>3, <3>2, LastPreferred DEF fs
    <3>6. found = [Answer(IF RowsAscend(f) THEN f ELSE Compacted(f), image.files, a)
                     EXCEPT !.name = found.name]
      <4>1. from[i] \in 1..n /\ S[i].lines = CompactRows(f.lines)
        BY <1>4, SortedFromOf
      <4>2. f \in Candidates
        BY <1>4, <4>1, SortedFromOf
      <4>3. DOMAIN functions = 1..n
        BY <1>4, SortedFromOf
      <4>4. f.start <= f.end
        BY <1>1, <4>1, <4>3
      <4> HIDE DEF f
      <4>5. Answer(g, image.files, a) =
              [Answer(IF RowsAscend(f) THEN f ELSE Compacted(f), image.files, a)
                 EXCEPT !.name = g.name]
        BY <2>1, <3>2, <4>1, <4>2, <4>4, SameRow
      <4> QED BY <3>1, <3>3, <4>5
    <3>7. AnswersTo(f, found.name)
      <4>1. AnswersTo(f, Best(S, i).name)
        BY <1>4, <3>2, LastAnswersTo
      <4> HIDE DEF f
      <4> QED BY <3>2, <3>3, <4>1
    <3> HIDE DEF f
    <3>8. f \in eligible
      BY <3>2 DEF f
    <3> QED BY <3>4, <3>5, <3>6, <3>7, <3>8 DEF found, eligible
  <2> QED BY <2>4, <2>5
<1> QED
  BY <1>8 DEF BestAnswers, EligibleOf, CoveringOf, SizedOf, NearOf, BelowOf

-----------------------------------------------------------------------------
(* Merging. *)

\* Functions with aliases of their range.
Parents ==
  {f \in [start : Nat, end : Nat, name : Nat \ {0}, lines : Seq(Rows), calls : Seq(Nat),
          sites : SUBSET Nat, merged : Seq(Plain)] :
     f.start <= f.end /\ \A i \in DOMAIN f.merged : SameRange(f.merged[i], f)}

RecordsOf(f) == {[f EXCEPT !.merged = <<>>]} \cup Range(f.merged)

LEMMA ParentType ==
  ASSUME NEW f \in Parents
  PROVE  /\ f.start \in Nat /\ f.end \in Nat /\ f.start <= f.end
         /\ f.merged \in Seq(Plain)
         /\ \A i \in 1..Len(f.merged) : SameRange(f.merged[i], f) /\ f.merged[i] \in Plain
         /\ DOMAIN f.merged = 1..Len(f.merged) /\ Len(f.merged) \in Nat
<1>1. /\ f.start \in Nat /\ f.end \in Nat /\ f.start <= f.end
      /\ f.merged \in Seq(Plain)
      /\ \A i \in DOMAIN f.merged : SameRange(f.merged[i], f)
  BY DEF Parents
<1>2. DOMAIN f.merged = 1..Len(f.merged) /\ Len(f.merged) \in Nat
      /\ \A i \in 1..Len(f.merged) : f.merged[i] \in Plain
  BY <1>1, SeqType
<1> QED
  BY <1>1, <1>2

LEMMA PlainParent ==
  ASSUME NEW f \in Plain
  PROVE  f \in Parents /\ RecordsOf(f) = {f}
<1>1. f.merged = <<>> /\ <<>> \in Seq(Plain) /\ ~\E i \in DOMAIN <<>> : TRUE
  BY PlainType
<1>2. f \in Parents
  BY <1>1 DEF Plain, Parents
<1>3. [f EXCEPT !.merged = <<>>] = f
  BY <1>1 DEF Plain
<1>4. Range(<<>>) = {}
  BY <1>1 DEF Range
<1> QED
  BY <1>1, <1>2, <1>3, <1>4 DEF RecordsOf

LEMMA AliasAdded ==
  ASSUME NEW p \in Parents, NEW f \in Plain, SameRange(p, f)
  PROVE  LET q == [p EXCEPT !.merged = Append(p.merged, f)]
         IN /\ q \in Parents /\ SameRange(q, p)
            /\ RecordsOf(q) = RecordsOf(p) \cup {f}
<1> DEFINE m == Append(p.merged, f)
           q == [p EXCEPT !.merged = m]
           L == Len(p.merged)
<1>1. /\ p.merged \in Seq(Plain) /\ L \in Nat
      /\ \A i \in 1..L : SameRange(p.merged[i], p) /\ p.merged[i] \in Plain
      /\ DOMAIN p.merged = 1..L
  BY ParentType
<1>2. /\ m \in Seq(Plain) /\ Len(m) = L + 1 /\ m[L + 1] = f
      /\ \A i \in 1..L : m[i] = p.merged[i]
  BY <1>1, AppendAt
<1>3. DOMAIN m = 1..L + 1
  BY <1>2, SeqType
<1> HIDE DEF m, L
<1>4. /\ q.start = p.start /\ q.end = p.end /\ q.merged = m
      /\ [q EXCEPT !.merged = <<>>] = [p EXCEPT !.merged = <<>>]
  BY DEF Parents
<1>5. \A i \in DOMAIN m : SameRange(m[i], q)
  <2> TAKE i \in DOMAIN m
  <2>1. CASE i = L + 1
    BY <1>2, <1>4, <2>1 DEF SameRange
  <2>2. CASE i # L + 1
    <3>1. i \in 1..L
      BY <1>1, <1>3, <2>2
    <3> QED BY <1>1, <1>2, <1>4, <3>1 DEF SameRange
  <2> QED BY <2>1, <2>2
<1>6. q \in Parents
  BY <1>2, <1>4, <1>5 DEF Parents
<1>7. Range(m) = Range(p.merged) \cup {f}
  <2>1. L + 1 \in DOMAIN m /\ \A i \in 1..L : i \in DOMAIN m
    BY <1>1, <1>3
  <2>2. \A i \in DOMAIN m : i = L + 1 \/ i \in 1..L
    BY <1>1, <1>3
  <2>3. f \in Range(m) /\ Range(p.merged) \subseteq Range(m)
    BY <1>1, <1>2, <2>1 DEF Range
  <2>4. \A g \in Range(m) : g = f \/ g \in Range(p.merged)
    BY <1>1, <1>2, <2>2 DEF Range
  <2> QED BY <2>3, <2>4
<1> QED
  BY <1>4, <1>6, <1>7 DEF RecordsOf, SameRange, m

\* What merging has kept of the first n functions.
Merged(S, n, kept) ==
  /\ kept \in Seq(Parents)
  /\ n = 0 => kept = <<>>
  /\ n > 0 => Len(kept) > 0 /\ SameRange(kept[Len(kept)], S[n])
  /\ \A t, u \in 1..Len(kept) : t < u => RangeBefore(kept[t], kept[u])
  /\ \A i \in 1..n : \E t \in 1..Len(kept) :
       S[i] \in RecordsOf(kept[t]) /\ SameRange(S[i], kept[t])
  /\ \A t \in 1..Len(kept) : \A g \in RecordsOf(kept[t]) : \E i \in 1..n : g = S[i]

LEMMA MergeKeeps ==
  ASSUME NEW S, NEW N, Ordered(S, N), NEW n \in 1..N, NEW kept, Merged(S, n - 1, kept)
  PROVE  Merged(S, n, MergeStep(kept, S[n]))
<1> DEFINE L == Len(kept)
           f == S[n]
           after == MergeStep(kept, f)
<1>1. N \in Nat /\ f \in Plain /\ n \in Nat /\ n > 0 /\ n # 0
  BY DEF Ordered
<1>2. kept \in Seq(Parents) /\ L \in Nat /\ \A t \in 1..L : kept[t] \in Parents
  BY SeqType DEF Merged
<1>3. f \in Parents /\ RecordsOf(f) = {f} /\ f.start \in Nat /\ f.end \in Nat
  BY <1>1, PlainParent, PlainType
<1>4. /\ n > 1 => n - 1 \in 1..N /\ n - 1 > 0 /\ n - 1 < n
      /\ \A i \in 1..n : i = n \/ i \in 1..n - 1
  BY <1>1
<1>5. kept = <<>> <=> n = 1
  BY <1>1, <1>4 DEF Merged
<1>6. n > 1 => L > 0 /\ L \in 1..L /\ SameRange(kept[L], S[n - 1])
  BY <1>2, <1>4 DEF Merged
<1>7. /\ \A t, u \in 1..L : t < u => RangeBefore(kept[t], kept[u])
      /\ \A i \in 1..n - 1 : \E t \in 1..L :
           S[i] \in RecordsOf(kept[t]) /\ SameRange(S[i], kept[t])
      /\ \A t \in 1..L : \A g \in RecordsOf(kept[t]) : \E i \in 1..n - 1 : g = S[i]
  BY DEF Merged
<1> HIDE DEF f
<1>8. CASE kept = <<>> \/ ~SameRange(Last(kept), f)
  <2>1. after = Append(kept, f)
    BY <1>8 DEF MergeStep
  <2> HIDE DEF L, after
  <2>2. /\ after \in Seq(Parents) /\ Len(after) = L + 1 /\ after[L + 1] = f
        /\ \A t \in 1..L : after[t] = kept[t]
    BY <1>2, <1>3, <2>1, AppendAt DEF L
  <2>3. ASSUME NEW t \in 1..L PROVE RangeBefore(kept[t], f)
    <3>1. n > 1
      BY <1>1, <1>2, <1>5 DEF L
    <3>2. SameRange(kept[L], S[n - 1]) /\ L \in 1..L /\ ~SameRange(kept[L], f)
      BY <1>6, <1>8, <1>5, <3>1 DEF Last, L
    <3>3. RangeBefore(S[n - 1], f) \/ SameRange(S[n - 1], f)
      BY <1>4, <3>1, OrderedRanges DEF f
    <3>4. RangeBefore(kept[L], f)
      BY <3>2, <3>3 DEF SameRange, RangeBefore
    <3>5. t = L \/ RangeBefore(kept[t], kept[L])
      BY <1>2, <1>7, <3>2
    <3>6. /\ kept[t].start \in Nat /\ kept[t].end \in Nat
          /\ kept[L].start \in Nat /\ kept[L].end \in Nat
      BY <1>2, <3>2, ParentType
    <3> QED BY <1>3, <3>4, <3>5, <3>6 DEF RangeBefore
  <2>4. ASSUME NEW t \in 1..Len(after), NEW u \in 1..Len(after), t < u
        PROVE  RangeBefore(after[t], after[u])
    <3>1. t \in 1..L /\ (u = L + 1 \/ u \in 1..L)
      BY <1>2, <2>2, <2>4
    <3> QED BY <1>7, <2>2, <2>3, <2>4, <3>1
  <2>5. ASSUME NEW i \in 1..n
        PROVE  \E t \in 1..Len(after) : S[i] \in RecordsOf(after[t]) /\ SameRange(S[i], after[t])
    <3>1. CASE i = n
      <4>1. L + 1 \in 1..Len(after)
        BY <1>2, <2>2
      <4> QED BY <1>3, <2>2, <3>1, <4>1 DEF SameRange, f
    <3>2. CASE i \in 1..n - 1
      <4>1. PICK t \in 1..L : S[i] \in RecordsOf(kept[t]) /\ SameRange(S[i], kept[t])
        BY <1>7, <3>2
      <4>2. t \in 1..Len(after)
        BY <1>2, <2>2
      <4> QED BY <2>2, <4>1, <4>2
    <3> QED BY <1>4, <3>1, <3>2
  <2>6. Len(after) > 0 /\ SameRange(after[Len(after)], f)
    BY <1>2, <2>2 DEF SameRange
  <2>7. ASSUME NEW t \in 1..Len(after), NEW g \in RecordsOf(after[t]) PROVE \E i \in 1..n : g = S[i]
    <3>1. CASE t = L + 1
      <4>1. n \in 1..n
        BY <1>1
      <4> QED BY <1>3, <2>2, <2>7, <3>1, <4>1 DEF f
    <3>2. CASE t # L + 1
      <4>1. t \in 1..L
        BY <1>2, <2>2, <3>2
      <4>2. PICK i \in 1..n - 1 : g = S[i]
        BY <1>7, <2>2, <2>7, <4>1
      <4> QED BY <1>1, <4>2
    <3> QED BY <3>1, <3>2
  <2> QED BY <1>1, <2>2, <2>4, <2>5, <2>6, <2>7 DEF Merged, after, f
<1>9. CASE kept # <<>> /\ SameRange(Last(kept), f)
  <2> DEFINE p == kept[L]
             previous == IF p.merged = <<>> THEN p ELSE Last(p.merged)
             q == [p EXCEPT !.merged = Append(p.merged, f)]
  <2>1. n > 1 /\ L > 0 /\ L \in 1..L /\ p \in Parents /\ Last(kept) = p /\ SameRange(p, f)
    BY <1>1, <1>2, <1>5, <1>6, <1>9 DEF Last
  <2>2. after = IF previous = f THEN kept ELSE Append(Front(kept), q)
    BY <1>9, <2>1 DEF MergeStep
  <2>3. PICK r \in Parents : /\ SameRange(r, p) /\ RecordsOf(r) = RecordsOf(p) \cup {f}
                             /\ \/ after = kept /\ r = p
                                \/ after = Append(Front(kept), r)
    <3>1. CASE previous = f
      <4>1. f \in RecordsOf(p)
        <5>1. CASE p.merged = <<>>
          BY <1>3, <3>1, <5>1
        <5>2. CASE p.merged # <<>>
          <6>1. Len(p.merged) \in 1..Len(p.merged) /\ DOMAIN p.merged = 1..Len(p.merged)
            BY <2>1, <5>2, ParentType, EmptySeq
          <6>2. p.merged[Len(p.merged)] = f
            BY <3>1, <5>2 DEF Last
          <6> QED BY <6>1, <6>2 DEF RecordsOf, Range
        <5> QED BY <5>1, <5>2
      <4> QED BY <2>1, <2>2, <3>1, <4>1 DEF SameRange
    <3>2. CASE previous # f
      <4>1. /\ q \in Parents /\ SameRange(q, p)
            /\ RecordsOf(q) = RecordsOf(p) \cup {f}
        BY <1>1, <2>1, AliasAdded
      <4>2. after = Append(Front(kept), q)
        BY <2>2, <3>2
      <4> QED BY <4>1, <4>2
    <3> QED BY <3>1, <3>2
  <2> HIDE DEF p, previous, q, after
  <2>4. /\ after \in Seq(Parents) /\ Len(after) = L /\ after[L] = r
        /\ \A t \in 1..L - 1 : after[t] = kept[t]
    <3>1. CASE after = kept /\ r = p
      BY <1>2, <3>1 DEF p
    <3>2. CASE after = Append(Front(kept), r)
      BY <1>2, <2>1, <3>2, FrontAppend
    <3> QED BY <2>3, <3>1, <3>2
  <2> HIDE DEF L
  <2>5. \A t \in 1..L : /\ SameRange(after[t], kept[t]) /\ RecordsOf(kept[t]) \subseteq RecordsOf(after[t])
    <3> TAKE t \in 1..L
    <3>1. CASE t = L
      BY <2>3, <2>4, <3>1 DEF p
    <3>2. CASE t # L
      <4>1. t \in 1..L - 1
        BY <1>2, <3>2
      <4> QED BY <2>4, <4>1 DEF SameRange
    <3> QED BY <3>1, <3>2
  <2>6. ASSUME NEW t \in 1..L, NEW u \in 1..L, t < u PROVE RangeBefore(after[t], after[u])
    <3>1. RangeBefore(kept[t], kept[u])
      BY <1>7, <2>6
    <3> QED BY <2>5, <3>1 DEF RangeBefore, SameRange
  <2>7. ASSUME NEW i \in 1..n
        PROVE  \E t \in 1..L : S[i] \in RecordsOf(after[t]) /\ SameRange(S[i], after[t])
    <3>1. CASE i = n
      <4>1. f \in RecordsOf(after[L]) /\ SameRange(f, after[L])
        BY <2>1, <2>3, <2>4 DEF SameRange
      <4> QED BY <2>1, <3>1, <4>1 DEF f
    <3>2. CASE i \in 1..n - 1
      <4>1. PICK t \in 1..L : S[i] \in RecordsOf(kept[t]) /\ SameRange(S[i], kept[t])
        BY <1>7, <3>2
      <4> QED BY <2>5, <4>1 DEF SameRange
    <3> QED BY <1>4, <3>1, <3>2
  <2>8. SameRange(after[L], f)
    BY <2>1, <2>3, <2>4 DEF SameRange
  <2>9. ASSUME NEW t \in 1..L, NEW g \in RecordsOf(after[t]) PROVE \E i \in 1..n : g = S[i]
    <3>1. g = f \/ g \in RecordsOf(kept[t])
      <4>1. CASE t = L
        BY <2>3, <2>4, <2>9, <4>1 DEF p
      <4>2. CASE t # L
        <5>1. t \in 1..L - 1
          BY <1>2, <4>2
        <5> QED BY <2>4, <2>9, <5>1
      <4> QED BY <4>1, <4>2
    <3>2. n \in 1..n /\ \A i \in 1..n - 1 : i \in 1..n
      BY <1>1
    <3> QED BY <1>7, <3>1, <3>2 DEF f
  <2> QED BY <1>1, <2>1, <2>4, <2>6, <2>7, <2>8, <2>9 DEF Merged, after, f
<1> QED
  BY <1>8, <1>9

LEMMA MergeResult ==
  ASSUME NEW S, NEW N, Ordered(S, N), Len(S) = N
  PROVE  Merged(S, N, FunctionSet(S, "MergeEqualRanges"))
<1>1. N \in Nat
  BY DEF Ordered
<1>2. PICK kept :
        /\ kept[0] = <<>>
        /\ \A n \in 1..N : kept[n] = Step("MergeEqualRanges", kept[n - 1], S[n])
        /\ FunctionSet(S, "MergeEqualRanges") = kept[N]
  BY <1>1, KeptSteps
<1> DEFINE Bad == {n \in 0..N : ~Merged(S, n, kept[n])}
<1>3. ASSUME NEW n \in Bad, \A m \in Bad : n <= m PROVE FALSE
  <2>1. n \in 0..N /\ ~Merged(S, n, kept[n])
    OBVIOUS
  <2>2. CASE n = 0
    <3>1. <<>> \in Seq(Parents) /\ \A t \in 1..Len(<<>>) : FALSE
      OBVIOUS
    <3>2. kept[n] = <<>> /\ ~(n > 0) /\ \A i \in 1..n : FALSE
      BY <1>2, <2>2
    <3> QED BY <2>1, <3>1, <3>2 DEF Merged
  <2>3. CASE n # 0
    <3>1. n \in 1..N /\ n - 1 \in 0..N /\ ~(n <= n - 1)
      BY <1>1, <2>1, <2>3
    <3>2. n - 1 \notin Bad
      <4> HIDE DEF Bad
      <4> QED BY <1>3, <3>1
    <3>3. Merged(S, n - 1, kept[n - 1])
      BY <3>1, <3>2
    <3>4. kept[n] = MergeStep(kept[n - 1], S[n])
      BY <1>2, <3>1 DEF Step
    <3> QED BY <2>1, <3>1, <3>3, <3>4, MergeKeeps
  <2> QED BY <2>2, <2>3
<1>4. Bad = {}
  <2>1. Bad \in SUBSET Nat
    BY <1>1
  <2> HIDE DEF Bad
  <2> QED BY <1>3, <2>1, LeastOf
<1>5. N \in 0..N
  BY <1>1
<1> QED
  BY <1>2, <1>4, <1>5

\* The repair gives the parent and its aliases one end.
LEMMA RepairedParent ==
  ASSUME NEW p \in Parents, IsEmpty(p)
  PROVE  LET e == RepairedEnd(p.start)
             q == Throughout(p, LAMBDA g : [g EXCEPT !.end = RepairedEnd(g.start)])
         IN /\ q.start = p.start /\ q.end = e
            /\ \A f \in RecordsOf(p) : [f EXCEPT !.end = e] \in RecordsOf(q)
<1> DEFINE e == RepairedEnd(p.start)
           q == Throughout(p, LAMBDA g : [g EXCEPT !.end = RepairedEnd(g.start)])
           m == [i \in DOMAIN p.merged |-> [p.merged[i] EXCEPT !.end = RepairedEnd(p.merged[i].start)]]
<1>1. q = [[p EXCEPT !.end = e] EXCEPT !.merged = m]
  BY DEF Throughout, Parents
<1> HIDE DEF q, m, e
<1>2. q.start = p.start /\ q.end = e /\ q.merged = m
  BY <1>1 DEF Parents
<1>3. ASSUME NEW f \in Range(p.merged) PROVE [f EXCEPT !.end = e] \in Range(q.merged)
  <2>1. PICK i \in DOMAIN p.merged : f = p.merged[i]
    BY DEF Range
  <2>2. SameRange(p.merged[i], p)
    BY <2>1, ParentType
  <2>3. m[i] = [f EXCEPT !.end = e] /\ i \in DOMAIN m
    BY <2>1, <2>2 DEF m, e, SameRange
  <2> QED BY <1>2, <2>3 DEF Range
<1>4. [[p EXCEPT !.merged = <<>>] EXCEPT !.end = e] = [q EXCEPT !.merged = <<>>]
  BY <1>1 DEF Parents
<1>5. \A f \in RecordsOf(p) : [f EXCEPT !.end = e] \in RecordsOf(q)
  BY <1>3, <1>4 DEF RecordsOf
<1> QED
  BY <1>2, <1>5 DEF q, e

\* A merged table keeps every function, and one function of each range.
LEMMA MergeKeepsAliases ==
  ASSUME functions \in Seq(Candidates), \A i \in DOMAIN functions : Valid(functions[i]),
         image.functions =
           RepairFinalRange(FunctionSet(Sorted(functions), "MergeEqualRanges"), options.repair)
  PROVE  AliasesKept
<1> DEFINE n == Len(functions)
           S == Sorted(functions)
           M == FunctionSet(S, "MergeEqualRanges")
           T == image.functions
           K == Len(M)
           p == M[K]
           e == RepairedEnd(p.start)
           q == Throughout(p, LAMBDA g : [g EXCEPT !.end = RepairedEnd(g.start)])
<1>1. \A i \in DOMAIN functions : functions[i].start <= functions[i].end
  BY DEF Valid
<1>2. Ordered(S, n) /\ \E from \in Bijection(1..n, 1..n) :
                         \A j \in 1..n : S[j] = Compacted(functions[from[j]])
  <2> HIDE DEF n, S
  <2> QED BY <1>1, SortedOf DEF n, S
<1> HIDE DEF S
<1>3. PICK from \in Bijection(1..n, 1..n) : \A j \in 1..n : S[j] = Compacted(functions[from[j]])
  BY <1>2
<1>4. SortedFrom(S, functions, from, n)
  BY <1>1, <1>2, <1>3 DEF SortedFrom
<1> HIDE DEF n
<1>5. Merged(S, n, M)
  <2>1. Len(S) = n
    <3>1. S \in [1..n -> Plain] /\ n \in Nat
      BY <1>2 DEF Ordered
    <3> QED BY <3>1
  <2> QED BY <1>2, <2>1, MergeResult
<1>6. T = RepairFinalRange(M, options.repair)
  BY DEF S
<1> HIDE DEF M, T
<1>7. /\ M \in Seq(Parents) /\ K \in Nat /\ DOMAIN M = 1..K /\ \A t \in 1..K : M[t] \in Parents
      /\ \A t, u \in 1..K : t < u => RangeBefore(M[t], M[u])
      /\ \A j \in 1..n : \E t \in 1..K : S[j] \in RecordsOf(M[t]) /\ SameRange(S[j], M[t])
  BY <1>5, SeqType DEF Merged
<1> HIDE DEF K, q, e
<1>8. /\ DOMAIN T = 1..K
      /\ \A t \in 1..K : \/ T[t] = M[t]
                         \/ t = K /\ IsEmpty(p) /\ T[t] = q
  <2>1. CASE T = M
    BY <1>7, <2>1
  <2>2. CASE T # M
    <3>1. M # <<>> /\ IsEmpty(Last(M)) /\ Last(M) = p
          /\ T = Append(Front(M), Throughout(Last(M), LAMBDA g : [g EXCEPT !.end = RepairedEnd(g.start)]))
      BY <1>6, <2>2 DEF RepairFinalRange, Last, K
    <3>2. T = Append(Front(M), q) /\ K > 0
      <4>1. K # 0
        BY <1>7, <3>1, EmptySeq DEF K
      <4> QED BY <1>7, <3>1, <4>1 DEF q
    <3> DEFINE X == {M[t] : t \in 1..K} \cup {q}
    <3>3. M \in Seq(X)
      <4>1. M = [t \in 1..K |-> M[t]]
        BY <1>7
      <4>2. \A t \in 1..K : M[t] \in X
        OBVIOUS
      <4> HIDE DEF X
      <4> QED BY <1>7, <4>1, <4>2
    <3>4. q \in X
      OBVIOUS
    <3> HIDE DEF X
    <3>5. /\ T \in Seq(X) /\ Len(T) = K /\ T[K] = q /\ \A t \in 1..K - 1 : T[t] = M[t]
      <4> HIDE DEF p
      <4>1. Len(M) > 0 /\ Len(M) = K
        BY <3>2 DEF K
      <4>2. /\ Append(Front(M), q) \in Seq(X) /\ Len(Append(Front(M), q)) = Len(M)
            /\ Append(Front(M), q)[Len(M)] = q
            /\ \A t \in 1..Len(M) - 1 : Append(Front(M), q)[t] = M[t]
        BY <3>3, <3>4, <4>1, FrontAppend, ZenonT(60)
      <4> QED BY <3>2, <4>1, <4>2
    <3>6. DOMAIN T = 1..K
      BY <3>5
    <3>7. \A t \in 1..K : t = K \/ t \in 1..K - 1
      BY <1>7
    <3> QED BY <3>1, <3>5, <3>6, <3>7
  <2> QED BY <2>1, <2>2
<1>9. IsEmpty(p) /\ p \in Parents =>
        /\ q.start = p.start /\ q.end = e
        /\ \A f \in RecordsOf(p) : [f EXCEPT !.end = e] \in RecordsOf(q)
  BY RepairedParent DEF q, e
<1> DEFINE records == UNION {RecordsOf(f) : f \in Range(T)}
<1>10. ASSUME NEW f \in Range(functions)
       PROVE  \/ Compacted(f) \in records
              \/ IsEmpty(f) /\ [Compacted(f) EXCEPT !.end = RepairedEnd(f.start)] \in records
  <2> HIDE DEF records, p
  <2>1. PICK k \in 1..n : f = functions[k]
    <3>1. DOMAIN functions = 1..n
      BY <1>4, SortedFromOf
    <3> QED BY <3>1 DEF Range
  <2>2. PICK j \in 1..n : from[j] = k
    BY <1>4, SortedFromOf
  <2>3. S[j] = Compacted(f) /\ SameRange(S[j], f)
    <3>1. /\ S[j] = Compacted(functions[from[j]]) /\ SameRange(S[j], functions[from[j]])
      BY <1>4, SortedFromOf
    <3> QED BY <2>1, <2>2, <3>1
  <2>4. PICK t \in 1..K : S[j] \in RecordsOf(M[t]) /\ SameRange(S[j], M[t])
    BY <1>7
  <2>5. T[t] \in Range(T)
    BY <1>8 DEF Range
  <2>6. CASE T[t] = M[t]
    BY <2>3, <2>4, <2>5, <2>6 DEF records
  <2>7. CASE t = K /\ IsEmpty(p) /\ T[t] = q
    <3>1. p \in Parents /\ S[j] \in RecordsOf(p) /\ SameRange(S[j], p)
      BY <1>7, <2>4, <2>7 DEF p
    <3>2. [Compacted(f) EXCEPT !.end = e] \in RecordsOf(q)
      BY <1>9, <2>3, <2>7, <3>1
    <3>3. e = RepairedEnd(f.start) /\ IsEmpty(f)
      <4>1. S[j].start = p.start /\ S[j].end = p.end /\ p.start = p.end
        BY <2>7, <3>1 DEF SameRange, IsEmpty
      <4> QED BY <2>3, <4>1 DEF e, SameRange, IsEmpty
    <3> QED BY <2>5, <2>7, <3>2, <3>3 DEF records
  <2> QED BY <1>8, <2>6, <2>7
<1> HIDE DEF p
<1>11. ASSUME NEW t \in 1..K, NEW u \in 1..K, t < u PROVE ~SameRange(T[t], T[u])
  <2>1. T[t] = M[t]
    BY <1>7, <1>8, <1>11
  <2>2. RangeBefore(M[t], M[u]) /\ M[t] \in Parents /\ M[u] \in Parents
    BY <1>7, <1>11
  <2>3. /\ M[t].start \in Nat /\ M[t].end \in Nat /\ M[t].start <= M[t].end
        /\ M[u].start \in Nat /\ M[u].end \in Nat
    BY <2>2, ParentType
  <2>4. CASE T[u] = M[u]
    BY <2>1, <2>2, <2>3, <2>4 DEF RangeBefore, SameRange
  <2>5. CASE u = K /\ IsEmpty(p) /\ T[u] = q
    <3>1. T[u].start = M[u].start /\ M[u].start = M[u].end
      BY <1>9, <2>2, <2>5 DEF p, IsEmpty
    <3> QED BY <2>1, <2>2, <2>3, <3>1 DEF RangeBefore, SameRange
  <2> QED BY <1>8, <2>4, <2>5
<1>12. ASSUME NEW t \in DOMAIN T, NEW u \in DOMAIN T, SameRange(T[t], T[u]) PROVE t = u
  <2>1. t \in 1..K /\ u \in 1..K /\ (t < u \/ u < t \/ t = u)
    BY <1>7, <1>8
  <2>2. SameRange(T[u], T[t])
    BY <1>12 DEF SameRange
  <2> QED BY <1>11, <1>12, <2>1, <2>2
<1> QED
  BY <1>10, <1>12 DEF AliasesKept, RecordsOf, T

-----------------------------------------------------------------------------
(* Finalized tables.  Finalizing what was finalized changes nothing. *)

\* No row repeats the one before.
NoRepeats(rows) ==
  \A i \in 2..Len(rows) : rows[i].file # rows[i - 1].file \/ rows[i].line # rows[i - 1].line

FilesOf(g) == {r.file : r \in Range(g.lines)} \cup Range(g.calls)

\* Functions without aliases as finalization leaves them, of a table of F files.
Record(F) == {g \in Plain : NoRepeats(g.lines) /\ \A i \in FilesOf(g) : i < F}

\* The same with aliases.
Family(F) ==
  {f \in [start : Nat, end : Nat, name : Nat \ {0}, lines : Seq(Rows), calls : Seq(Nat),
          sites : SUBSET Nat, merged : Seq(Record(F))] :
     [f EXCEPT !.merged = <<>>] \in Record(F)}

LEMMA RankOfAll ==
  ASSUME NEW n \in Nat, NEW i \in 1..n
  PROVE  Rank(1..n, i) = i
<1>1. {j \in 1..n : j <= i} = 1..i
  OBVIOUS
<1>2. Cardinality(1..i) = i
  BY FS_Interval
<1> QED
  BY <1>1, <1>2 DEF Rank

LEMMA CompactRowsAgain ==
  ASSUME NEW rows \in Seq(Rows), NoRepeats(rows)
  PROVE  CompactRows(rows) = rows
<1> DEFINE n == Len(rows)
<1>1. n \in Nat /\ DOMAIN rows = 1..n /\ rows \in [1..n -> Rows]
  BY SeqType
<1>2. RowsKept(rows) = 1..n
  BY <1>1 DEF RowsKept, NoRepeats
<1>3. CompactRows(rows) = At(rows, 1..n)
  BY <1>2, RowsKeptOf
<1> HIDE DEF n
<1>4. Cardinality(1..n) = n
  BY <1>1, FS_Interval
<1> DEFINE pos(k) == CHOOSE i \in 1..n : Cardinality({j \in 1..n : j <= i}) = k
<1>5. ASSUME NEW k \in 1..n PROVE pos(k) = k
  <2>1. \A i \in 1..n : Cardinality({j \in 1..n : j <= i}) = i
    BY <1>1, RankOfAll DEF Rank
  <2> QED BY <2>1
<1>6. At(rows, 1..n) = [k \in 1..n |-> rows[k]]
  <2>1. At(rows, 1..n) = [k \in 1..Cardinality(1..n) |-> rows[pos(k)]]
    BY DEF At
  <2> HIDE DEF pos
  <2> QED BY <1>4, <1>5, <2>1
<1> QED
  BY <1>1, <1>3, <1>6

LEMMA RecordType ==
  ASSUME NEW F, NEW g \in Record(F)
  PROVE  /\ g \in Plain /\ g.lines \in Seq(Rows) /\ g.calls \in Seq(Nat) /\ NoRepeats(g.lines)
         /\ g.merged = <<>> /\ IsFiniteSet(g.sites)
         /\ \A i \in DOMAIN g.lines : g.lines[i] \in Rows /\ g.lines[i].file \in Nat /\ g.lines[i].file < F
         /\ \A i \in DOMAIN g.calls : g.calls[i] \in Nat /\ g.calls[i] < F
<1>1. /\ g \in Plain /\ g.lines \in Seq(Rows) /\ g.calls \in Seq(Nat) /\ NoRepeats(g.lines)
      /\ g.merged = <<>> /\ IsFiniteSet(g.sites) /\ \A i \in FilesOf(g) : i < F
  BY DEF Record, Plain
<1>2. /\ DOMAIN g.lines = 1..Len(g.lines) /\ \A i \in 1..Len(g.lines) : g.lines[i] \in Rows
      /\ DOMAIN g.calls = 1..Len(g.calls) /\ \A i \in 1..Len(g.calls) : g.calls[i] \in Nat
  BY <1>1, SeqType
<1>3. ASSUME NEW i \in DOMAIN g.lines PROVE g.lines[i].file < F /\ g.lines[i].file \in Nat
  <2>1. g.lines[i].file \in FilesOf(g)
    BY DEF FilesOf, Range
  <2> QED BY <1>1, <1>2, <2>1 DEF Rows
<1>4. ASSUME NEW i \in DOMAIN g.calls PROVE g.calls[i] < F
  <2>1. g.calls[i] \in FilesOf(g)
    BY DEF FilesOf, Range
  <2> QED BY <1>1, <2>1
<1> QED
  BY <1>1, <1>2, <1>3, <1>4

LEMMA FamilyType ==
  ASSUME NEW F, NEW f \in Family(F)
  PROVE  /\ f \in [start : Nat, end : Nat, name : Nat \ {0}, lines : Seq(Rows), calls : Seq(Nat),
                   sites : SUBSET Nat, merged : Seq(Record(F))]
         /\ f.lines \in Seq(Rows) /\ f.calls \in Seq(Nat) /\ NoRepeats(f.lines) /\ IsFiniteSet(f.sites)
         /\ \A i \in DOMAIN f.lines : f.lines[i] \in Rows /\ f.lines[i].file \in Nat /\ f.lines[i].file < F
         /\ \A i \in DOMAIN f.calls : f.calls[i] \in Nat /\ f.calls[i] < F
         /\ \A i \in DOMAIN f.merged : f.merged[i] \in Record(F)
         /\ OrderingKey(f) \in Keys(7)
         /\ OrderingKey(f)[1] = f.start /\ OrderingKey(f)[2] = f.end
<1> DEFINE g == [f EXCEPT !.merged = <<>>]
<1>1. /\ f \in [start : Nat, end : Nat, name : Nat \ {0}, lines : Seq(Rows), calls : Seq(Nat),
                sites : SUBSET Nat, merged : Seq(Record(F))]
      /\ g \in Record(F)
  BY DEF Family
<1>2. g.lines = f.lines /\ g.calls = f.calls /\ g.sites = f.sites
  BY <1>1
<1> HIDE DEF g
<1>3. /\ f.lines \in Seq(Rows) /\ f.calls \in Seq(Nat) /\ NoRepeats(f.lines) /\ IsFiniteSet(f.sites)
      /\ \A i \in DOMAIN f.lines : f.lines[i] \in Rows /\ f.lines[i].file \in Nat /\ f.lines[i].file < F
      /\ \A i \in DOMAIN f.calls : f.calls[i] \in Nat /\ f.calls[i] < F
  BY <1>1, <1>2, RecordType
<1>4. f.merged \in Seq(Record(F)) /\ Len(f.merged) \in Nat /\ \A i \in DOMAIN f.merged : f.merged[i] \in Record(F)
  BY <1>1, SeqType
<1>5. /\ Len(f.calls) \in Nat /\ Len(f.lines) \in Nat /\ Cardinality(f.sites) \in Nat
      /\ f.start \in Nat /\ f.end \in Nat /\ f.name \in Nat
  BY <1>1, <1>3, SeqType, FS_CardinalityType
<1>6. OrderingKey(f) \in Keys(7)
  BY <1>4, <1>5 DEF OrderingKey, Keys
<1>7. OrderingKey(f)[1] = f.start /\ OrderingKey(f)[2] = f.end
  BY DEF OrderingKey
<1> QED
  BY <1>1, <1>3, <1>4, <1>6, <1>7

LEMMA CompactedAgain ==
  ASSUME NEW F, NEW f \in Family(F)
  PROVE  Compacted(f) = f
<1> DEFINE m == [i \in DOMAIN f.merged |-> [f.merged[i] EXCEPT !.lines = CompactRows(@)]]
<1>1. Compacted(f) = [[f EXCEPT !.lines = CompactRows(@)] EXCEPT !.merged = m]
  BY DEF Compacted, Throughout
<1>2. CompactRows(f.lines) = f.lines
  BY FamilyType, CompactRowsAgain
<1>3. ASSUME NEW i \in DOMAIN f.merged PROVE [f.merged[i] EXCEPT !.lines = CompactRows(@)] = f.merged[i]
  <2>1. f.merged[i] \in Record(F)
    BY FamilyType
  <2>2. CompactRows(f.merged[i].lines) = f.merged[i].lines
    BY <2>1, RecordType, CompactRowsAgain
  <2> QED BY <2>1, <2>2 DEF Record, Plain
<1>4. f.merged = [i \in DOMAIN f.merged |-> f.merged[i]]
  BY FamilyType
<1>5. m = f.merged
  BY <1>3, <1>4
<1> HIDE DEF m
<1>6. Compacted(f) = [[f EXCEPT !.lines = f.lines] EXCEPT !.merged = f.merged]
  BY <1>1, <1>2, <1>5
<1>7. f \in [start : Nat, end : Nat, name : Nat \ {0}, lines : Seq(Rows), calls : Seq(Nat),
             sites : SUBSET Nat, merged : Seq(Record(F))]
  BY FamilyType
<1> QED
  BY <1>6, <1>7

\* A table of F files, sorted.
Table(fs, F) ==
  /\ fs \in Seq(Family(F))
  /\ \A p, q \in DOMAIN fs : p < q => ~Precedes(OrderingKey(fs[q]), OrderingKey(fs[p]))

LEMMA TableType ==
  ASSUME NEW fs, NEW F, Table(fs, F)
  PROVE  /\ Len(fs) \in Nat /\ DOMAIN fs = 1..Len(fs) /\ \A i \in 1..Len(fs) : fs[i] \in Family(F)
         /\ fs = [i \in DOMAIN fs |-> fs[i]]
         /\ Sortable(fs, Len(fs))
<1>1. fs \in Seq(Family(F))
  BY DEF Table
<1>2. Len(fs) \in Nat /\ DOMAIN fs = 1..Len(fs) /\ \A i \in 1..Len(fs) : fs[i] \in Family(F)
  BY <1>1, SeqType
<1>3. fs = [i \in DOMAIN fs |-> fs[i]]
  BY <1>1
<1>4. \A i \in 1..Len(fs) : OrderingKey(fs[i]) \in Keys(7)
  BY <1>2, FamilyType
<1> QED
  BY <1>2, <1>3, <1>4 DEF Sortable

LEMMA SortedAgain ==
  ASSUME NEW fs, NEW F, Table(fs, F)
  PROVE  Sorted(fs) = fs
<1> DEFINE n == Len(fs)
<1>1. /\ n \in Nat /\ DOMAIN fs = 1..n /\ \A i \in 1..n : fs[i] \in Family(F)
      /\ fs = [i \in DOMAIN fs |-> fs[i]] /\ Sortable(fs, n)
  BY TableType
<1> HIDE DEF n
<1>2. [i \in DOMAIN fs |-> Compacted(fs[i])] = fs
  <2>1. \A i \in DOMAIN fs : Compacted(fs[i]) = fs[i]
    BY <1>1, CompactedAgain
  <2> QED BY <1>1, <2>1
<1>3. ASSUME NEW p \in 1..n, NEW q \in 1..n, p < q PROVE Precedes(Key(fs, p), Key(fs, q))
  <2> DEFINE k == OrderingKey(fs[p])
             l == OrderingKey(fs[q])
             before == Append(k, p)
             behind == Append(l, q)
  <2>1. k \in Keys(7) /\ l \in Keys(7) /\ p \in Nat /\ q \in Nat /\ 7 \in Nat
    BY <1>1 DEF Sortable
  <2>2. ~Precedes(l, k)
    BY <1>1, <1>3 DEF Table
  <2>3. before # behind
    BY <1>1, <1>3, SortableKeys DEF Key
  <2> HIDE DEF k, l
  <2>4. 7 + 1 = 8
    OBVIOUS
  <2>5. /\ before \in Keys(7 + 1) /\ before[7 + 1] = p
        /\ behind \in Keys(7 + 1) /\ behind[7 + 1] = q
        /\ \A h \in 1..7 : before[h] = k[h] /\ behind[h] = l[h]
    <3>1. /\ before \in Keys(7 + 1) /\ before[7 + 1] = p
          /\ \A h \in 1..7 : before[h] = k[h]
      BY <2>1, AppendedKey, ZenonT(60)
    <3>2. /\ behind \in Keys(7 + 1) /\ behind[7 + 1] = q
          /\ \A h \in 1..7 : behind[h] = l[h]
      BY <2>1, AppendedKey, ZenonT(60)
    <3> QED BY <3>1, <3>2
  <2>6. Precedes(behind, before) => l = k
    BY <2>1, <2>2, PositionDecides
  <2> HIDE DEF before, behind
  <2>7. ASSUME Precedes(behind, before) PROVE FALSE
    <3>1. \A h \in 1..7 : behind[h] = before[h] /\ before[h] \in Int
      BY <2>1, <2>5, <2>6, <2>7 DEF Keys
    <3>2. PICK i \in 1..8 : behind[i] < before[i]
      BY <2>4, <2>5, <2>7 DEF Precedes, Keys
    <3>3. i \in 1..7 \/ i = 8
      OBVIOUS
    <3> QED BY <1>3, <2>1, <2>4, <2>5, <3>1, <3>2, <3>3
  <2>8. Precedes(before, behind)
    BY <2>3, <2>4, <2>5, <2>7, KeysDiffer
  <2> QED BY <2>8 DEF Key, k, l, before, behind
<1>4. ASSUME NEW i \in 1..n PROVE PlaceOf(fs, i) = i
  <2>1. Earlier(fs, i) = 1..i - 1
    <3>1. ASSUME NEW j \in 1..n PROVE Precedes(Key(fs, j), Key(fs, i)) <=> j < i
      <4>1. Key(fs, i) \in Keys(8) /\ Key(fs, j) \in Keys(8) /\ 8 \in Nat
        BY <1>1, SortableKeys
      <4>2. j < i => Precedes(Key(fs, j), Key(fs, i))
        BY <1>3
      <4>3. i < j => ~Precedes(Key(fs, j), Key(fs, i))
        <5> SUFFICES ASSUME i < j, Precedes(Key(fs, j), Key(fs, i)) PROVE FALSE
          OBVIOUS
        <5>1. Precedes(Key(fs, i), Key(fs, j))
          BY <1>3
        <5>2. Precedes(Key(fs, i), Key(fs, i))
          BY <4>1, <5>1, PrecedesTransitive
        <5> QED BY <4>1, <5>2, PrecedesIrreflexive
      <4>4. j = i => ~Precedes(Key(fs, j), Key(fs, i))
        BY <4>1, PrecedesIrreflexive
      <4>5. j < i \/ i < j \/ j = i
        BY <1>1
      <4> QED BY <4>2, <4>3, <4>4, <4>5, <1>1
    <3>2. Earlier(fs, i) = {j \in 1..n : j < i}
      BY <1>1, <3>1 DEF Earlier
    <3> QED BY <1>1, <3>2
  <2>2. Cardinality(1..i - 1) = i - 1
    <3>1. i - 1 \in Int /\ 1 \in Int /\ i - 1 - 1 + 1 = i - 1 /\ (1 > i - 1 => i - 1 = 0)
      BY <1>1
    <3>2. Cardinality(1..(i - 1)) = IF 1 > i - 1 THEN 0 ELSE (i - 1) - 1 + 1
      BY <3>1, FS_Interval
    <3> QED BY <3>1, <3>2
  <2>3. PlaceOf(fs, i) = Cardinality(Earlier(fs, i)) + 1
    BY <1>1, SortableKeys
  <2> QED BY <1>1, <2>1, <2>2, <2>3
<1>5. SortByOrderingKey(fs) = [place \in 1..n |-> fs[place]]
  <2>1. ASSUME NEW place \in 1..n PROVE (CHOOSE i \in 1..n : PlaceOf(fs, i) = place) = place
    BY <1>4
  <2> QED BY <1>1, <2>1 DEF SortByOrderingKey
<1> QED
  BY <1>1, <1>2, <1>5 DEF Sorted

\* Finalizing a table again changes nothing.
LEMMA FinalizedAgain ==
  ASSUME NEW fs, NEW F, Table(fs, F)
  PROVE  Finalize(fs, "Preserve", FALSE) = fs
BY SortedAgain DEF Finalize, FunctionSet, RepairFinalRange

-----------------------------------------------------------------------------
(* Renumbering. *)

RowsBy(rows, remap) == [i \in DOMAIN rows |-> [rows[i] EXCEPT !.file = remap[rows[i].file]]]
CallsBy(calls, remap) == [i \in DOMAIN calls |-> remap[calls[i]]]

LEMMA OwnParts ==
  ASSUME NEW g, NEW remap
  PROVE  WithFiles(g, remap) = [g EXCEPT !.lines = RowsBy(g.lines, remap), !.calls = CallsBy(g.calls, remap)]
BY DEF WithFiles, RowsBy, CallsBy

AliasesBy(f, remap) == [i \in DOMAIN f.merged |-> WithFiles(f.merged[i], remap)]

LEMMA RenumberedParts ==
  ASSUME NEW f, NEW remap
  PROVE  /\ Renumbered(f, remap) = [WithFiles(f, remap) EXCEPT !.merged = AliasesBy(f, remap)]
         /\ \A i \in FilesOf(f) : i \in FileReferences(f)
         /\ \A j \in DOMAIN f.merged : \A i \in FilesOf(f.merged[j]) : i \in FileReferences(f)
         /\ \A i \in FileReferences(f) :
              i \in FilesOf(f) \/ \E j \in DOMAIN f.merged : i \in FilesOf(f.merged[j])
<1>1. FileReferences(f) = UNION {FilesOf(g) : g \in {f} \cup Range(f.merged)}
  BY DEF FileReferences, FilesOf
<1>2. \A j \in DOMAIN f.merged : f.merged[j] \in Range(f.merged)
  BY DEF Range
<1>3. \A g \in Range(f.merged) : \E j \in DOMAIN f.merged : g = f.merged[j]
  BY DEF Range
<1>4. Renumbered(f, remap) = [WithFiles(f, remap) EXCEPT !.merged = AliasesBy(f, remap)]
  BY DEF Renumbered, Throughout, AliasesBy
<1> QED
  BY <1>1, <1>2, <1>3, <1>4

\* Files are renumbered one to one into the files of a table of G files.
OneToOne(remap, S, G) ==
  /\ \A i \in S : remap[i] \in Nat /\ remap[i] < G
  /\ \A i, j \in S : remap[i] = remap[j] => i = j

LEMMA RowsRenumbered ==
  ASSUME NEW rows \in Seq(Rows), NoRepeats(rows), NEW remap, NEW G,
         OneToOne(remap, {rows[i].file : i \in DOMAIN rows}, G)
  PROVE  LET new == RowsBy(rows, remap)
         IN /\ new \in Seq(Rows) /\ Len(new) = Len(rows) /\ NoRepeats(new) /\ DOMAIN new = DOMAIN rows
            /\ \A i \in DOMAIN rows : new[i].file = remap[rows[i].file]
<1> DEFINE new == RowsBy(rows, remap)
           n == Len(rows)
<1>1. n \in Nat /\ DOMAIN rows = 1..n /\ \A i \in 1..n : rows[i] \in Rows
  BY SeqType
<1> HIDE DEF n
<1>2. ASSUME NEW i \in 1..n
      PROVE  /\ new[i] = [rows[i] EXCEPT !.file = remap[rows[i].file]]
             /\ new[i] \in Rows /\ new[i].file = remap[rows[i].file] /\ new[i].line = rows[i].line
  <2>1. new[i] = [rows[i] EXCEPT !.file = remap[rows[i].file]]
    BY <1>1 DEF RowsBy
  <2>2. remap[rows[i].file] \in Nat
    BY <1>1 DEF OneToOne
  <2> HIDE DEF new
  <2> QED BY <1>1, <2>1, <2>2 DEF Rows
<1>3. new = [i \in 1..n |-> new[i]]
  BY <1>1 DEF RowsBy
<1> HIDE DEF new
<1>4. new \in Seq(Rows) /\ Len(new) = n
  BY <1>1, <1>2, <1>3
<1>5. ASSUME NEW i \in 2..n
      PROVE  new[i].file # new[i - 1].file \/ new[i].line # new[i - 1].line
  <2>1. i \in 1..n /\ i - 1 \in 1..n
    BY <1>1
  <2>2. rows[i].file # rows[i - 1].file \/ rows[i].line # rows[i - 1].line
    BY <1>5 DEF NoRepeats, n
  <2>3. remap[rows[i].file] = remap[rows[i - 1].file] => rows[i].file = rows[i - 1].file
    BY <1>1, <2>1 DEF OneToOne
  <2> QED BY <1>2, <2>1, <2>2, <2>3
<1>6. NoRepeats(new)
  BY <1>4, <1>5 DEF NoRepeats
<1>7. DOMAIN new = DOMAIN rows
  BY <1>1, <1>3
<1> QED
  BY <1>1, <1>2, <1>4, <1>6, <1>7 DEF new, n

LEMMA CallsRenumbered ==
  ASSUME NEW calls \in Seq(Nat), NEW remap, \A i \in DOMAIN calls : remap[calls[i]] \in Nat
  PROVE  LET new == CallsBy(calls, remap)
         IN /\ new \in Seq(Nat) /\ Len(new) = Len(calls) /\ DOMAIN new = DOMAIN calls
            /\ \A i \in DOMAIN calls : new[i] = remap[calls[i]]
<1> DEFINE new == CallsBy(calls, remap)
           n == Len(calls)
<1>1. n \in Nat /\ DOMAIN calls = 1..n
  BY SeqType
<1> HIDE DEF n
<1>2. new = [i \in 1..n |-> remap[calls[i]]]
  BY <1>1 DEF CallsBy
<1> HIDE DEF new
<1>3. new \in Seq(Nat) /\ Len(new) = n
  BY <1>1, <1>2
<1> QED
  BY <1>1, <1>2, <1>3 DEF new, n

LEMMA FilesOfRecord ==
  ASSUME NEW g
  PROVE  /\ \A i \in DOMAIN g.lines : g.lines[i].file \in FilesOf(g)
         /\ \A i \in DOMAIN g.calls : g.calls[i] \in FilesOf(g)
         /\ \A x \in FilesOf(g) : \/ \E i \in DOMAIN g.lines : x = g.lines[i].file
                                  \/ \E i \in DOMAIN g.calls : x = g.calls[i]
BY DEF FilesOf, Range

LEMMA RecordRenumbered ==
  ASSUME NEW F, NEW G, NEW g \in Record(F), NEW remap, OneToOne(remap, FilesOf(g), G)
  PROVE  LET h == WithFiles(g, remap)
         IN /\ h \in Record(G)
            /\ Len(h.lines) = Len(g.lines) /\ Len(h.calls) = Len(g.calls)
            /\ FilesOf(h) = {remap[i] : i \in FilesOf(g)}
<1> DEFINE h == WithFiles(g, remap)
           rows == RowsBy(g.lines, remap)
           calls == CallsBy(g.calls, remap)
<1>1. /\ g \in Plain /\ g.lines \in Seq(Rows) /\ g.calls \in Seq(Nat) /\ NoRepeats(g.lines)
  BY RecordType
<1>2. /\ rows \in Seq(Rows) /\ Len(rows) = Len(g.lines) /\ NoRepeats(rows) /\ DOMAIN rows = DOMAIN g.lines
      /\ \A i \in DOMAIN g.lines : rows[i].file = remap[g.lines[i].file]
  <2>1. OneToOne(remap, {g.lines[i].file : i \in DOMAIN g.lines}, G)
    BY FilesOfRecord DEF OneToOne
  <2> QED BY <1>1, <2>1, RowsRenumbered
<1>3. /\ calls \in Seq(Nat) /\ Len(calls) = Len(g.calls) /\ DOMAIN calls = DOMAIN g.calls
      /\ \A i \in DOMAIN g.calls : calls[i] = remap[g.calls[i]]
  <2>1. \A i \in DOMAIN g.calls : remap[g.calls[i]] \in Nat
    BY FilesOfRecord DEF OneToOne
  <2> QED BY <1>1, <2>1, CallsRenumbered
<1>4. h = [g EXCEPT !.lines = rows, !.calls = calls]
  BY OwnParts
<1> HIDE DEF h, rows, calls
<1>5. h \in Plain /\ h.lines = rows /\ h.calls = calls
  BY <1>1, <1>2, <1>3, <1>4 DEF Plain
<1>6. FilesOf(h) = {remap[i] : i \in FilesOf(g)}
  <2>1. ASSUME NEW x \in FilesOf(h) PROVE \E i \in FilesOf(g) : x = remap[i]
    BY <1>2, <1>3, <1>5, FilesOfRecord
  <2>2. ASSUME NEW i \in FilesOf(g) PROVE remap[i] \in FilesOf(h)
    <3>1. CASE \E j \in DOMAIN g.lines : i = g.lines[j].file
      BY <1>2, <1>5, <3>1, FilesOfRecord
    <3>2. CASE \E j \in DOMAIN g.calls : i = g.calls[j]
      BY <1>3, <1>5, <3>2, FilesOfRecord
    <3> QED BY <3>1, <3>2, FilesOfRecord
  <2> QED BY <2>1, <2>2
<1>7. \A x \in FilesOf(h) : x < G
  BY <1>6 DEF OneToOne
<1> QED
  BY <1>2, <1>3, <1>5, <1>6, <1>7 DEF Record, h

\* Renumbering keeps the ordering key, and refers to the new files.
LEMMA FamilyRenumbered ==
  ASSUME NEW F, NEW G, NEW f \in Family(F), NEW remap, OneToOne(remap, FileReferences(f), G)
  PROVE  LET h == Renumbered(f, remap)
         IN /\ h \in Family(G) /\ OrderingKey(h) = OrderingKey(f)
            /\ FileReferences(h) = {remap[i] : i \in FileReferences(f)}
<1> DEFINE g == [f EXCEPT !.merged = <<>>]
           own == WithFiles(g, remap)
           aliases == AliasesBy(f, remap)
           h == Renumbered(f, remap)
<1>1. /\ f \in [start : Nat, end : Nat, name : Nat \ {0}, lines : Seq(Rows), calls : Seq(Nat),
                sites : SUBSET Nat, merged : Seq(Record(F))]
      /\ g \in Record(F)
  BY DEF Family
<1>2. g.lines = f.lines /\ g.calls = f.calls
  BY <1>1
<1>3. FilesOf(g) = FilesOf(f)
  BY <1>2 DEF FilesOf
<1>4. /\ own \in Record(G) /\ Len(own.lines) = Len(f.lines) /\ Len(own.calls) = Len(f.calls)
      /\ FilesOf(own) = {remap[i] : i \in FilesOf(f)}
  <2>1. OneToOne(remap, FilesOf(g), G)
    BY <1>3, RenumberedParts DEF OneToOne
  <2> HIDE DEF g
  <2>2. /\ own \in Record(G) /\ Len(own.lines) = Len(g.lines) /\ Len(own.calls) = Len(g.calls)
        /\ FilesOf(own) = {remap[i] : i \in FilesOf(g)}
    BY <1>1, <2>1, RecordRenumbered
  <2> QED BY <1>2, <1>3, <2>2
<1>5. h = [WithFiles(f, remap) EXCEPT !.merged = aliases]
  BY RenumberedParts
<1>6. /\ own = [WithFiles(f, remap) EXCEPT !.merged = <<>>]
      /\ WithFiles(f, remap) = [f EXCEPT !.lines = own.lines, !.calls = own.calls]
  BY <1>1, <1>2, OwnParts
<1> HIDE DEF g, own, h
<1>7. ASSUME NEW i \in DOMAIN f.merged
      PROVE  /\ WithFiles(f.merged[i], remap) \in Record(G)
             /\ FilesOf(WithFiles(f.merged[i], remap)) = {remap[x] : x \in FilesOf(f.merged[i])}
  <2>1. f.merged[i] \in Record(F)
    BY FamilyType
  <2>2. OneToOne(remap, FilesOf(f.merged[i]), G)
    BY RenumberedParts DEF OneToOne
  <2> QED BY <2>1, <2>2, RecordRenumbered
<1>8. Len(f.merged) \in Nat /\ DOMAIN f.merged = 1..Len(f.merged)
  BY <1>1, SeqType
<1>9. aliases = [i \in 1..Len(f.merged) |-> WithFiles(f.merged[i], remap)]
  BY <1>8 DEF AliasesBy
<1> HIDE DEF aliases
<1>10. /\ aliases \in Seq(Record(G)) /\ Len(aliases) = Len(f.merged) /\ DOMAIN aliases = DOMAIN f.merged
       /\ \A i \in DOMAIN f.merged : aliases[i] = WithFiles(f.merged[i], remap)
  BY <1>7, <1>8, <1>9
<1>11. own.lines \in Seq(Rows) /\ own.calls \in Seq(Nat)
  BY <1>4, RecordType
<1>12. /\ h = [f EXCEPT !.lines = own.lines, !.calls = own.calls, !.merged = aliases]
       /\ [h EXCEPT !.merged = <<>>] = own
  BY <1>1, <1>5, <1>6
<1>13. h \in Family(G) /\ h.lines = own.lines /\ h.calls = own.calls /\ h.merged = aliases
  BY <1>1, <1>4, <1>10, <1>11, <1>12 DEF Family
<1>14. h.start = f.start /\ h.end = f.end /\ h.name = f.name /\ h.sites = f.sites
  BY <1>1, <1>12
<1>15. OrderingKey(h) = OrderingKey(f)
  BY <1>4, <1>10, <1>13, <1>14 DEF OrderingKey
<1>16. FilesOf(h) = {remap[i] : i \in FilesOf(f)}
  BY <1>4, <1>13 DEF FilesOf
<1>17. ASSUME NEW x \in FileReferences(h) PROVE \E i \in FileReferences(f) : x = remap[i]
  <2>1. CASE x \in FilesOf(h)
    BY <1>16, <2>1, RenumberedParts
  <2>2. CASE \E j \in DOMAIN h.merged : x \in FilesOf(h.merged[j])
    <3>1. PICK j \in DOMAIN f.merged : x \in FilesOf(WithFiles(f.merged[j], remap))
      BY <1>10, <1>13, <2>2
    <3>2. PICK i \in FilesOf(f.merged[j]) : x = remap[i]
      BY <1>7, <3>1
    <3> QED BY <3>2, RenumberedParts
  <2> QED BY <2>1, <2>2, RenumberedParts
<1>18. ASSUME NEW i \in FileReferences(f) PROVE remap[i] \in FileReferences(h)
  <2>1. CASE i \in FilesOf(f)
    BY <1>16, <2>1, RenumberedParts
  <2>2. CASE \E j \in DOMAIN f.merged : i \in FilesOf(f.merged[j])
    <3>1. PICK j \in DOMAIN f.merged : i \in FilesOf(f.merged[j])
      BY <2>2
    <3>2. remap[i] \in FilesOf(h.merged[j]) /\ j \in DOMAIN h.merged
      BY <1>7, <1>10, <1>13, <3>1
    <3> QED BY <3>2, RenumberedParts
  <2> QED BY <2>1, <2>2, RenumberedParts
<1>19. FileReferences(h) = {remap[i] : i \in FileReferences(f)}
  BY <1>17, <1>18
<1> QED
  BY <1>13, <1>15, <1>19 DEF h

LEMMA RowsByTwice ==
  ASSUME NEW rows \in Seq(Rows), NEW a, NEW b, NEW c,
         \A i \in DOMAIN rows : b[a[rows[i].file]] = c[rows[i].file]
  PROVE  RowsBy(RowsBy(rows, a), b) = RowsBy(rows, c)
<1> DEFINE first == RowsBy(rows, a)
<1>1. first = [i \in DOMAIN rows |-> [rows[i] EXCEPT !.file = a[rows[i].file]]]
  BY DEF RowsBy
<1>2. ASSUME NEW i \in DOMAIN rows PROVE rows[i] \in Rows
  BY SeqType
<1> HIDE DEF first
<1>3. ASSUME NEW i \in DOMAIN rows
      PROVE  [first[i] EXCEPT !.file = b[first[i].file]] = [rows[i] EXCEPT !.file = c[rows[i].file]]
  <2> DEFINE r == rows[i]
             s == [r EXCEPT !.file = a[r.file]]
  <2>1. first[i] = s /\ r \in Rows /\ b[a[r.file]] = c[r.file]
    BY <1>1, <1>2
  <2> HIDE DEF r
  <2>2. s.file = a[r.file] /\ \A x : [s EXCEPT !.file = x] = [r EXCEPT !.file = x]
    BY <2>1 DEF Rows
  <2> QED BY <2>1, <2>2 DEF r
<1>4. DOMAIN first = DOMAIN rows
  BY <1>1
<1> QED
  BY <1>3, <1>4 DEF RowsBy, first

LEMMA CallsByTwice ==
  ASSUME NEW calls, NEW a, NEW b, NEW c,
         \A i \in DOMAIN calls : b[a[calls[i]]] = c[calls[i]]
  PROVE  CallsBy(CallsBy(calls, a), b) = CallsBy(calls, c)
BY DEF CallsBy

Shaped(g, M) ==
  g \in [start : Nat, end : Nat, name : Nat \ {0}, lines : Seq(Rows), calls : Seq(Nat),
         sites : SUBSET Nat, merged : M]

LEMMA ShapesOf ==
  ASSUME NEW F, NEW f \in Family(F)
  PROVE  /\ Shaped(f, Seq(Record(F)))
         /\ \A i \in DOMAIN f.merged : Shaped(f.merged[i], {<<>>})
<1>1. ASSUME NEW i \in DOMAIN f.merged PROVE Shaped(f.merged[i], {<<>>})
  BY FamilyType DEF Record, Plain, Shaped
<1> QED
  BY <1>1, FamilyType DEF Shaped

LEMMA WithFilesTwice ==
  ASSUME NEW M, NEW g, Shaped(g, M), NEW a, NEW b, NEW c, \A i \in FilesOf(g) : b[a[i]] = c[i]
  PROVE  /\ WithFiles(WithFiles(g, a), b) = WithFiles(g, c)
         /\ \A m : WithFiles([WithFiles(g, a) EXCEPT !.merged = m], b)
                    = [WithFiles(g, c) EXCEPT !.merged = m]
<1> SUFFICES ASSUME NEW m
             PROVE  /\ WithFiles(WithFiles(g, a), b) = WithFiles(g, c)
                    /\ WithFiles([WithFiles(g, a) EXCEPT !.merged = m], b)
                         = [WithFiles(g, c) EXCEPT !.merged = m]
  OBVIOUS
<1>1. RowsBy(RowsBy(g.lines, a), b) = RowsBy(g.lines, c)
  <2>1. g.lines \in Seq(Rows) /\ \A i \in DOMAIN g.lines : b[a[g.lines[i].file]] = c[g.lines[i].file]
    BY FilesOfRecord DEF Shaped
  <2> QED BY <2>1, RowsByTwice
<1>2. CallsBy(CallsBy(g.calls, a), b) = CallsBy(g.calls, c)
  BY FilesOfRecord, CallsByTwice
<1>3. /\ WithFiles(g, a) = [g EXCEPT !.lines = RowsBy(g.lines, a), !.calls = CallsBy(g.calls, a)]
      /\ WithFiles(g, c) = [g EXCEPT !.lines = RowsBy(g.lines, c), !.calls = CallsBy(g.calls, c)]
  BY OwnParts
<1>4. ASSUME NEW h, h.lines = RowsBy(g.lines, a), h.calls = CallsBy(g.calls, a)
      PROVE  WithFiles(h, b) = [h EXCEPT !.lines = RowsBy(g.lines, c), !.calls = CallsBy(g.calls, c)]
  BY <1>1, <1>2, <1>4, OwnParts
<1> DEFINE h1 == [WithFiles(g, a) EXCEPT !.merged = m]
           h2 == WithFiles(g, a)
<1>5. h1.lines = RowsBy(g.lines, a) /\ h1.calls = CallsBy(g.calls, a)
  BY <1>3
<1>6. h2.lines = RowsBy(g.lines, a) /\ h2.calls = CallsBy(g.calls, a)
  BY <1>3
<1>7. WithFiles(h1, b) = [h1 EXCEPT !.lines = RowsBy(g.lines, c), !.calls = CallsBy(g.calls, c)]
  <2> HIDE DEF h1
  <2> QED BY <1>4, <1>5
<1>8. WithFiles(h2, b) = [h2 EXCEPT !.lines = RowsBy(g.lines, c), !.calls = CallsBy(g.calls, c)]
  <2> HIDE DEF h2
  <2> QED BY <1>4, <1>6
<1>9. /\ h1 = [[g EXCEPT !.lines = RowsBy(g.lines, a), !.calls = CallsBy(g.calls, a)] EXCEPT !.merged = m]
      /\ h2 = [g EXCEPT !.lines = RowsBy(g.lines, a), !.calls = CallsBy(g.calls, a)]
  BY <1>3
<1>10. \A k, l, x, y :
         /\ [[[g EXCEPT !.lines = k, !.calls = l] EXCEPT !.merged = m] EXCEPT !.lines = x, !.calls = y]
              = [[g EXCEPT !.lines = x, !.calls = y] EXCEPT !.merged = m]
         /\ [[g EXCEPT !.lines = k, !.calls = l] EXCEPT !.lines = x, !.calls = y]
              = [g EXCEPT !.lines = x, !.calls = y]
  <2> TAKE k, l, x, y
  <2>1. [[[g EXCEPT !.lines = k, !.calls = l] EXCEPT !.merged = m] EXCEPT !.lines = x, !.calls = y]
          = [[g EXCEPT !.lines = x, !.calls = y] EXCEPT !.merged = m]
    BY ZenonT(60) DEF Shaped
  <2>2. [[g EXCEPT !.lines = k, !.calls = l] EXCEPT !.lines = x, !.calls = y]
          = [g EXCEPT !.lines = x, !.calls = y]
    BY ZenonT(60) DEF Shaped
  <2> QED BY <2>1, <2>2
<1>11. WithFiles(h1, b) = [WithFiles(g, c) EXCEPT !.merged = m]
  <2> HIDE DEF h1, h2
  <2> QED BY <1>3, <1>7, <1>9, <1>10
<1>12. WithFiles(h2, b) = WithFiles(g, c)
  <2> HIDE DEF h1, h2
  <2> QED BY <1>3, <1>8, <1>9, <1>10
<1> QED
  BY <1>11, <1>12

\* Renumbering twice is renumbering once, for the files that are named.
LEMMA RenumberedTwice ==
  ASSUME NEW F, NEW f \in Family(F), NEW a, NEW b, NEW c,
         \A i \in FileReferences(f) : b[a[i]] = c[i]
  PROVE  Renumbered(Renumbered(f, a), b) = Renumbered(f, c)
<1> DEFINE h == Renumbered(f, a)
           M == Seq(Record(F))
<1>1. Shaped(f, M)
  BY ShapesOf
<1>2. h = [WithFiles(f, a) EXCEPT !.merged = AliasesBy(f, a)]
  BY RenumberedParts
<1>3. WithFiles(h, b) = [WithFiles(f, c) EXCEPT !.merged = AliasesBy(f, a)]
  <2>1. \A i \in FilesOf(f) : b[a[i]] = c[i]
    BY RenumberedParts
  <2> HIDE DEF M, h
  <2> QED BY <1>1, <1>2, <2>1, WithFilesTwice
<1>4. h.merged = AliasesBy(f, a)
  BY <1>1, <1>2, OwnParts DEF Shaped
<1> HIDE DEF h, M
<1>5. AliasesBy(h, b) = AliasesBy(f, c)
  <2>1. ASSUME NEW i \in DOMAIN f.merged PROVE WithFiles(h.merged[i], b) = WithFiles(f.merged[i], c)
    <3>2. Shaped(f.merged[i], {<<>>})
      BY ShapesOf
    <3>3. \A x \in FilesOf(f.merged[i]) : b[a[x]] = c[x]
      BY RenumberedParts
    <3>4. h.merged[i] = WithFiles(f.merged[i], a)
      BY <1>4 DEF AliasesBy
    <3> DEFINE g == f.merged[i]
    <3> HIDE DEF g
    <3>5. Shaped(g, {<<>>}) /\ \A x \in FilesOf(g) : b[a[x]] = c[x]
      BY <3>2, <3>3 DEF g
    <3>6. WithFiles(WithFiles(g, a), b) = WithFiles(g, c)
      BY <3>5, WithFilesTwice
    <3> QED BY <3>4, <3>6 DEF g
  <2>2. DOMAIN h.merged = DOMAIN f.merged
    BY <1>4 DEF AliasesBy
  <2> QED BY <2>1, <2>2 DEF AliasesBy
<1>6. Renumbered(h, b) = [WithFiles(h, b) EXCEPT !.merged = AliasesBy(h, b)]
  BY RenumberedParts
<1>7. Renumbered(f, c) = [WithFiles(f, c) EXCEPT !.merged = AliasesBy(f, c)]
  BY RenumberedParts
<1>8. \A x, y : [[WithFiles(f, c) EXCEPT !.merged = x] EXCEPT !.merged = y] = [WithFiles(f, c) EXCEPT !.merged = y]
  <2>1. WithFiles(f, c) = [f EXCEPT !.lines = RowsBy(f.lines, c), !.calls = CallsBy(f.calls, c)]
    BY OwnParts
  <2> QED BY <1>1, <2>1 DEF Shaped
<1> QED
  BY <1>3, <1>5, <1>6, <1>7, <1>8 DEF h

LEMMA WithFilesSame ==
  ASSUME NEW M, NEW g, Shaped(g, M),
         NEW a, \A i \in FilesOf(g) : a[i] = i
  PROVE  WithFiles(g, a) = g
<1>0. g.lines \in Seq(Rows) /\ g.calls \in Seq(Nat)
  BY DEF Shaped
<1>1. RowsBy(g.lines, a) = g.lines
  <2>1. ASSUME NEW i \in DOMAIN g.lines PROVE [g.lines[i] EXCEPT !.file = a[g.lines[i].file]] = g.lines[i]
    <3>1. g.lines[i] \in Rows
      BY <1>0, SeqType
    <3>2. a[g.lines[i].file] = g.lines[i].file
      BY FilesOfRecord
    <3> QED BY <3>1, <3>2 DEF Rows
  <2>2. g.lines = [i \in DOMAIN g.lines |-> g.lines[i]]
    BY <1>0
  <2> QED BY <2>1, <2>2 DEF RowsBy
<1>2. CallsBy(g.calls, a) = g.calls
  <2>1. g.calls = [i \in DOMAIN g.calls |-> g.calls[i]]
    BY <1>0
  <2> QED BY <2>1, FilesOfRecord DEF CallsBy
<1>3. WithFiles(g, a) = [g EXCEPT !.lines = g.lines, !.calls = g.calls]
  BY <1>1, <1>2, OwnParts
<1> QED
  BY <1>3 DEF Shaped

\* What keeps the numbers of the files that are named changes nothing.
LEMMA RenumberedSame ==
  ASSUME NEW F, NEW f \in Family(F), NEW a, \A i \in FileReferences(f) : a[i] = i
  PROVE  Renumbered(f, a) = f
<1> DEFINE M == Seq(Record(F))
<1>1. Shaped(f, M)
  BY ShapesOf
<1>2. f.merged = [i \in DOMAIN f.merged |-> f.merged[i]]
  BY <1>1 DEF Shaped
<1> HIDE DEF M
<1>3. WithFiles(f, a) = f
  <2>1. \A i \in FilesOf(f) : a[i] = i
    BY RenumberedParts
  <2> QED BY <1>1, <2>1, WithFilesSame
<1>4. AliasesBy(f, a) = f.merged
  <2>1. ASSUME NEW i \in DOMAIN f.merged PROVE WithFiles(f.merged[i], a) = f.merged[i]
    <3>2. Shaped(f.merged[i], {<<>>})
      BY ShapesOf
    <3>3. \A x \in FilesOf(f.merged[i]) : a[x] = x
      BY RenumberedParts
    <3> QED BY <3>2, <3>3, WithFilesSame
  <2> QED BY <1>2, <2>1 DEF AliasesBy
<1>5. Renumbered(f, a) = [f EXCEPT !.merged = f.merged]
  BY <1>3, <1>4, RenumberedParts
<1> QED
  BY <1>1, <1>5 DEF Shaped

AllRenumbered(fs, numbers) == [i \in DOMAIN fs |-> Renumbered(fs[i], numbers)]

References(fs) == UNION {FileReferences(f) : f \in Range(fs)}
RefersBy(new, fs, remap) ==
  \A i \in DOMAIN fs : FileReferences(new[i]) = {remap[x] : x \in FileReferences(fs[i])}

\* A table renumbered is a table.
LEMMA TableRenumbered ==
  ASSUME NEW F, NEW G, NEW fs, Table(fs, F), NEW remap, OneToOne(remap, References(fs), G)
  PROVE  /\ Table(AllRenumbered(fs, remap), G) /\ DOMAIN AllRenumbered(fs, remap) = DOMAIN fs
         /\ RefersBy(AllRenumbered(fs, remap), fs, remap)
<1> DEFINE new == AllRenumbered(fs, remap)
           n == Len(fs)
<1>1. n \in Nat /\ DOMAIN fs = 1..n /\ \A i \in 1..n : fs[i] \in Family(F)
  BY TableType
<1>2. ASSUME NEW i \in 1..n
      PROVE  /\ new[i] \in Family(G) /\ OrderingKey(new[i]) = OrderingKey(fs[i])
             /\ FileReferences(new[i]) = {remap[x] : x \in FileReferences(fs[i])}
  <2>1. fs[i] \in Range(fs)
    BY <1>1 DEF Range
  <2>2. OneToOne(remap, FileReferences(fs[i]), G)
    BY <2>1 DEF OneToOne, References
  <2>3. new[i] = Renumbered(fs[i], remap)
    BY <1>1 DEF AllRenumbered
  <2> HIDE DEF new
  <2> QED BY <1>1, <2>2, <2>3, FamilyRenumbered
<1>3. new = [i \in 1..n |-> new[i]]
  BY <1>1 DEF AllRenumbered
<1> HIDE DEF new, n
<1>4. new \in Seq(Family(G)) /\ DOMAIN new = 1..n
  BY <1>1, <1>2, <1>3
<1>5. Table(new, G)
  BY <1>1, <1>2, <1>4 DEF Table
<1> QED
  BY <1>1, <1>2, <1>4, <1>5 DEF new, RefersBy

-----------------------------------------------------------------------------
(* The files that are used. *)

Behind(list, used, table, i) == IF i \in used THEN Interned(table, list[i + 1]) ELSE table

LEMMA UsedSteps ==
  ASSUME NEW list, NEW used, Len(list) - 1 \in Nat
  PROVE  \E table :
           /\ table[0] = <<EmptyEntry>>
           /\ \A i \in 1..Len(list) - 1 : table[i] = Behind(list, used, table[i - 1], i)
           /\ UsedFiles(list, used) = table[Len(list) - 1]
<1> DEFINE last == Len(list) - 1
           After(table, i) == Behind(list, used, table, i)
           Next0(g, i) == IF i = 0 THEN <<EmptyEntry>> ELSE After(g[i - 1], i)
           Upto(m) == \E g : g = [i \in 0..m |-> Next0(g, i)]
           Bad == {m \in 0..last : ~Upto(m)}
<1>1. last \in Nat
  OBVIOUS
<1> HIDE DEF After, last
<1>2. ASSUME NEW m \in Bad, \A n \in Bad : m <= n PROVE FALSE
  <2>1. m \in 0..last /\ m \in Nat
    BY <1>1
  <2>2. CASE m = 0
    <3> DEFINE g == [n \in 0..0 |-> <<EmptyEntry>>]
    <3>1. g = [n \in 0..0 |-> Next0(g, n)]
      OBVIOUS
    <3> HIDE DEF Next0
    <3>2. Upto(0)
      BY <3>1
    <3> QED BY <2>2, <3>2
  <2>3. CASE m # 0
    <3>1. m - 1 \in 0..last /\ m - 1 \notin Bad
      <4>1. m - 1 \in 0..last /\ ~(m <= m - 1)
        BY <1>1, <2>1, <2>3
      <4> HIDE DEF Bad
      <4> QED BY <1>2, <4>1
    <3>2. PICK g : g = [n \in 0..m - 1 |-> Next0(g, n)]
      <4>1. Upto(m - 1)
        <5> HIDE DEF Upto
        <5> QED BY <3>1
      <4> QED BY <4>1
    <3> DEFINE h == [n \in 0..m |-> IF n < m THEN g[n] ELSE After(g[m - 1], m)]
    <3>3. ASSUME NEW n \in 0..m PROVE h[n] = Next0(h, n)
      <4>1. CASE n = m
        <5>1. m - 1 \in 0..m /\ m - 1 < m
          BY <2>1, <2>3
        <5>2. h[m - 1] = g[m - 1]
          BY <5>1
        <5>3. h[m] = After(g[m - 1], m)
          BY <2>1
        <5> HIDE DEF h
        <5> QED BY <2>3, <4>1, <5>2, <5>3
      <4>2. CASE n # m
        <5>1. n \in 0..m - 1 /\ n < m /\ n \in Nat
          BY <2>1, <4>2
        <5>2. h[n] = g[n]
          BY <5>1
        <5>3. g[n] = Next0(g, n)
          <6> HIDE DEF Next0
          <6> QED BY <3>2, <5>1, Zenon
        <5>4. n # 0 => n - 1 \in 0..m /\ n - 1 < m
          BY <2>1, <5>1
        <5>5. n # 0 => h[n - 1] = g[n - 1]
          BY <5>4
        <5> HIDE DEF h
        <5> QED BY <5>2, <5>3, <5>5
      <4> QED BY <4>1, <4>2
    <3>4. h = [n \in 0..m |-> h[n]]
      OBVIOUS
    <3> HIDE DEF h
    <3>5. h = [n \in 0..m |-> Next0(h, n)]
      <4> HIDE DEF Next0
      <4> QED BY <3>3, <3>4, Zenon
    <3> HIDE DEF Next0
    <3>6. Upto(m)
      BY <3>5
    <3> QED BY <3>6
  <2> QED BY <2>2, <2>3
<1>3. Bad = {}
  <2>1. Bad \in SUBSET Nat
    BY <1>1
  <2> HIDE DEF Bad
  <2> QED BY <1>2, <2>1, LeastOf
<1> DEFINE table == CHOOSE g : g = [n \in 0..last |-> Next0(g, n)]
<1>4. table = [n \in 0..last |-> Next0(table, n)]
  <2>1. last \in 0..last
    BY <1>1
  <2> HIDE DEF Next0
  <2>2. Upto(last)
    BY <1>3, <2>1
  <2> QED BY <2>2
<1>5. UsedFiles(list, used) = table[last]
  BY DEF UsedFiles, After, Behind, last
<1> HIDE DEF table
<1>6. table[0] = <<EmptyEntry>> /\ \A i \in 1..last : table[i] = After(table[i - 1], i)
  <2>1. ASSUME NEW n \in 0..last PROVE table[n] = Next0(table, n)
    <3> HIDE DEF Next0
    <3> QED BY <1>4, Zenon
  <2>2. 0 \in 0..last /\ \A n \in 1..last : n \in 0..last /\ n # 0
    BY <1>1
  <2> QED BY <2>1, <2>2
<1> QED
  BY <1>5, <1>6 DEF After, last

\* The file table of a builder: every file once, the reserved one first.
FileList(list) ==
  /\ list \in Seq(Range(list))
  /\ Len(list) > 0 /\ list[1] = EmptyEntry
  /\ \A i, j \in 1..Len(list) : list[i] = list[j] => i = j

\* What was interned of the first files.
Picked(T, list, used, n) ==
  /\ T \in Seq(Range(list)) /\ Len(T) > 0 /\ T[1] = EmptyEntry
  /\ \A a, b \in 1..Len(T) : T[a] = T[b] => a = b
  /\ \A k \in 2..Len(T) : \E i \in used \cap (1..n) : T[k] = list[i + 1]
  /\ \A i \in used \cap (1..n) : \E k \in 2..Len(T) : T[k] = list[i + 1]
  /\ 1..n \subseteq used => Len(T) = n + 1 /\ \A k \in 1..n + 1 : T[k] = list[k]

LEMMA PickNext ==
  ASSUME NEW list, FileList(list), NEW used, NEW n \in 1..Len(list) - 1, NEW T, Picked(T, list, used, n - 1)
  PROVE  Picked(Behind(list, used, T, n), list, used, n)
<1> DEFINE X == Range(list)
           L == Len(T)
           e == list[n + 1]
<1>1. /\ list \in Seq(X) /\ Len(list) \in Nat /\ DOMAIN list = 1..Len(list) /\ list[1] = EmptyEntry
      /\ \A i, j \in 1..Len(list) : list[i] = list[j] => i = j
      /\ \A i \in 1..Len(list) : list[i] \in X
  BY SeqType DEF FileList
<1>2. /\ T \in Seq(X) /\ L \in Nat /\ L > 0 /\ T[1] = EmptyEntry /\ DOMAIN T = 1..L
      /\ \A a, b \in 1..L : T[a] = T[b] => a = b
  BY SeqType DEF Picked
<1>3. /\ \A k \in 2..L : \E i \in used \cap (1..n - 1) : T[k] = list[i + 1]
      /\ \A i \in used \cap (1..n - 1) : \E k \in 2..L : T[k] = list[i + 1]
      /\ 1..n - 1 \subseteq used => L = n /\ \A k \in 1..n : T[k] = list[k]
  <2>1. n - 1 + 1 = n
    BY <1>1
  <2> QED BY <2>1 DEF Picked
<1>4. n \in Nat /\ n + 1 \in 1..Len(list) /\ n + 1 # 1 /\ 1 \in 1..Len(list)
  BY <1>1
<1> HIDE DEF X, L
<1>5. CASE n \notin used
  <2>1. used \cap (1..n) = used \cap (1..n - 1)
    BY <1>4, <1>5
  <2>2. ~(1..n \subseteq used)
    BY <1>4, <1>5
  <2>3. Behind(list, used, T, n) = T
    BY <1>5 DEF Behind
  <2>4. /\ \A k \in 2..L : \E i \in used \cap (1..n) : T[k] = list[i + 1]
        /\ \A i \in used \cap (1..n) : \E k \in 2..L : T[k] = list[i + 1]
    BY <1>3, <2>1
  <2>5. Picked(T, list, used, n)
    BY <1>2, <2>2, <2>4 DEF Picked, X, L
  <2> QED BY <2>3, <2>5
<1>6. CASE n \in used
  <2>1. ASSUME NEW k \in 1..L PROVE T[k] # e
    <3>1. CASE k = 1
      BY <1>1, <1>2, <1>4, <3>1
    <3>2. CASE k # 1
      <4>1. k \in 2..L
        BY <1>2, <3>2
      <4>2. PICK i \in 1..n - 1 : T[k] = list[i + 1]
        BY <1>3, <4>1
      <4>3. i + 1 \in 1..Len(list) /\ i + 1 # n + 1
        BY <1>1, <1>4
      <4> QED BY <1>1, <1>4, <4>2, <4>3
    <3> QED BY <3>1, <3>2
  <2>2. Interned(T, e) = Append(T, e)
    BY <1>2, <2>1 DEF Interned, Range
  <2> DEFINE U == Append(T, e)
  <2>3. e \in X
    BY <1>1, <1>4
  <2> HIDE DEF e
  <2>4. U \in Seq(X) /\ Len(U) = L + 1 /\ U[L + 1] = e /\ \A k \in 1..L : U[k] = T[k]
    BY <1>2, <2>3, AppendAt DEF L
  <2> HIDE DEF U
  <2>5. U[1] = EmptyEntry /\ Len(U) > 0
    BY <1>2, <2>4
  <2>6. ASSUME NEW a \in 1..L + 1, NEW b \in 1..L + 1, U[a] = U[b] PROVE a = b
    <3>1. (a \in 1..L \/ a = L + 1) /\ (b \in 1..L \/ b = L + 1)
      BY <1>2
    <3> QED BY <1>2, <2>1, <2>4, <2>6, <3>1
  <2>7. ASSUME NEW k \in 2..L + 1 PROVE \E i \in used \cap (1..n) : U[k] = list[i + 1]
    <3>1. CASE k = L + 1
      <4>1. n \in 1..n
        BY <1>4
      <4> QED BY <1>6, <2>4, <3>1, <4>1 DEF e
    <3>2. CASE k # L + 1
      <4>1. k \in 2..L /\ k \in 1..L
        BY <1>2, <3>2
      <4>2. PICK i \in used \cap (1..n - 1) : T[k] = list[i + 1]
        BY <1>3, <4>1
      <4>3. i \in 1..n
        BY <1>4
      <4> QED BY <2>4, <4>1, <4>2, <4>3
    <3> QED BY <3>1, <3>2
  <2>8. ASSUME NEW i \in used \cap (1..n) PROVE \E k \in 2..L + 1 : U[k] = list[i + 1]
    <3>1. CASE i = n
      <4>1. L + 1 \in 2..L + 1
        BY <1>2
      <4> QED BY <2>4, <3>1, <4>1 DEF e
    <3>2. CASE i # n
      <4>1. i \in used \cap (1..n - 1)
        BY <1>4, <3>2
      <4>2. PICK k \in 2..L : T[k] = list[i + 1]
        BY <1>3, <4>1
      <4>3. k \in 2..L + 1 /\ k \in 1..L
        BY <1>2
      <4> QED BY <2>4, <4>2, <4>3
    <3> QED BY <3>1, <3>2
  <2>9. ASSUME 1..n \subseteq used PROVE L + 1 = n + 1 /\ \A k \in 1..n + 1 : U[k] = list[k]
    <3>1. 1..n - 1 \subseteq used
      BY <1>4, <2>9
    <3>2. L = n /\ \A k \in 1..n : T[k] = list[k]
      BY <1>3, <3>1
    <3>3. ASSUME NEW k \in 1..n + 1 PROVE U[k] = list[k]
      <4>1. k \in 1..n \/ k = n + 1
        BY <1>4
      <4> QED BY <2>4, <3>2, <4>1 DEF e
    <3> QED BY <3>2, <3>3
  <2>10. Picked(U, list, used, n)
    BY <2>4, <2>5, <2>6, <2>7, <2>8, <2>9 DEF Picked, X
  <2> QED BY <1>6, <2>2, <2>10 DEF Behind, U, e
<1> QED
  BY <1>5, <1>6

LEMMA UsedFilesOf ==
  ASSUME NEW list, FileList(list), NEW used
  PROVE  Picked(UsedFiles(list, used), list, used, Len(list) - 1)
<1> DEFINE last == Len(list) - 1
<1>1. /\ Len(list) \in Nat /\ last \in Nat /\ Len(list) - 1 = last
      /\ list[1] = EmptyEntry /\ EmptyEntry \in Range(list)
  <2>1. Len(list) \in Nat /\ DOMAIN list = 1..Len(list) /\ Len(list) > 0 /\ list[1] = EmptyEntry
    BY SeqType DEF FileList
  <2>2. 1 \in DOMAIN list
    BY <2>1
  <2> QED BY <2>1, <2>2 DEF Range
<1>2. PICK table :
        /\ table[0] = <<EmptyEntry>>
        /\ \A i \in 1..last : table[i] = Behind(list, used, table[i - 1], i)
        /\ UsedFiles(list, used) = table[last]
  BY <1>1, UsedSteps
<1> DEFINE Bad == {n \in 0..last : ~Picked(table[n], list, used, n)}
<1>3. ASSUME NEW n \in Bad, \A m \in Bad : n <= m PROVE FALSE
  <2>1. n \in 0..last /\ ~Picked(table[n], list, used, n)
    OBVIOUS
  <2>2. CASE n = 0
    <3> DEFINE T == <<EmptyEntry>>
    <3>1. /\ T \in Seq(Range(list)) /\ Len(T) = 1 /\ T[1] = EmptyEntry
      BY <1>1
    <3>2. /\ \A k \in 2..1 : FALSE
          /\ \A i \in used \cap (1..0) : FALSE
          /\ \A k \in 1..0 + 1 : k = 1
          /\ \A k \in 1..1 : k = 1
      OBVIOUS
    <3> HIDE DEF T
    <3>3. Picked(T, list, used, 0)
      BY <1>1, <3>1, <3>2 DEF Picked
    <3> QED BY <1>2, <2>1, <2>2, <3>3 DEF T
  <2>3. CASE n # 0
    <3>1. n \in 1..last /\ n - 1 \in 0..last /\ ~(n <= n - 1)
      BY <1>1, <2>1, <2>3
    <3>2. n - 1 \notin Bad
      <4> HIDE DEF Bad
      <4> QED BY <1>3, <3>1
    <3>3. Picked(table[n - 1], list, used, n - 1)
      BY <3>1, <3>2
    <3>4. Picked(Behind(list, used, table[n - 1], n), list, used, n)
      BY <1>1, <3>1, <3>3, PickNext
    <3>5. table[n] = Behind(list, used, table[n - 1], n)
      BY <1>2, <3>1
    <3> QED BY <2>1, <3>4, <3>5
  <2> QED BY <2>2, <2>3
<1>4. Bad = {}
  <2>1. Bad \in SUBSET Nat
    BY <1>1
  <2> HIDE DEF Bad
  <2> QED BY <1>3, <2>1, LeastOf
<1>5. last \in 0..last
  BY <1>1
<1> QED
  BY <1>1, <1>2, <1>4, <1>5

LEMMA FoundAt ==
  ASSUME NEW T, Len(T) \in Nat, NEW e, NEW k \in 1..Len(T), T[k] = e,
         \A a, b \in 1..Len(T) : T[a] = T[b] => a = b
  PROVE  SelectInSeq(T, LAMBDA x : x = e) = k
<1> DEFINE I == {i \in 1..Len(T) : T[i] = e}
<1>1. I = {k}
  OBVIOUS
<1>2. SelectInSeq(T, LAMBDA x : x = e) = IF I # {} THEN Min(I) ELSE 0
  BY DEF SelectInSeq
<1> HIDE DEF I
<1>3. I \in SUBSET Nat /\ I # {}
  BY <1>1
<1>4. Min(I) = k
  BY <1>1, <1>3, MinOf
<1> QED
  BY <1>2, <1>3, <1>4

\* The files that are used are numbered one to one, and keep their meaning; the
\* new table holds no other, but the reserved one.
LEMMA Numbered ==
  ASSUME NEW list, FileList(list), NEW used \in SUBSET (1..Len(list) - 1)
  PROVE  LET T == UsedFiles(list, used)
             numbers == NewNumbers(list, used)
         IN /\ FileList(T)
            /\ OneToOne(numbers, used \cup {0}, Len(T))
            /\ numbers[0] = 0
            /\ \A i \in used \cup {0} : T[numbers[i] + 1] = list[i + 1]
            /\ \A k \in 1..Len(T) - 1 : \E i \in used : numbers[i] = k
            /\ used = 1..Len(list) - 1 =>
                 T = list /\ \A i \in 0..Len(list) - 1 : numbers[i] = i
<1> DEFINE T == UsedFiles(list, used)
           numbers == NewNumbers(list, used)
           last == Len(list) - 1
           L == Len(T)
<1>1. /\ Len(list) \in Nat /\ last \in Nat /\ Len(list) = last + 1 /\ list[1] = EmptyEntry
      /\ list \in Seq(Range(list)) /\ DOMAIN list = 1..Len(list)
      /\ \A i, j \in 1..Len(list) : list[i] = list[j] => i = j
  <2>1. /\ Len(list) \in Nat /\ Len(list) > 0 /\ list[1] = EmptyEntry
        /\ list \in Seq(Range(list)) /\ DOMAIN list = 1..Len(list)
        /\ \A i, j \in 1..Len(list) : list[i] = list[j] => i = j
    BY SeqType DEF FileList
  <2> QED BY <2>1
<1>2. /\ T \in Seq(Range(list)) /\ L > 0 /\ T[1] = EmptyEntry
      /\ \A a, b \in 1..L : T[a] = T[b] => a = b
      /\ \A k \in 2..L : \E i \in used \cap (1..last) : T[k] = list[i + 1]
      /\ \A i \in used \cap (1..last) : \E k \in 2..L : T[k] = list[i + 1]
      /\ 1..last \subseteq used => L = last + 1 /\ \A k \in 1..last + 1 : T[k] = list[k]
  <2>1. Picked(T, list, used, last)
    BY UsedFilesOf
  <2> HIDE DEF T, last
  <2> QED BY <2>1 DEF Picked
<1>3. \A i \in used : i \in 1..last /\ i \in Nat /\ i # 0 /\ i \in 0..last /\ i + 1 \in 1..Len(list)
  BY <1>1
<1>4. numbers = [i \in 0..last |-> IF i \in used THEN SelectInSeq(T, LAMBDA e : e = list[i + 1]) - 1 ELSE 0]
  BY DEF NewNumbers
<1>5. L \in Nat /\ DOMAIN T = 1..L /\ 0 \in 0..last /\ T = [k \in 1..L |-> T[k]]
      /\ list = [k \in 1..Len(list) |-> list[k]]
  <2> HIDE DEF T, last
  <2>1. L \in Nat /\ DOMAIN T = 1..L
    BY <1>2, SeqType
  <2> HIDE DEF L
  <2>2. 0 \in 0..last
    BY <1>1
  <2>3. T = [k \in 1..L |-> T[k]]
    BY <1>2, <2>1
  <2>4. list = [k \in 1..Len(list) |-> list[k]]
    BY <1>1
  <2> QED BY <2>1, <2>2, <2>3, <2>4
<1> HIDE DEF T, numbers, L, last
<1>6. ASSUME NEW i \in used
      PROVE  \E k \in 2..L : numbers[i] = k - 1 /\ T[k] = list[i + 1]
  <2>1. PICK k \in 2..L : T[k] = list[i + 1]
    BY <1>2, <1>3
  <2>2. k \in 1..L
    BY <1>5
  <2>3. SelectInSeq(T, LAMBDA e : e = list[i + 1]) = k
    BY <1>2, <1>5, <2>1, <2>2, FoundAt, ZenonT(60) DEF L
  <2>4. numbers[i] = SelectInSeq(T, LAMBDA e : e = list[i + 1]) - 1
    BY <1>3, <1>4
  <2> QED BY <2>1, <2>3, <2>4
<1>7. numbers[0] = 0
  BY <1>3, <1>4, <1>5
<1>8. ASSUME NEW i \in used \cup {0}
      PROVE  numbers[i] \in Nat /\ numbers[i] < L /\ T[numbers[i] + 1] = list[i + 1]
  <2>1. CASE i = 0
    BY <1>1, <1>2, <1>7, <2>1
  <2>2. CASE i \in used
    BY <1>5, <1>6, <2>2
  <2> QED BY <2>1, <2>2
<1>9. ASSUME NEW i \in used \cup {0}, NEW j \in used \cup {0}, numbers[i] = numbers[j] PROVE i = j
  <2>1. list[i + 1] = list[j + 1]
    BY <1>8, <1>9
  <2>2. i \in Nat /\ j \in Nat /\ i + 1 \in 1..Len(list) /\ j + 1 \in 1..Len(list)
    BY <1>1, <1>3
  <2> QED BY <1>1, <2>1, <2>2
<1>10. ASSUME NEW k \in 1..L - 1 PROVE \E i \in used : numbers[i] = k
  <2>1. k + 1 \in 2..L /\ k \in Nat
    BY <1>5
  <2>2. PICK i \in used : T[k + 1] = list[i + 1]
    BY <1>2, <2>1
  <2>3. PICK m \in 2..L : numbers[i] = m - 1 /\ T[m] = list[i + 1]
    BY <1>6
  <2>4. m = k + 1
    BY <1>2, <1>5, <2>1, <2>2, <2>3
  <2> QED BY <2>1, <2>3, <2>4
<1>11. FileList(T)
  <2>1. T \in Seq(Range(T))
    <3>1. \A k \in 1..L : T[k] \in Range(T)
      BY <1>5 DEF Range
    <3> QED BY <1>5, <3>1
  <2> QED BY <1>2, <2>1 DEF FileList, L
<1>12. ASSUME used = 1..last PROVE T = list /\ \A i \in 0..last : numbers[i] = i
  <2>1. L = Len(list) /\ \A k \in 1..L : T[k] = list[k]
    BY <1>1, <1>2, <1>12
  <2>2. T = list
    BY <1>5, <2>1
  <2>3. ASSUME NEW i \in 0..last PROVE numbers[i] = i
    <3>1. CASE i = 0
      BY <1>7, <3>1
    <3>2. CASE i # 0
      <4>1. i \in used /\ i + 1 \in 1..L /\ i \in Nat
        BY <1>1, <1>12, <2>1, <3>2
      <4>2. PICK m \in 2..L : numbers[i] = m - 1 /\ T[m] = list[i + 1]
        BY <1>6, <4>1
      <4>3. m = i + 1
        BY <1>2, <1>5, <2>2, <4>1, <4>2
      <4> QED BY <4>1, <4>2, <4>3
    <3> QED BY <3>1, <3>2
  <2> QED BY <2>2, <2>3
<1>13. OneToOne(numbers, used \cup {0}, L)
  BY <1>8, <1>9 DEF OneToOne
<1>14. /\ \A i \in used \cup {0} : T[numbers[i] + 1] = list[i + 1]
       /\ \A k \in 1..L - 1 : \E i \in used : numbers[i] = k
  BY <1>8, <1>10
<1> QED
  BY <1>7, <1>11, <1>12, <1>13, <1>14 DEF T, numbers, L, last

-----------------------------------------------------------------------------
(* What is rebuilt. *)

Used(fs) == References(fs) \ {0}
EntryOf(list) == [i \in Nat |-> IF i < Len(list) THEN list[i + 1] ELSE Absent]

\* An image whose file table is a builder's and whose functions are finalized.
Sane(im) == FileList(im.files) /\ Table(im.functions, Len(im.files))

LEMMA WindowOf ==
  ASSUME NEW X, NEW s \in Seq(X), NEW lo \in 1..Len(s), NEW hi \in 1..Len(s), lo <= hi
  PROVE  LET w == SubSeq(s, lo, hi)
         IN /\ w \in Seq(X) /\ Len(w) = hi - lo + 1 /\ DOMAIN w = 1..hi - lo + 1
            /\ \A i \in 1..hi - lo + 1 : w[i] = s[lo + i - 1] /\ lo + i - 1 \in 1..Len(s)
<1>1. Len(s) \in Nat /\ \A i \in 1..Len(s) : s[i] \in X
  BY SeqType
<1>2. lo \in Int /\ hi \in Int /\ \A i \in lo..hi : i \in 1..Len(s) /\ s[i] \in X
  BY <1>1
<1>3. /\ SubSeq(s, lo, hi) \in Seq(X)
      /\ Len(SubSeq(s, lo, hi)) = IF lo <= hi THEN hi - lo + 1 ELSE 0
      /\ \A i \in 1..hi - lo + 1 : SubSeq(s, lo, hi)[i] = s[lo + i - 1]
  BY <1>2, SubSeqProperties
<1>4. DOMAIN SubSeq(s, lo, hi) = 1..hi - lo + 1
  BY <1>3, SeqType
<1>5. \A i \in 1..hi - lo + 1 : lo + i - 1 \in 1..Len(s)
  BY <1>1
<1> QED
  BY <1>3, <1>4, <1>5

LEMMA TableWindow ==
  ASSUME NEW fs, NEW F, Table(fs, F), NEW lo \in DOMAIN fs, NEW hi \in DOMAIN fs, lo <= hi
  PROVE  LET w == SubSeq(fs, lo, hi)
         IN /\ Table(w, F) /\ DOMAIN w = 1..hi - lo + 1
            /\ \A i \in 1..hi - lo + 1 : w[i] = fs[lo + i - 1] /\ lo + i - 1 \in DOMAIN fs
<1> DEFINE w == SubSeq(fs, lo, hi)
<1>1. fs \in Seq(Family(F)) /\ Len(fs) \in Nat /\ DOMAIN fs = 1..Len(fs)
  BY TableType DEF Table
<1>2. /\ w \in Seq(Family(F)) /\ DOMAIN w = 1..hi - lo + 1
      /\ \A i \in 1..hi - lo + 1 : w[i] = fs[lo + i - 1] /\ lo + i - 1 \in 1..Len(fs)
  BY <1>1, WindowOf
<1> HIDE DEF w
<1>3. ASSUME NEW p \in DOMAIN w, NEW q \in DOMAIN w, p < q
      PROVE  ~Precedes(OrderingKey(w[q]), OrderingKey(w[p]))
  <2>1. /\ lo + p - 1 \in DOMAIN fs /\ lo + q - 1 \in DOMAIN fs /\ lo + p - 1 < lo + q - 1
        /\ w[p] = fs[lo + p - 1] /\ w[q] = fs[lo + q - 1]
    BY <1>1, <1>2, <1>3
  <2> QED BY <2>1 DEF Table
<1> QED
  BY <1>1, <1>2, <1>3 DEF Table, w

LEMMA ReferencesOf ==
  ASSUME NEW F, NEW f \in Family(F)
  PROVE  \A i \in FileReferences(f) : i \in Nat /\ i < F
<1>1. \A i \in FilesOf(f) : i \in Nat /\ i < F
  BY FamilyType, FilesOfRecord
<1>2. ASSUME NEW j \in DOMAIN f.merged PROVE \A i \in FilesOf(f.merged[j]) : i \in Nat /\ i < F
  <2>1. f.merged[j] \in Record(F)
    BY FamilyType
  <2> DEFINE g == f.merged[j]
  <2> HIDE DEF g
  <2>2. g \in Record(F)
    BY <2>1 DEF g
  <2>3. \A i \in FilesOf(g) : i \in Nat /\ i < F
    BY <2>2, RecordType, FilesOfRecord
  <2> QED BY <2>3 DEF g
<1> QED
  BY <1>1, <1>2, RenumberedParts

LEMMA UsedOf ==
  ASSUME NEW F \in Nat, NEW fs, Table(fs, F)
  PROVE  /\ Used(fs) \in SUBSET (1..F - 1)
         /\ \A f \in Range(fs) : \A i \in FileReferences(f) : i \in Used(fs) \cup {0}
         /\ \A f \in Range(fs) : \A i \in FileReferences(f) : i \in Nat /\ i < F
<1>1. \A f \in Range(fs) : f \in Family(F)
  BY TableType DEF Range
<1>2. \A f \in Range(fs) : \A i \in FileReferences(f) : i \in Nat /\ i < F
  BY <1>1, ReferencesOf
<1>3. \A f \in Range(fs) : \A i \in FileReferences(f) : i = 0 \/ i \in 1..F - 1
  BY <1>2
<1> QED
  BY <1>2, <1>3 DEF Used, References

\* The functions of a table, with only the files they use, renumbered.
LEMMA Reduced ==
  ASSUME NEW list, FileList(list), NEW fs, Table(fs, Len(list))
  PROVE  LET T == UsedFiles(list, Used(fs))
             numbers == NewNumbers(list, Used(fs))
             new == AllRenumbered(fs, numbers)
         IN /\ FileList(T) /\ Table(new, Len(T)) /\ DOMAIN new = DOMAIN fs
            /\ Finalize(new, "Preserve", FALSE) = new
            /\ \A k \in 1..Len(T) - 1 : k \in Used(new)
            /\ \A i \in DOMAIN fs : Renumbered(new[i], EntryOf(T)) = Renumbered(fs[i], EntryOf(list))
<1> DEFINE F == Len(list)
           used == Used(fs)
           T == UsedFiles(list, used)
           G == Len(T)
           numbers == NewNumbers(list, used)
           new == AllRenumbered(fs, numbers)
           refs == References(fs)
<1>1. F \in Nat
  BY SeqType DEF FileList
<1>2. /\ used \in SUBSET (1..F - 1)
      /\ \A f \in Range(fs) : \A i \in FileReferences(f) : i \in used \cup {0}
      /\ \A f \in Range(fs) : \A i \in FileReferences(f) : i \in Nat /\ i < F
  BY <1>1, UsedOf
<1>3. used = refs \ {0}
  BY DEF Used
<1> HIDE DEF used
<1>4. /\ FileList(T) /\ OneToOne(numbers, used \cup {0}, G) /\ numbers[0] = 0
      /\ \A i \in used \cup {0} : T[numbers[i] + 1] = list[i + 1]
      /\ \A k \in 1..G - 1 : \E i \in used : numbers[i] = k
  BY <1>2, Numbered
<1> HIDE DEF T, G, numbers
<1>5. /\ Table(new, G) /\ DOMAIN new = DOMAIN fs
      /\ \A i \in DOMAIN fs : FileReferences(new[i]) = {numbers[x] : x \in FileReferences(fs[i])}
  <2>1. OneToOne(numbers, refs, G)
    BY <1>2, <1>4 DEF OneToOne, References
  <2>2. Table(fs, F)
    OBVIOUS
  <2> HIDE DEF F
  <2>3. /\ Table(new, G) /\ DOMAIN new = DOMAIN fs
        /\ RefersBy(new, fs, numbers)
    BY <2>1, <2>2, TableRenumbered
  <2> QED BY <2>3 DEF RefersBy
<1>6. Finalize(new, "Preserve", FALSE) = new
  BY <1>5, FinalizedAgain
<1>7. ASSUME NEW k \in 1..G - 1 PROVE k \in Used(new)
  <2>1. PICK i \in used : numbers[i] = k
    BY <1>4
  <2>2. PICK f \in Range(fs) : i \in FileReferences(f)
    BY <1>3, <2>1 DEF References
  <2>3. PICK j \in DOMAIN fs : f = fs[j]
    BY <2>2 DEF Range
  <2>4. k \in FileReferences(new[j]) /\ j \in DOMAIN new
    BY <1>5, <2>1, <2>2, <2>3
  <2>5. new[j] \in Range(new)
    BY <2>4 DEF Range
  <2> HIDE DEF new
  <2>6. k # 0
    OBVIOUS
  <2> QED BY <2>4, <2>5, <2>6 DEF Used, References
<1>8. ASSUME NEW i \in DOMAIN fs
      PROVE  Renumbered(new[i], EntryOf(T)) = Renumbered(fs[i], EntryOf(list))
  <2>1. fs[i] \in Family(F) /\ fs[i] \in Range(fs)
    BY TableType DEF Range
  <2>2. new[i] = Renumbered(fs[i], numbers)
    BY DEF AllRenumbered
  <2>3. ASSUME NEW x \in FileReferences(fs[i]) PROVE EntryOf(T)[numbers[x]] = EntryOf(list)[x]
    <3>1. x \in used \cup {0} /\ x \in Nat /\ x < F
      BY <1>2, <2>1
    <3>2. numbers[x] \in Nat /\ numbers[x] < G /\ T[numbers[x] + 1] = list[x + 1]
      BY <1>4, <3>1 DEF OneToOne
    <3> QED BY <3>1, <3>2 DEF EntryOf, G
  <2> HIDE DEF new
  <2> QED BY <2>1, <2>2, <2>3, RenumberedTwice
<1> QED
  BY <1>4, <1>5, <1>6, <1>7, <1>8 DEF T, G, numbers, new, used

LEMMA DescribedBy ==
  ASSUME NEW im
  PROVE  Described(im) = AllRenumbered(im.functions, EntryOf(im.files))
BY DEF Described, AllRenumbered, Renumbered, EntryOf

LEMMA RebuiltBy ==
  ASSUME NEW im, NEW lo, NEW hi
  PROVE  LET w == SubSeq(im.functions, lo, hi)
             numbers == NewNumbers(im.files, Used(w))
         IN Rebuilt(im, lo, hi) =
              [base |-> im.base, files |-> UsedFiles(im.files, Used(w)),
               functions |-> Finalize(AllRenumbered(w, numbers), "Preserve", FALSE)]
BY DEF Rebuilt, AllRenumbered, Used, References

\* A rebuilt window is an image of the same kind, says the same and uses all its files.
LEMMA RebuiltSays ==
  ASSUME NEW im, Sane(im), NEW lo \in DOMAIN im.functions, NEW hi \in DOMAIN im.functions, lo <= hi
  PROVE  LET d == Rebuilt(im, lo, hi)
         IN /\ Sane(d)
            /\ Described(d) = SubSeq(Described(im), lo, hi)
            /\ \A k \in 1..Len(d.files) - 1 : k \in Used(d.functions)
            /\ d = [base |-> d.base, files |-> d.files, functions |-> d.functions]
<1> DEFINE fs == im.functions
           list == im.files
           w == SubSeq(fs, lo, hi)
           T == UsedFiles(list, Used(w))
           new == AllRenumbered(w, NewNumbers(list, Used(w)))
           d == Rebuilt(im, lo, hi)
           m == hi - lo + 1
           D == Described(im)
<1>1. FileList(list) /\ Table(fs, Len(list)) /\ Len(fs) \in Nat /\ DOMAIN fs = 1..Len(fs)
  BY TableType DEF Sane
<1>2. d = [base |-> im.base, files |-> T, functions |-> Finalize(new, "Preserve", FALSE)]
  BY RebuiltBy
<1> HIDE DEF fs, list
<1>3. /\ Table(w, Len(list)) /\ DOMAIN w = 1..m
      /\ \A i \in 1..m : w[i] = fs[lo + i - 1] /\ lo + i - 1 \in DOMAIN fs
  BY <1>1, TableWindow DEF fs
<1> HIDE DEF w
<1>4. /\ FileList(T) /\ Table(new, Len(T)) /\ DOMAIN new = DOMAIN w
      /\ Finalize(new, "Preserve", FALSE) = new
      /\ \A k \in 1..Len(T) - 1 : k \in Used(new)
      /\ \A i \in DOMAIN w : Renumbered(new[i], EntryOf(T)) = Renumbered(w[i], EntryOf(list))
  BY <1>1, <1>3, Reduced
<1> HIDE DEF T, new, d, D
<1>5. d = [base |-> im.base, files |-> T, functions |-> new]
  BY <1>2, <1>4
<1>6. d.base = im.base /\ d.files = T /\ d.functions = new
  BY <1>5
<1>7. Described(d) = [i \in 1..m |-> Renumbered(w[i], EntryOf(list))]
  BY <1>3, <1>4, <1>6, DescribedBy DEF AllRenumbered
<1>8. /\ DOMAIN D = 1..Len(fs)
      /\ D = [i \in 1..Len(fs) |-> Renumbered(fs[i], EntryOf(list))]
  BY <1>1, DescribedBy DEF AllRenumbered, D, fs, list
<1>9. SubSeq(D, lo, hi) = [i \in 1..m |-> Renumbered(fs[lo + i - 1], EntryOf(list))]
  <2> DEFINE X == {Renumbered(fs[i], EntryOf(list)) : i \in 1..Len(fs)}
  <2>1. D \in [1..Len(fs) -> X]
    BY <1>8
  <2> HIDE DEF X
  <2>2. D \in Seq(X) /\ Len(D) = Len(fs)
    BY <1>1, <2>1
  <2>3. lo \in 1..Len(D) /\ hi \in 1..Len(D)
    BY <1>1, <2>2 DEF fs
  <2>4. /\ SubSeq(D, lo, hi) \in Seq(X) /\ DOMAIN SubSeq(D, lo, hi) = 1..hi - lo + 1
        /\ \A i \in 1..hi - lo + 1 : SubSeq(D, lo, hi)[i] = D[lo + i - 1] /\ lo + i - 1 \in 1..Len(D)
    BY <2>2, <2>3, WindowOf
  <2> DEFINE v == SubSeq(D, lo, hi)
  <2> HIDE DEF v
  <2>5. v \in Seq(X) /\ DOMAIN v = 1..m /\ \A i \in 1..m : v[i] = Renumbered(fs[lo + i - 1], EntryOf(list))
    BY <1>8, <2>2, <2>4 DEF v
  <2>6. v = [i \in DOMAIN v |-> v[i]]
    BY <2>5
  <2> HIDE DEF m
  <2>7. v = [i \in 1..m |-> Renumbered(fs[lo + i - 1], EntryOf(list))]
    BY <2>5, <2>6
  <2> QED BY <2>7 DEF v
<1> HIDE DEF m
<1>10. Described(d) = SubSeq(D, lo, hi)
  BY <1>3, <1>7, <1>9
<1>11. Sane(d)
  BY <1>4, <1>6 DEF Sane
<1>12. d = [base |-> d.base, files |-> d.files, functions |-> d.functions]
  BY <1>5, <1>6
<1> QED
  BY <1>4, <1>6, <1>10, <1>11, <1>12 DEF d, D

\* Rebuilding what uses all its files changes nothing.
LEMMA RebuiltAgain ==
  ASSUME NEW d, Sane(d), \A k \in 1..Len(d.files) - 1 : k \in Used(d.functions),
         d = [base |-> d.base, files |-> d.files, functions |-> d.functions]
  PROVE  Rebuilt(d, 1, Len(d.functions)) = d
<1> DEFINE fs == d.functions
           list == d.files
           n == Len(fs)
           w == SubSeq(fs, 1, n)
           used == Used(fs)
           numbers == NewNumbers(list, used)
<1>1. FileList(list) /\ Table(fs, Len(list)) /\ n \in Nat /\ fs = [i \in 1..n |-> fs[i]] /\ DOMAIN fs = 1..n
  BY TableType DEF Sane
<1>2. Rebuilt(d, 1, n) = [base |-> d.base, files |-> UsedFiles(list, Used(w)),
                          functions |-> Finalize(AllRenumbered(w, NewNumbers(list, Used(w))), "Preserve", FALSE)]
  BY RebuiltBy
<1> HIDE DEF fs, list, n
<1>3. w = fs
  <2>1. fs \in Seq(Family(Len(list))) /\ Len(fs) = n
    BY <1>1 DEF Table, n
  <2> DEFINE X == Family(Len(list))
  <2> HIDE DEF X
  <2>2. fs \in Seq(X)
    BY <2>1 DEF X
  <2> QED BY <1>1, <2>1, <2>2
<1> HIDE DEF w
<1>4. Len(list) \in Nat
  BY <1>1, SeqType DEF FileList
<1>5. /\ used \in SUBSET (1..Len(list) - 1)
      /\ \A f \in Range(fs) : \A i \in FileReferences(f) : i \in used \cup {0}
      /\ \A f \in Range(fs) : \A i \in FileReferences(f) : i \in Nat /\ i < Len(list)
  BY <1>1, <1>4, UsedOf
<1>6. used = 1..Len(list) - 1
  <2>1. \A k \in 1..Len(list) - 1 : k \in used
    BY DEF fs, list
  <2> HIDE DEF used
  <2> QED BY <1>5, <2>1
<1> HIDE DEF used
<1>7. UsedFiles(list, used) = list /\ \A i \in 0..Len(list) - 1 : numbers[i] = i
  BY <1>1, <1>5, <1>6, Numbered
<1> HIDE DEF numbers
<1>8. ASSUME NEW i \in 1..n PROVE Renumbered(fs[i], numbers) = fs[i]
  <2>1. fs[i] \in Range(fs) /\ fs[i] \in Family(Len(list))
    BY <1>1, TableType DEF Range, n
  <2>2. \A x \in FileReferences(fs[i]) : numbers[x] = x
    BY <1>4, <1>5, <1>7, <2>1
  <2> QED BY <2>1, <2>2, RenumberedSame
<1>9. AllRenumbered(fs, numbers) = fs
  BY <1>1, <1>8 DEF AllRenumbered
<1>10. Finalize(fs, "Preserve", FALSE) = fs
  BY <1>1, FinalizedAgain
<1>11. Rebuilt(d, 1, n) = [base |-> d.base, files |-> list, functions |-> fs]
  BY <1>2, <1>3, <1>7, <1>9, <1>10 DEF used, numbers
<1> QED
  BY <1>11 DEF fs, list, n

-----------------------------------------------------------------------------
(* What finalization leaves is a finalized table. *)

LEMMA CompactRowsApart ==
  ASSUME NEW rows \in Seq(Rows)
  PROVE  /\ NoRepeats(CompactRows(rows)) /\ CompactRows(rows) \in Seq(Rows)
         /\ \A r \in Range(CompactRows(rows)) : r \in Range(rows)
<1> DEFINE c == CompactRows(rows)
           n == Len(c)
           P == RowsKept(rows)
<1>1. PICK at \in [1..n -> P] :
        /\ n \in Nat /\ c \in Seq(Rows)
        /\ \A k \in 1..n : c[k] = rows[at[k]]
        /\ \A k, l \in 1..n : k < l => at[k] < at[l]
        /\ \A i \in P : \E k \in 1..n : at[k] = i
  BY CompactRowsOf
<1>2. P \subseteq 1..Len(rows) /\ Len(rows) \in Nat /\ DOMAIN rows = 1..Len(rows)
  BY RowsKeptOf
<1> HIDE DEF c, n
<1>3. ASSUME NEW k \in 2..n
      PROVE  c[k].file # c[k - 1].file \/ c[k].line # c[k - 1].line
  <2> DEFINE i == at[k]
             j == at[k - 1]
  <2>1. k \in 1..n /\ k - 1 \in 1..n /\ k - 1 < k /\ k \in Nat
    BY <1>1
  <2>2. /\ i \in P /\ j \in P /\ j < i /\ i \in 1..Len(rows) /\ j \in 1..Len(rows)
        /\ i - 1 \in 1..Len(rows) /\ j <= i - 1 /\ i # 1
    <3>1. i \in P /\ j \in P /\ j < i
      BY <1>1, <2>1
    <3> HIDE DEF i, j, P
    <3>2. i \in 1..Len(rows) /\ j \in 1..Len(rows)
      BY <1>2, <3>1
    <3> QED BY <1>2, <3>1, <3>2
  <2>3. PICK h \in P :
          /\ h <= i - 1 /\ \A m \in P : m <= i - 1 => m <= h
          /\ rows[h].file = rows[i - 1].file /\ rows[h].line = rows[i - 1].line
    BY <2>2, HeadOfRun
  <2>4. PICK m \in 1..n : at[m] = h
    BY <1>1
  <2>5. h = j
    <3>1. h \in 1..Len(rows) /\ j <= h
      BY <1>2, <2>2, <2>3
    <3>2. ~(k < m) /\ m # k
      <4>1. m # k
        BY <2>2, <2>3, <2>4, <3>1
      <4>2. ASSUME k < m PROVE FALSE
        <5>1. i < h
          BY <1>1, <2>1, <2>4, <4>2
        <5> HIDE DEF i
        <5> QED BY <1>2, <2>2, <2>3, <3>1, <5>1
      <4> QED BY <4>1, <4>2
    <3>3. m = k - 1 \/ m < k - 1
      BY <1>1, <2>1, <3>2
    <3>4. m < k - 1 => h < j
      BY <1>1, <2>1, <2>4
    <3>5. m = k - 1 => h = j
      BY <2>4
    <3> HIDE DEF j
    <3> QED BY <1>2, <2>2, <3>1, <3>3, <3>4, <3>5
  <2>6. rows[i].file # rows[i - 1].file \/ rows[i].line # rows[i - 1].line
    BY <2>2 DEF RowsKept
  <2>7. c[k] = rows[i] /\ c[k - 1] = rows[j]
    BY <1>1, <2>1
  <2> HIDE DEF i, j
  <2> QED BY <2>3, <2>5, <2>6, <2>7
<1>4. NoRepeats(c)
  BY <1>3 DEF NoRepeats, n
<1>5. ASSUME NEW r \in Range(c) PROVE r \in Range(rows)
  <2>1. DOMAIN c = 1..n
    BY <1>1, SeqType DEF n
  <2>2. PICK k \in 1..n : r = c[k]
    BY <2>1 DEF Range
  <2>3. at[k] \in DOMAIN rows
    BY <1>1, <1>2
  <2> QED BY <1>1, <2>2, <2>3 DEF Range
<1> QED
  BY <1>1, <1>4, <1>5 DEF c

\* A candidate that names files of the table, compacted.
LEMMA CandidateRecord ==
  ASSUME NEW F, NEW f \in Candidates, f.start <= f.end, \A i \in FileReferences(f) : i < F
  PROVE  Compacted(f) \in Record(F)
<1> DEFINE c == Compacted(f)
<1>1. f \in Plain /\ c \in Plain /\ c = [f EXCEPT !.lines = CompactRows(f.lines)]
  BY PlainOf
<1> HIDE DEF c
<1>2. f.lines \in Seq(Rows)
  BY <1>1, PlainType
<1>3. c.lines = CompactRows(f.lines) /\ c.calls = f.calls
  BY <1>1 DEF Plain
<1>4. NoRepeats(c.lines) /\ \A r \in Range(c.lines) : r \in Range(f.lines)
  BY <1>2, <1>3, CompactRowsApart
<1>5. \A i \in FilesOf(c) : i \in FilesOf(f)
  BY <1>3, <1>4 DEF FilesOf
<1>6. \A i \in FilesOf(c) : i < F
  BY <1>5, RenumberedParts
<1> QED
  BY <1>1, <1>4, <1>6 DEF Record, c

LEMMA RecordFamily ==
  ASSUME NEW F, NEW g \in Record(F)
  PROVE  g \in Family(F)
<1>1. g \in Plain /\ g.merged = <<>>
  BY RecordType
<1>2. [g EXCEPT !.merged = <<>>] = g
  BY <1>1 DEF Plain
<1>3. <<>> \in Seq(Record(F))
  OBVIOUS
<1>4. g \in [start : Nat, end : Nat, name : Nat \ {0}, lines : Seq(Rows), calls : Seq(Nat),
             sites : SUBSET Nat, merged : Seq(Record(F))]
  <2> DEFINE X == Seq(Record(F))
  <2>1. <<>> \in X
    BY <1>3
  <2> HIDE DEF X
  <2>2. g \in [start : Nat, end : Nat, name : Nat \ {0}, lines : Seq(Rows), calls : Seq(Nat),
             sites : SUBSET Nat, merged : X]
    BY <1>1, <2>1 DEF Plain
  <2> QED BY <2>2 DEF X
<1> QED
  BY <1>2, <1>4 DEF Family

\* The sorted functions, as records of the file table.
SortedRecords(S, n, F) == Ordered(S, n) /\ Len(S) = n /\ S \in Seq(Record(F)) /\ DOMAIN S = 1..n

LEMMA SortedRecordsOf ==
  ASSUME NEW F, NEW added \in Seq(Candidates), \A i \in DOMAIN added : added[i].start <= added[i].end,
         \A f \in Range(added) : \A i \in FileReferences(f) : i < F
  PROVE  SortedRecords(Sorted(added), Len(added), F)
<1> DEFINE n == Len(added)
           S == Sorted(added)
<1>1. n \in Nat /\ DOMAIN added = 1..n /\ \A i \in 1..n : added[i] \in Candidates
  BY SeqType
<1>2. Ordered(S, n) /\ \E from \in Bijection(1..n, 1..n) :
                         \A p \in 1..n : S[p] = Compacted(added[from[p]])
  <2> HIDE DEF n, S
  <2> QED BY SortedOf DEF n, S
<1> HIDE DEF S, n
<1>3. PICK from \in Bijection(1..n, 1..n) : \A p \in 1..n : S[p] = Compacted(added[from[p]])
  BY <1>2
<1>4. \A p \in 1..n : from[p] \in 1..n
  BY <1>3 DEF Bijection, Injection
<1>5. ASSUME NEW p \in 1..n PROVE S[p] \in Record(F)
  <2>1. added[from[p]] \in Range(added) /\ from[p] \in 1..n
    BY <1>1, <1>4 DEF Range
  <2>2. /\ added[from[p]] \in Candidates /\ added[from[p]].start <= added[from[p]].end
        /\ \A i \in FileReferences(added[from[p]]) : i < F
    BY <1>1, <2>1
  <2>3. Compacted(added[from[p]]) \in Record(F)
    BY <2>2, CandidateRecord
  <2> QED BY <1>3, <2>3
<1>6. S \in [1..n -> Plain]
  BY <1>2 DEF Ordered
<1>7. DOMAIN S = 1..n /\ S = [p \in 1..n |-> S[p]]
  BY <1>6
<1>8. S \in Seq(Record(F)) /\ Len(S) = n
  BY <1>1, <1>5, <1>7
<1> QED
  BY <1>2, <1>7, <1>8 DEF SortedRecords, S, n

\* Under Preserve the sorted functions are the table.
LEMMA SortedTable ==
  ASSUME NEW S, NEW n, NEW F, SortedRecords(S, n, F)
  PROVE  Table(S, F)
<1>1. /\ Len(S) = n /\ DOMAIN S = 1..n /\ S = [i \in 1..n |-> S[i]] /\ n \in Nat
      /\ \A i \in 1..n : S[i] \in Record(F)
  BY SeqType DEF SortedRecords, Ordered
<1>2. \A i \in 1..n : S[i] \in Family(F)
  BY <1>1, RecordFamily
<1>3. S \in Seq(Family(F))
  BY <1>1, <1>2
<1> QED
  BY <1>1, <1>3 DEF Table, SortedRecords, Ordered

LEMMA KeysOfRanges ==
  ASSUME NEW F, NEW f \in Family(F), NEW g \in Family(F), RangeBefore(f, g)
  PROVE  ~Precedes(OrderingKey(g), OrderingKey(f))
<1> DEFINE k == OrderingKey(f)
           l == OrderingKey(g)
<1>1. /\ k \in Keys(7) /\ l \in Keys(7) /\ k[1] = f.start /\ k[2] = f.end
      /\ l[1] = g.start /\ l[2] = g.end
      /\ f.start \in Nat /\ f.end \in Nat /\ g.start \in Nat /\ g.end \in Nat
  BY FamilyType
<1> HIDE DEF k, l
<1>2. k[1] < l[1] \/ (k[1] = l[1] /\ k[2] < l[2])
  BY <1>1 DEF RangeBefore
<1>3. ASSUME Precedes(l, k) PROVE FALSE
  <2>1. PICK i \in 1..7 : l[i] < k[i] /\ \A j \in 1..i - 1 : l[j] = k[j]
    BY <1>1, <1>3 DEF Precedes, Keys
  <2>2. i = 1 \/ i = 2 \/ i \in 3..7
    OBVIOUS
  <2>3. CASE i = 1
    BY <1>1, <1>2, <2>1, <2>3
  <2>4. CASE i # 1
    <3>1. l[1] = k[1]
      BY <2>1, <2>4
    <3>2. i \in 3..7 => l[2] = k[2]
      BY <2>1
    <3> QED BY <1>1, <1>2, <2>1, <2>2, <2>4, <3>1, <3>2
  <2> QED BY <2>3, <2>4
<1> QED
  BY <1>3 DEF k, l

\* Functions of a file table whose ranges ascend are a table.
LEMMA AscendingTable ==
  ASSUME NEW fs, NEW F, NEW K \in Nat, Len(fs) = K, DOMAIN fs = 1..K, fs = [t \in 1..K |-> fs[t]],
         \A t \in 1..K : fs[t] \in Family(F),
         \A t, u \in 1..K : t < u => RangeBefore(fs[t], fs[u])
  PROVE  Table(fs, F)
<1>1. fs \in Seq(Family(F))
  OBVIOUS
<1>2. ASSUME NEW p \in 1..K, NEW q \in 1..K, p < q
      PROVE  ~Precedes(OrderingKey(fs[q]), OrderingKey(fs[p]))
  BY <1>2, KeysOfRanges
<1> QED
  BY <1>1, <1>2 DEF Table

LEMMA BestRecord ==
  ASSUME NEW S, NEW n, NEW F, SortedRecords(S, n, F), NEW i \in 1..n
  PROVE  Best(S, i) \in Record(F)
<1>1. n \in Nat /\ \A j \in 1..n : S[j] \in Record(F)
  BY SeqType DEF SortedRecords, Ordered
<1>2. CASE Best(S, i) = S[i]
  BY <1>1, <1>2
<1>3. CASE Best(S, i) # S[i]
  <2>1. Best(S, i) = Survivor(S[i - 1], S[i]) /\ i > 1
    BY <1>3 DEF Best
  <2>2. i - 1 \in 1..n
    BY <1>1, <2>1
  <2> DEFINE p == S[i - 1]
             f == S[i]
  <2>3. p \in Record(F) /\ f \in Record(F)
    BY <1>1, <2>2
  <2> HIDE DEF p, f
  <2>4. CASE Survivor(p, f) = p
    BY <2>1, <2>3, <2>4 DEF p, f
  <2>5. CASE Survivor(p, f) # p
    <3>1. PICK x : Survivor(p, f) = [f EXCEPT !.name = x] /\ (x = p.name \/ x = f.name)
      <4>1. Survivor(p, f) # f
        BY <1>3, <2>1 DEF p, f
      <4> QED BY <2>5, <4>1 DEF Survivor
    <3>2. p \in Plain /\ f \in Plain
      BY <2>3, RecordType
    <3> DEFINE g == [f EXCEPT !.name = x]
    <3>3. g \in Plain /\ g.lines = f.lines /\ g.calls = f.calls
      BY <3>1, <3>2 DEF Plain
    <3>4. FilesOf(g) = FilesOf(f)
      BY <3>3 DEF FilesOf
    <3> HIDE DEF g
    <3>5. g \in Record(F)
      BY <2>3, <3>3, <3>4 DEF Record
    <3> QED BY <2>1, <3>1, <3>5 DEF g, p, f
  <2> QED BY <2>4, <2>5
<1> QED
  BY <1>2, <1>3

LEMMA DedupTable ==
  ASSUME NEW S, NEW n, NEW F, SortedRecords(S, n, F), NEW D, Deduplicated(S, n, D)
  PROVE  Table(D, F)
<1>1. D \in Seq(Plain)
  BY DEF Deduplicated
<1>2. Len(D) \in Nat /\ DOMAIN D = 1..Len(D) /\ D = [t \in 1..Len(D) |-> D[t]]
  BY <1>1, SeqType
<1>3. ASSUME NEW t \in 1..Len(D) PROVE D[t] \in Family(F)
  <2>1. PICK i \in 1..n : D[t] = Best(S, i)
    BY DEF Deduplicated
  <2>2. Best(S, i) \in Record(F)
    BY BestRecord
  <2> QED BY <2>1, <2>2, RecordFamily
<1>4. \A t, u \in 1..Len(D) : t < u => RangeBefore(D[t], D[u])
  BY DEF Deduplicated
<1> QED
  BY <1>2, <1>3, <1>4, AscendingTable

LEMMA MergedTable ==
  ASSUME NEW S, NEW n, NEW F, SortedRecords(S, n, F), NEW M, Merged(S, n, M)
  PROVE  Table(M, F)
<1>1. M \in Seq(Parents)
  BY DEF Merged
<1>2. /\ Len(M) \in Nat /\ DOMAIN M = 1..Len(M) /\ M = [t \in 1..Len(M) |-> M[t]]
      /\ \A t \in 1..Len(M) : M[t] \in Parents
  BY <1>1, SeqType
<1>3. ASSUME NEW t \in 1..Len(M) PROVE M[t] \in Family(F)
  <2> DEFINE f == M[t]
             m == f.merged
  <2>1. f \in Parents
    BY <1>2
  <2>2. \A g \in RecordsOf(f) : g \in Record(F)
    <3>1. \A i \in 1..n : S[i] \in Record(F)
      BY SeqType DEF SortedRecords
    <3>2. \A g \in RecordsOf(f) : \E i \in 1..n : g = S[i]
      BY DEF Merged
    <3> QED BY <3>1, <3>2
  <2> HIDE DEF f
  <2>3. [f EXCEPT !.merged = <<>>] \in Record(F) /\ \A g \in Range(m) : g \in Record(F)
    BY <2>2 DEF RecordsOf
  <2>4. /\ m \in Seq(Plain) /\ Len(m) \in Nat /\ DOMAIN m = 1..Len(m)
        /\ m = [i \in 1..Len(m) |-> m[i]]
    <3>1. m \in Seq(Plain)
      BY <2>1 DEF Parents
    <3> HIDE DEF m
    <3> QED BY <3>1, SeqType
  <2>5. m \in Seq(Record(F))
    <3>1. \A i \in 1..Len(m) : m[i] \in Record(F)
      BY <2>3, <2>4 DEF Range
    <3> HIDE DEF m
    <3> QED BY <2>4, <3>1
  <2> DEFINE X == Seq(Record(F))
  <2> HIDE DEF X
  <2>6. m \in X
    BY <2>5 DEF X
  <2>7. f \in [start : Nat, end : Nat, name : Nat \ {0}, lines : Seq(Rows), calls : Seq(Nat),
               sites : SUBSET Nat, merged : X]
    BY <2>1, <2>6 DEF Parents
  <2> QED BY <2>3, <2>7 DEF Family, f, X
<1>4. \A t, u \in 1..Len(M) : t < u => RangeBefore(M[t], M[u])
  BY DEF Merged
<1> QED
  BY <1>2, <1>3, <1>4, AscendingTable

\* A range that grows keeps its place behind the others.
LEMMA GrownKey ==
  ASSUME NEW k \in Keys(7), NEW l \in Keys(7), NEW g \in Keys(7), ~Precedes(l, k),
         l[2] <= g[2], \A i \in 1..7 : i # 2 => g[i] = l[i]
  PROVE  ~Precedes(g, k)
<1> SUFFICES ASSUME Precedes(g, k) PROVE FALSE
  OBVIOUS
<1>1. /\ \A i \in 1..7 : k[i] \in Int /\ l[i] \in Int /\ g[i] \in Int
      /\ DOMAIN k = 1..7 /\ DOMAIN l = 1..7 /\ DOMAIN g = 1..7
  BY DEF Keys
<1>2. PICK i \in 1..7 : g[i] < k[i] /\ \A j \in 1..i - 1 : g[j] = k[j]
  BY <1>1 DEF Precedes
<1>3. CASE i = 1
  <2>1. l[1] < k[1] /\ \A j \in 1..1 - 1 : l[j] = k[j]
    BY <1>1, <1>2, <1>3
  <2> QED BY <1>1, <2>1 DEF Precedes
<1>4. CASE i # 1 /\ l[2] < k[2]
  <2>1. l[1] = k[1]
    BY <1>1, <1>2, <1>4
  <2>2. \A j \in 1..2 - 1 : l[j] = k[j]
    BY <2>1
  <2> QED BY <1>1, <1>4, <2>2 DEF Precedes
<1>5. CASE i # 1 /\ ~(l[2] < k[2])
  <2>1. i # 2 /\ i > 2
    BY <1>1, <1>2, <1>5
  <2>2. g[2] = k[2] /\ l[2] = k[2]
    BY <1>1, <1>2, <1>5, <2>1
  <2>3. l[i] < k[i] /\ \A j \in 1..i - 1 : l[j] = k[j]
    BY <1>1, <1>2, <2>1, <2>2
  <2> QED BY <1>1, <2>3 DEF Precedes
<1> QED
  BY <1>3, <1>4, <1>5

WithEnd(g) == [g EXCEPT !.end = RepairedEnd(g.start)]

LEMMA EndedRecord ==
  ASSUME NEW F, NEW g \in Record(F)
  PROVE  WithEnd(g) \in Record(F)
<1> DEFINE h == WithEnd(g)
<1>1. g \in Plain
  BY RecordType
<1>2. RepairedEnd(g.start) \in Nat /\ g.start <= RepairedEnd(g.start)
  BY <1>1, PlainType, RepairedEndOf
<1>3. h \in Plain /\ h.lines = g.lines /\ h.calls = g.calls
  BY <1>1, <1>2 DEF Plain, WithEnd
<1>4. FilesOf(h) = FilesOf(g)
  BY <1>3 DEF FilesOf
<1> HIDE DEF h
<1> QED
  BY <1>3, <1>4 DEF Record, h

LEMMA EndedFamily ==
  ASSUME NEW F, NEW f \in Family(F), IsEmpty(f)
  PROVE  LET q == Throughout(f, LAMBDA g : [g EXCEPT !.end = RepairedEnd(g.start)])
         IN /\ q \in Family(F)
            /\ OrderingKey(f)[2] <= OrderingKey(q)[2]
            /\ \A i \in 1..7 : i # 2 => OrderingKey(q)[i] = OrderingKey(f)[i]
<1> DEFINE q == Throughout(f, LAMBDA g : [g EXCEPT !.end = RepairedEnd(g.start)])
           m == [i \in DOMAIN f.merged |-> WithEnd(f.merged[i])]
           X == Seq(Record(F))
           e == RepairedEnd(f.start)
<1>1. q = [WithEnd(f) EXCEPT !.merged = m]
  BY DEF Throughout, WithEnd
<1> HIDE DEF q
<1>2. /\ f \in [start : Nat, end : Nat, name : Nat \ {0}, lines : Seq(Rows), calls : Seq(Nat),
                sites : SUBSET Nat, merged : Seq(Record(F))]
      /\ [f EXCEPT !.merged = <<>>] \in Record(F)
  BY DEF Family
<1>3. /\ f.merged \in Seq(Record(F)) /\ Len(f.merged) \in Nat /\ DOMAIN f.merged = 1..Len(f.merged)
      /\ \A i \in 1..Len(f.merged) : f.merged[i] \in Record(F)
  BY <1>2, SeqType
<1>4. m = [i \in 1..Len(f.merged) |-> WithEnd(f.merged[i])]
  BY <1>3
<1> HIDE DEF m
<1>5. m \in Seq(Record(F)) /\ Len(m) = Len(f.merged)
  BY <1>3, <1>4, EndedRecord
<1>6. e \in Nat /\ f.start <= e /\ f.end <= e
  BY <1>2, RepairedEndOf DEF IsEmpty
<1> HIDE DEF e, X
<1>7. m \in X /\ f \in [start : Nat, end : Nat, name : Nat \ {0}, lines : Seq(Rows), calls : Seq(Nat),
                        sites : SUBSET Nat, merged : X]
  BY <1>2, <1>5 DEF X
<1>8. q = [[f EXCEPT !.end = e] EXCEPT !.merged = m]
  BY <1>1 DEF WithEnd, e
<1>9. /\ q \in [start : Nat, end : Nat, name : Nat \ {0}, lines : Seq(Rows), calls : Seq(Nat),
                sites : SUBSET Nat, merged : X]
      /\ q.start = f.start /\ q.end = e /\ q.name = f.name /\ q.lines = f.lines
      /\ q.calls = f.calls /\ q.sites = f.sites /\ q.merged = m
      /\ [q EXCEPT !.merged = <<>>] = WithEnd([f EXCEPT !.merged = <<>>])
  BY <1>6, <1>7, <1>8 DEF WithEnd, e
<1>10. WithEnd([f EXCEPT !.merged = <<>>]) \in Record(F)
  BY <1>2, EndedRecord
<1>11. q \in Family(F)
  BY <1>9, <1>10 DEF Family, X
<1>12. OrderingKey(q) = <<f.start, e, Len(f.calls), Len(f.lines), Cardinality(f.sites), Len(f.merged), f.name>>
  BY <1>5, <1>9 DEF OrderingKey
<1>13. OrderingKey(f)[2] <= OrderingKey(q)[2]
  BY <1>6, <1>12 DEF OrderingKey
<1>14. \A i \in 1..7 : i # 2 => OrderingKey(q)[i] = OrderingKey(f)[i]
  <2> SUFFICES ASSUME NEW i \in 1..7, i # 2 PROVE OrderingKey(q)[i] = OrderingKey(f)[i]
    OBVIOUS
  <2>1. i = 1 \/ i = 3 \/ i = 4 \/ i = 5 \/ i = 6 \/ i = 7
    OBVIOUS
  <2> QED BY <1>12, <2>1 DEF OrderingKey
<1> QED
  BY <1>11, <1>13, <1>14 DEF q

LEMMA RepairedTable ==
  ASSUME NEW D, NEW F, Table(D, F), NEW repair
  PROVE  Table(RepairFinalRange(D, repair), F)
<1> DEFINE K == Len(D)
           T == RepairFinalRange(D, repair)
           f == D[K]
           q == Throughout(f, LAMBDA g : [g EXCEPT !.end = RepairedEnd(g.start)])
<1>1. K \in Nat /\ DOMAIN D = 1..K /\ D \in Seq(Family(F)) /\ \A i \in 1..K : D[i] \in Family(F)
  BY TableType DEF Table
<1>2. CASE T = D
  BY <1>2
<1>3. CASE T # D
  <2>1. D # <<>> /\ IsEmpty(f) /\ T = Append(Front(D), q)
    BY <1>3 DEF RepairFinalRange, Last
  <2>2. K > 0 /\ K \in 1..K /\ f \in Family(F)
    <3>1. K # 0
      BY <1>1, <2>1, EmptySeq
    <3> HIDE DEF K
    <3>2. K > 0 /\ K \in 1..K
      BY <1>1, <3>1
    <3> QED BY <1>1, <3>2
  <2> HIDE DEF f
  <2>3. /\ q \in Family(F) /\ OrderingKey(f)[2] <= OrderingKey(q)[2]
        /\ \A i \in 1..7 : i # 2 => OrderingKey(q)[i] = OrderingKey(f)[i]
    BY <2>1, <2>2, EndedFamily
  <2> HIDE DEF q, T
  <2>4. /\ T \in Seq(Family(F)) /\ Len(T) = K /\ T[K] = q
        /\ \A t \in 1..K - 1 : T[t] = D[t]
    <3> DEFINE X == Family(F)
    <3>1. D \in Seq(X) /\ q \in X /\ Len(D) > 0 /\ Len(D) = K
      BY <1>1, <2>2, <2>3
    <3> HIDE DEF X, K
    <3>2. /\ Append(Front(D), q) \in Seq(X) /\ Len(Append(Front(D), q)) = Len(D)
          /\ Append(Front(D), q)[Len(D)] = q
          /\ \A t \in 1..Len(D) - 1 : Append(Front(D), q)[t] = D[t]
      BY <3>1, FrontAppend
    <3> QED BY <2>1, <3>1, <3>2 DEF X
  <2>5. DOMAIN T = 1..K
    BY <2>4, SeqType
  <2> HIDE DEF K
  <2>6. ASSUME NEW t \in 1..K, NEW u \in 1..K, t < u PROVE ~Precedes(OrderingKey(T[u]), OrderingKey(T[t]))
    <3>1. t \in 1..K - 1 /\ (u = K \/ u \in 1..K - 1)
      BY <1>1, <2>6
    <3>2. ~Precedes(OrderingKey(D[u]), OrderingKey(D[t]))
      BY <1>1, <2>6 DEF Table
    <3>3. CASE u \in 1..K - 1
      BY <2>4, <3>1, <3>2, <3>3
    <3>4. CASE u = K
      <4> DEFINE k == OrderingKey(D[t])
                 l == OrderingKey(f)
                 g == OrderingKey(q)
      <4>1. k \in Keys(7) /\ l \in Keys(7) /\ g \in Keys(7)
        BY <1>1, <2>2, <2>3, FamilyType
      <4>2. ~Precedes(l, k)
        BY <3>2, <3>4 DEF f
      <4> HIDE DEF k, l, g
      <4>3. l[2] <= g[2] /\ \A i \in 1..7 : i # 2 => g[i] = l[i]
        BY <2>3 DEF l, g
      <4>4. ~Precedes(g, k)
        BY <4>1, <4>2, <4>3, GrownKey
      <4> QED BY <2>4, <3>1, <3>4, <4>4 DEF g, k
    <3> QED BY <3>1, <3>3, <3>4
  <2>7. Table(T, F)
    BY <2>4, <2>5, <2>6 DEF Table
  <2> QED BY <2>7 DEF T
<1> QED
  BY <1>2, <1>3

LEMMA FinalTable ==
  ASSUME NEW F, NEW added \in Seq(Candidates), \A i \in DOMAIN added : added[i].start <= added[i].end,
         \A f \in Range(added) : \A i \in FileReferences(f) : i < F, NEW policy, NEW repair
  PROVE  Table(Finalize(added, policy, repair), F)
<1> DEFINE n == Len(added)
           S == Sorted(added)
           D == FunctionSet(S, policy)
<1>1. SortedRecords(S, n, F)
  BY SortedRecordsOf
<1>2. Ordered(S, n) /\ Len(S) = n
  BY <1>1 DEF SortedRecords
<1> HIDE DEF S, n
<1>3. CASE policy = "Preserve"
  <2>1. D = S
    BY <1>3 DEF FunctionSet
  <2> QED BY <1>1, <2>1, SortedTable, RepairedTable DEF Finalize, S
<1>4. CASE policy = "MergeEqualRanges"
  <2>1. Merged(S, n, D)
    BY <1>2, <1>4, MergeResult
  <2> HIDE DEF D
  <2>2. Table(D, F)
    BY <1>1, <2>1, MergedTable
  <2>3. Table(RepairFinalRange(D, repair), F)
    BY <2>2, RepairedTable
  <2> QED BY <2>3 DEF Finalize, S, D
<1>5. CASE policy \notin {"Preserve", "MergeEqualRanges"}
  <2>1. Deduplicated(S, n, D)
    BY <1>2, <1>5, DedupResult
  <2> HIDE DEF D
  <2>2. Table(D, F)
    BY <1>1, <2>1, DedupTable
  <2>3. Table(RepairFinalRange(D, repair), F)
    BY <2>2, RepairedTable
  <2> QED BY <2>3 DEF Finalize, S, D
<1> QED
  BY <1>3, <1>4, <1>5

-----------------------------------------------------------------------------
(* The builder. *)

\* What was added is valid, an encoded table is what finalization makes of it and
\* names only files of a builder's list, and a rebuilt one comes from a window of it.
IInv ==
  /\ functions \in Seq(Candidates)
  /\ \A i \in DOMAIN functions : Valid(functions[i])
  /\ FileList(files)
  /\ Encoded =>
       /\ image.functions = Finalize(functions, options.policy, options.repair)
       /\ Sane(image)
  /\ pc = "rebuilt" =>
       /\ window[1] \in DOMAIN image.functions /\ window[2] \in DOMAIN image.functions
       /\ window[1] <= window[2]
       /\ derived = Rebuilt(image, window[1], window[2])

LEMMA FirstFile == FileList(<<EmptyEntry>>)
<1> DEFINE T == <<EmptyEntry>>
<1>1. Len(T) = 1 /\ T[1] = EmptyEntry /\ DOMAIN T = 1..1
  OBVIOUS
<1>2. EmptyEntry \in Range(T)
  BY <1>1 DEF Range
<1>3. T \in Seq(Range(T))
  <2> DEFINE X == Range(T)
  <2>1. EmptyEntry \in X
    BY <1>2
  <2> HIDE DEF X
  <2>2. <<EmptyEntry>> \in Seq(X)
    BY <2>1
  <2> QED BY <2>2 DEF X
<1>4. \A i, j \in 1..1 : i = j
  OBVIOUS
<1> HIDE DEF T
<1> QED
  BY <1>1, <1>3, <1>4 DEF FileList, T

LEMMA FileInterned ==
  ASSUME NEW list, FileList(list), NEW e
  PROVE  FileList(Interned(list, e))
<1> DEFINE L == Len(list)
<1>1. /\ list \in Seq(Range(list)) /\ L \in Nat /\ L > 0 /\ DOMAIN list = 1..L
      /\ list[1] = EmptyEntry /\ \A i, j \in 1..L : list[i] = list[j] => i = j
      /\ \A i \in 1..L : list[i] \in Range(list)
  <2>1. list \in Seq(Range(list))
    BY DEF FileList
  <2>2. L \in Nat /\ DOMAIN list = 1..L /\ \A i \in 1..L : list[i] \in Range(list)
    BY <2>1, SeqType
  <2> QED BY <2>1, <2>2 DEF FileList
<1>2. CASE e \in Range(list)
  BY <1>2 DEF Interned
<1>3. CASE e \notin Range(list)
  <2> DEFINE T == Append(list, e)
             X == Range(list) \cup {e}
  <2> HIDE DEF L, X
  <2>1. list \in Seq(X) /\ e \in X
    <3>1. list = [i \in 1..L |-> list[i]] /\ \A i \in 1..L : list[i] \in X
      BY <1>1 DEF X
    <3> QED BY <1>1, <3>1 DEF X
  <2>2. /\ T \in Seq(X) /\ Len(T) = L + 1 /\ T[L + 1] = e
        /\ \A t \in 1..L : T[t] = list[t]
    BY <2>1, AppendAt DEF L
  <2> HIDE DEF T
  <2>3. DOMAIN T = 1..L + 1 /\ T = [i \in 1..L + 1 |-> T[i]]
    BY <1>1, <2>2, SeqType
  <2>4. \A i \in 1..L + 1 : T[i] \in Range(T)
    BY <2>3 DEF Range
  <2>5. T \in Seq(Range(T))
    <3> DEFINE Y == Range(T)
    <3>1. \A i \in 1..L + 1 : T[i] \in Y
      BY <2>4
    <3> HIDE DEF Y
    <3>2. T \in Seq(Y)
      BY <1>1, <2>3, <3>1
    <3> QED BY <3>2 DEF Y
  <2>6. ASSUME NEW i \in 1..L + 1, NEW j \in 1..L + 1, T[i] = T[j] PROVE i = j
    <3>1. (i \in 1..L \/ i = L + 1) /\ (j \in 1..L \/ j = L + 1)
      BY <1>1
    <3>2. \A k \in 1..L : T[k] # e
      BY <1>1, <1>3, <2>2
    <3> QED BY <1>1, <2>2, <2>6, <3>1, <3>2
  <2>7. T[1] = EmptyEntry /\ Len(T) > 0
    BY <1>1, <2>2
  <2>8. FileList(T)
    BY <2>2, <2>5, <2>6, <2>7 DEF FileList
  <2> QED BY <1>3, <2>8 DEF Interned, T
<1> QED
  BY <1>2, <1>3

LEMMA InitIInv == Init => IInv
<1> SUFFICES ASSUME Init PROVE IInv
  OBVIOUS
<1>1. /\ files = <<EmptyEntry>> /\ functions = <<>> /\ pc = "building"
  BY DEF Init
<1>2. functions \in Seq(Candidates) /\ \A i \in DOMAIN functions : FALSE
  BY <1>1
<1> QED
  BY <1>1, <1>2, FirstFile DEF IInv, Encoded

LEMMA StepIInv == IInv /\ [Next]_vars => IInv'
<1> SUFFICES ASSUME IInv, [Next]_vars PROVE IInv'
  OBVIOUS
<1>1. ASSUME NEW e \in Entries, AddFile(e) PROVE IInv'
  <2>1. /\ files' = Interned(files, e) /\ pc' = "building" /\ functions' = functions
    BY <1>1 DEF AddFile
  <2>2. FileList(files')
    BY <2>1, FileInterned DEF IInv
  <2> QED BY <2>1, <2>2 DEF IInv, Encoded, Valid
<1>2. ASSUME NEW f \in Candidates, AddFunction(f) PROVE IInv'
  <2>1. /\ functions \in Seq(Candidates) /\ functions' = Append(functions, f) /\ Valid(f)
        /\ pc' = "building" /\ files' = files /\ \A i \in DOMAIN functions : Valid(functions[i])
    BY <1>2 DEF AddFunction, IInv
  <2>2. /\ functions' \in Seq(Candidates) /\ Len(functions') = Len(functions) + 1
        /\ functions'[Len(functions) + 1] = f
        /\ \A i \in 1..Len(functions) : functions'[i] = functions[i]
    BY <2>1, AppendAt
  <2>3. ASSUME NEW i \in DOMAIN functions' PROVE Valid(functions'[i])
    <3>1. i \in 1..Len(functions) + 1 /\ DOMAIN functions = 1..Len(functions) /\ Len(functions) \in Nat
      BY <2>1, <2>2, SeqType
    <3>2. i = Len(functions) + 1 \/ i \in 1..Len(functions)
      BY <3>1
    <3> QED BY <2>1, <2>2, <3>1, <3>2
  <2> QED BY <2>1, <2>2, <2>3 DEF IInv, Valid, Encoded, FileList
<1>3. ASSUME Encode PROVE IInv'
  <2> DEFINE table == Finalize(functions, options.policy, options.repair)
             base == IF options.base = Absent THEN table[1].start ELSE options.base
  <2>1. /\ functions \in Seq(Candidates) /\ \A i \in DOMAIN functions : Valid(functions[i])
        /\ FileList(files)
        /\ files' = files /\ functions' = functions /\ options' = options
        /\ \/ /\ \A f \in Range(functions) : \A i \in FileReferences(f) : i < Len(files)
              /\ image' = [base |-> base, files |-> files, functions |-> table]
              /\ pc' = "encoded"
           \/ pc' = "failed"
    BY <1>3 DEF Encode, IInv
  <2>2. CASE pc' = "failed"
    BY <2>1, <2>2 DEF IInv, Encoded, Valid, FileList
  <2>3. CASE pc' = "encoded"
    <3>1. \A f \in Range(functions) : \A i \in FileReferences(f) : i < Len(files)
      BY <2>1, <2>3
    <3>2. \A i \in DOMAIN functions : functions[i].start <= functions[i].end
      BY <2>1 DEF Valid
    <3>3. Table(table, Len(files))
      BY <2>1, <3>1, <3>2, FinalTable
    <3> HIDE DEF table, base
    <3>4. image'.files = files /\ image'.functions = table
      BY <2>1, <2>3
    <3>5. Sane(image')
      BY <2>1, <3>3, <3>4 DEF Sane
    <3>6. image'.functions = Finalize(functions', options'.policy, options'.repair)
      BY <2>1, <3>4 DEF table
    <3>7. FileList(files') /\ \A i \in DOMAIN functions' : Valid(functions'[i])
      BY <2>1
    <3>8. Sane(image)'
      BY <3>5 DEF Sane, FileList, Table
    <3>9. FileList(files)' /\ (\A i \in DOMAIN functions : Valid(functions[i]))'
      BY <3>7 DEF FileList, Valid
    <3> QED BY <2>1, <2>3, <3>6, <3>8, <3>9 DEF IInv
  <2> QED BY <2>1, <2>2, <2>3
<1>4. ASSUME NEW lo \in DOMAIN image.functions, NEW hi \in DOMAIN image.functions, lo <= hi, Rebuild(lo, hi)
      PROVE  IInv'
  <2>1. /\ Encoded /\ derived' = Rebuilt(image, lo, hi) /\ window' = <<lo, hi>> /\ pc' = "rebuilt"
        /\ options' = options /\ files' = files /\ functions' = functions /\ image' = image
    BY <1>4 DEF Rebuild, Encoded
  <2>2. window'[1] = lo /\ window'[2] = hi
    BY <2>1
  <2> QED BY <1>4, <2>1, <2>2 DEF IInv, Valid, Sane, FileList, Table
<1>5. CASE UNCHANGED vars
  BY <1>5 DEF vars, IInv, Valid, Encoded, Sane, FileList, Table
<1> QED
  BY <1>1, <1>2, <1>3, <1>4, <1>5 DEF Next

\* The inductive invariant implies that order is irrelevant: the rearranged
\* functions sort alike, and the rest of finalization sees the sorted table only.
LEMMA OrderFromIInv == IInv => OrderIrrelevant
<1> SUFFICES ASSUME IInv, pc = "encoded",
                    \A f, g \in {Compacted(h) : h \in Range(functions)} :
                      OrderingKey(f) = OrderingKey(g) => f = g,
                    NEW p \in Bijection(DOMAIN functions, DOMAIN functions)
             PROVE  Finalize([i \in DOMAIN functions |-> functions[p[i]]],
                             options.policy, options.repair) = image.functions
  BY DEF OrderIrrelevant
<1>1. Sorted([i \in DOMAIN functions |-> functions[p[i]]]) = Sorted(functions)
  BY SortedForgetsOrder DEF IInv
<1>2. image.functions = Finalize(functions, options.policy, options.repair)
  BY DEF IInv, Encoded
<1> QED
  BY <1>1, <1>2 DEF Finalize

\* It implies that the policy is honoured: finalization is deduplication or
\* merging of the sorted functions, then the repair of the last range.
LEMMA PolicyFromIInv == IInv => PolicyHonoured
<1> SUFFICES ASSUME IInv, Encoded
             PROVE  /\ options.policy = "Deduplicate" => BestAnswers
                    /\ options.policy = "MergeEqualRanges" => AliasesKept
  BY DEF PolicyHonoured
<1>1. /\ functions \in Seq(Candidates) /\ \A i \in DOMAIN functions : Valid(functions[i])
      /\ image.functions =
           RepairFinalRange(FunctionSet(Sorted(functions), options.policy), options.repair)
  BY DEF IInv, Encoded, Finalize
<1> QED
  BY <1>1, DedupAnswersBest, MergeKeepsAliases

\* It implies that a rebuild loses nothing: renumbering is one to one on the files
\* that are used, and what was finalized is a fixed point of finalization.
LEMMA RebuildFromIInv == IInv => RebuildKeeps
<1> SUFFICES ASSUME IInv, pc = "rebuilt"
             PROVE  /\ Described(derived) = SubSeq(Described(image), window[1], window[2])
                    /\ \A i \in 1..Len(derived.files) - 1 :
                         \E f \in Range(derived.functions) : i \in FileReferences(f)
                    /\ Rebuilt(derived, 1, Len(derived.functions)) = derived
  BY DEF RebuildKeeps
<1>1. /\ Sane(image) /\ window[1] \in DOMAIN image.functions /\ window[2] \in DOMAIN image.functions
      /\ window[1] <= window[2] /\ derived = Rebuilt(image, window[1], window[2])
  BY DEF IInv, Encoded
<1>2. /\ Sane(derived)
      /\ Described(derived) = SubSeq(Described(image), window[1], window[2])
      /\ \A k \in 1..Len(derived.files) - 1 : k \in Used(derived.functions)
      /\ derived = [base |-> derived.base, files |-> derived.files, functions |-> derived.functions]
  BY <1>1, RebuiltSays
<1>3. Rebuilt(derived, 1, Len(derived.functions)) = derived
  BY <1>2, RebuiltAgain
<1>4. \A i \in 1..Len(derived.files) - 1 : \E f \in Range(derived.functions) : i \in FileReferences(f)
  BY <1>2 DEF Used, References
<1> QED
  BY <1>2, <1>3, <1>4

\* The order functions were added in does not show in the encoded table, under
\* any policy: sorting rearranges them by keys that tell them apart, and what
\* follows it (deduplication, merging, the repair of the last range) starts from
\* the sorted table.
THEOREM OrderDoesNotMatter == Spec => []OrderIrrelevant
<1>1. Spec => []IInv
  BY InitIInv, StepIInv, PTL DEF Spec
<1> QED
  BY <1>1, OrderFromIInv, PTL

\* A deduplicated table answers every address as the functions that were added
\* answer it, by the nearest start, the smallest covering range and its richest
\* function; a merged table holds every function, and one of each range with the
\* others as its aliases.
THEOREM PolicyIsHonoured == Spec => []PolicyHonoured
<1>1. Spec => []IInv
  BY InitIInv, StepIInv, PTL DEF Spec
<1> QED
  BY <1>1, PolicyFromIInv, PTL

\* A rebuilt window of an encoded table says of each function, aliases included,
\* what the table says, holds no file it does not use, and is rebuilt to itself.
THEOREM RebuildLosesNothing == Spec => []RebuildKeeps
<1>1. Spec => []IInv
  BY InitIInv, StepIInv, PTL DEF Spec
<1> QED
  BY <1>1, RebuildFromIInv, PTL

=============================================================================
