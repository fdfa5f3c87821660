---------------------------- MODULE DwarfReferences ----------------------------
(* Following DWARF references for a name or a declaration line                 *)
(* (src/src/convert/dwarf/references.rs): resolve_name_inner and                *)
(* DeclarationResolver::resolve, with the absolute forms they call, are the    *)
(* same depth-first search over abstract_origin and specification, bounded by  *)
(* a depth and by a set of visited DIEs.                                       *)
(*                                                                             *)
(* The graph is data: what a DIE holds is chosen when it is first read, so     *)
(* every graph over Offsets is explored.  A target outside every unit answers  *)
(* like a DIE that holds nothing.                                              *)
EXTENDS Naturals, Sequences, FiniteSets, SequencesExt

CONSTANTS
    Offsets,    \* positions of DIEs in .debug_info, the same numbers in both files
    Start,      \* position of the DIE the search starts from, in the main file
    Dies,       \* what a DIE can hold
    MaxDepth    \* 64 in the code

Files == {"main", "supplementary"}
NoRef == [kind |-> "none"]
Refs == {NoRef} \union [kind : {"unit", "addr", "sup"}, to : Offsets]

ASSUME StartAssumption == Start \in Offsets
ASSUME DiesAssumption == Dies \subseteq [found : BOOLEAN, refs : [{1, 2} -> Refs]]
ASSUME DepthAssumption == MaxDepth \in Nat \ {0}

Nodes == Files \X Offsets       \* a DIE: its file and position
Keys == Files \X Offsets        \* DieKey: the file it is filed under, position

VARIABLES
    dies,       \* what the DIEs read so far hold
    visited,    \* VisitedDies
    stack,      \* calls: the DIE, the file it is filed under, the attribute next
    answer,     \* none yet, found, nothing, or an error of the reader
    cut         \* the depth limit ended some branch

searchVars == <<dies, visited, stack, answer, cut>>

\* One call of the search.  attribute 0: its DIE has not been read.
Frame(node, filed) == [node |-> node, filed |-> filed, attribute |-> 0]
Frames == [node : Nodes, filed : Files, attribute : 0..3]

Top == stack[Len(stack)]
Depth == Len(stack) - 1
Advanced == [stack EXCEPT ![Len(stack)].attribute = @ + 1]

SearchInit ==
    /\ dies = << >> /\ visited = {} /\ answer = "pending" /\ cut = FALSE
    /\ stack = <<Frame(<<"main", Start>>, "main")>>

\* A call that comes back empty-handed; the caller has moved on already.
Unwind ==
    /\ stack' = Front(stack)
    /\ answer' = IF Len(stack) = 1 THEN "nothing" ELSE answer

Conclude(a) == answer' = a /\ stack' = << >>

Pending == answer = "pending"

Exceeded == Depth >= MaxDepth

TooDeep ==
    /\ Pending /\ Top.attribute = 0 /\ Exceeded
    /\ Unwind /\ cut' = TRUE
    /\ UNCHANGED <<dies, visited>>

Read ==
    /\ Pending /\ Top.attribute = 0 /\ ~Exceeded
    /\ \E d \in IF Top.node \in DOMAIN dies THEN {dies[Top.node]} ELSE Dies :
        /\ dies' = [n \in DOMAIN dies \union {Top.node} |->
                      IF n = Top.node THEN d ELSE dies[n]]
        /\ IF d.found THEN Conclude("found")
           ELSE stack' = Advanced /\ UNCHANGED answer
    /\ UNCHANGED <<visited, cut>>

\* entry() or the scan of the units fails.
ReadFails ==
    /\ Pending /\ Top.attribute = 0
    /\ Conclude("failed")
    /\ UNCHANGED <<dies, visited, cut>>

Following(kind) ==
    /\ Pending /\ Top.attribute \in {1, 2}
    /\ dies[Top.node].refs[Top.attribute].kind = kind

Target == dies[Top.node].refs[Top.attribute].to

\* Mutant: a DIE is known by its position alone.
VisitOffset(node, filed) ==
    IF \E f \in Files : <<f, node[2]>> \in visited
    THEN stack' = Advanced /\ UNCHANGED visited
    ELSE /\ visited' = visited \union {<<filed, node[2]>>}
         /\ stack' = Append(Advanced, Frame(node, filed))

\* Mutant: a reference that was followed already is tried again.
VisitAgain(node, filed) ==
    IF <<filed, node[2]>> \in visited
    THEN UNCHANGED <<stack, visited>>
    ELSE /\ visited' = visited \union {<<filed, node[2]>>}
         /\ stack' = Append(Advanced, Frame(node, filed))

\* A DIE is filed once under its key; only then is it searched.
Visit(node, filed) ==
    IF <<filed, node[2]>> \in visited
    THEN stack' = Advanced /\ UNCHANGED visited
    ELSE /\ visited' = visited \union {<<filed, node[2]>>}
         /\ stack' = Append(Advanced, Frame(node, filed))

SkipAttribute ==
    /\ Following("none")
    /\ stack' = Advanced
    /\ UNCHANGED <<dies, visited, answer, cut>>

\* A reference within the unit is filed as its referrer is.
FollowUnit ==
    /\ Following("unit")
    /\ Visit(<<Top.node[1], Target>>, Top.filed)
    /\ UNCHANGED <<dies, answer, cut>>

\* Mutant: the DIE an absolute reference leads to is not filed.
FollowAddrUnfiled ==
    /\ Following("addr")
    /\ stack' = Append(Advanced, Frame(<<Top.node[1], Target>>, "main"))
    /\ UNCHANGED <<dies, visited, answer, cut>>

\* An absolute reference stays in the referrer's file, and is filed as one of
\* the main file.
FollowAddr ==
    /\ Following("addr")
    /\ Visit(<<Top.node[1], Target>>, "main")
    /\ UNCHANGED <<dies, answer, cut>>

\* The supplementary file has no supplementary file of its own.
FollowSup ==
    /\ Following("sup")
    /\ IF Top.node[1] = "main"
       THEN Visit(<<"supplementary", Target>>, "supplementary")
       ELSE stack' = Advanced /\ UNCHANGED visited
    /\ UNCHANGED <<dies, answer, cut>>

Return ==
    /\ Pending /\ Top.attribute = 3
    /\ Unwind
    /\ UNCHANGED <<dies, visited, cut>>

SearchNext ==
    \/ TooDeep \/ Read \/ ReadFails
    \/ SkipAttribute \/ FollowUnit \/ FollowAddr \/ FollowSup \/ Return

\* The search runs in one thread.
SearchSpec == SearchInit /\ [][SearchNext]_searchVars /\ WF_searchVars(SearchNext)

-----------------------------------------------------------------------------
(* Properties.                                                               *)

RefTypeOK ==
    /\ DOMAIN dies \subseteq Nodes /\ \A n \in DOMAIN dies : dies[n] \in Dies
    /\ visited \subseteq Keys
    /\ stack \in Seq(Frames) /\ Len(stack) <= MaxDepth + 1
    /\ answer \in {"pending", "found", "nothing", "failed"}
    /\ (stack = << >>) = (answer # "pending")
    /\ cut \in BOOLEAN

\* The DIEs a DIE refers to.
Referenced(n) ==
    {<<n[1], r.to>> : r \in {s \in {dies[n].refs[1], dies[n].refs[2]} :
                                s.kind \in {"unit", "addr"}}}
    \union {<<"supplementary", r.to>> : r \in {s \in {dies[n].refs[1], dies[n].refs[2]} :
                                s.kind = "sup" /\ n[1] = "main"}}

\* Everything that can be reached from the start has been read.
Exhausted ==
    /\ <<"main", Start>> \in DOMAIN dies
    /\ \A n \in DOMAIN dies : Referenced(n) \subseteq DOMAIN dies

\* The promise: a search that answers nothing, and was not cut short by the
\* depth, has looked at every DIE that can be reached.
NothingReachable == answer = "nothing" /\ ~cut => Exhausted

\* What holds: the same, as long as no DIE of the supplementary file refers to
\* another by an absolute reference.
NothingReachableInMain ==
    /\ answer = "nothing" /\ ~cut
    /\ \A n \in DOMAIN dies : n[1] = "supplementary" =>
            \A i \in {1, 2} : dies[n].refs[i].kind # "addr"
    => Exhausted

\* A reference cycle is cut: a DIE is searched within its own search at most
\* once, as the one the search started from or under a second key.
CyclesCut ==
    \A i, j, k \in DOMAIN stack :
        i < j /\ j < k => ~(stack[i].node = stack[j].node /\ stack[j].node = stack[k].node)

\* The search ends on every graph, cyclic ones included.
SearchReturns == <>(answer # "pending")
==============================================================================
