------------------------------ MODULE Dwarf_proofs ------------------------------
(***************************************************************************)
(* What reading DWARF promises.  The search over references, for any files,*)
(* any DIEs in them and any depth limit: it knows its limits, it cuts      *)
(* cycles, and when it answers nothing there was nothing to find.  The     *)
(* import of a unit, for any unit and any text: the details come from the  *)
(* first source that can give them, and every live range is imported once, *)
(* in order.                                                               *)
(***************************************************************************)
EXTENDS DwarfReferences, DwarfUnit, FiniteSetTheorems, FunctionTheorems, SequenceTheorems, TLAPS

\* Only a DIE within the depth limit is read, so only such a call goes deeper.
WithinDepth == \A k \in 1..Len(stack) : stack[k].attribute # 0 => k - 1 < MaxDepth

\* Every call but the last has read its DIE and moved on.
ReadBefore ==
  /\ \A k \in 1..Len(stack) : stack[k].attribute # 0 => stack[k].node \in DOMAIN dies
  /\ \A k \in 1..Len(stack) - 1 : stack[k].attribute # 0

TypeInv == RefTypeOK /\ WithinDepth /\ ReadBefore

-----------------------------------------------------------------------------
(* The stack                                                               *)

LEMMA TopOf ==
  ASSUME NEW S, NEW s \in Seq(S), s # <<>>
  PROVE  Len(s) \in Nat \ {0} /\ Len(s) \in 1..Len(s) /\ s[Len(s)] \in S
OBVIOUS

LEMMA FrontOf ==
  ASSUME NEW S, NEW s \in Seq(S), s # <<>>
  PROVE  /\ Front(s) \in Seq(S) /\ Len(Front(s)) = Len(s) - 1
         /\ \A k \in 1..Len(s) - 1 : Front(s)[k] = s[k]
<1>1. Front(s) = [k \in 1..Len(s) - 1 |-> s[k]]
  BY DEF Front
<1>2. Len(s) \in Nat \ {0} /\ \A k \in 1..Len(s) : s[k] \in S
  OBVIOUS
<1>3. Len(s) - 1 \in Nat /\ \A k \in 1..Len(s) - 1 : k \in 1..Len(s)
  BY <1>2
<1> QED
  BY <1>1, <1>2, <1>3

LEMMA AppendOf ==
  ASSUME NEW S, NEW s \in Seq(S), NEW x \in S
  PROVE  /\ Append(s, x) \in Seq(S) /\ Len(Append(s, x)) = Len(s) + 1
         /\ \A k \in 1..Len(s) : Append(s, x)[k] = s[k]
         /\ Append(s, x)[Len(s) + 1] = x
OBVIOUS

\* The call at the top moves on to its next attribute.
LEMMA AdvancedOf ==
  ASSUME stack \in Seq(Frames), stack # <<>>, Top.attribute \in 0..2
  PROVE  /\ Advanced \in Seq(Frames) /\ Len(Advanced) = Len(stack)
         /\ Len(stack) \in Nat \ {0}
         /\ \A k \in 1..Len(stack) - 1 : Advanced[k] = stack[k]
         /\ Advanced[Len(stack)] = [Top EXCEPT !.attribute = @ + 1]
         /\ Advanced[Len(stack)].node = Top.node /\ Advanced[Len(stack)].filed = Top.filed
         /\ Advanced[Len(stack)].attribute = Top.attribute + 1
<1>1. Top \in Frames /\ Len(stack) \in 1..Len(stack) /\ Len(stack) \in Nat \ {0}
  BY TopOf DEF Top
<1>2. Top.node \in Nodes /\ Top.filed \in Files /\ Top.attribute + 1 \in 1..3
  BY <1>1 DEF Frames
<1>3. PICK x : x = [Top EXCEPT !.attribute = @ + 1]
  OBVIOUS
<1>4. x.node = Top.node /\ x.filed = Top.filed /\ x.attribute = Top.attribute + 1 /\ x \in Frames
  BY <1>1, <1>2, <1>3 DEF Frames
<1>5. Advanced = [stack EXCEPT ![Len(stack)] = x]
  BY <1>3 DEF Advanced, Top
<1>6. Advanced \in Seq(Frames) /\ Len(Advanced) = Len(stack)
  BY <1>1, <1>4, <1>5
<1>7. Advanced[Len(stack)] = x /\ \A k \in 1..Len(stack) - 1 : Advanced[k] = stack[k]
  BY <1>1, <1>5
<1> QED
  BY <1>1, <1>3, <1>4, <1>6, <1>7

-----------------------------------------------------------------------------
(* Where an attribute leads                                                *)

\* The DIEs attribute i of DIE n refers to: one or none.
Leads(n, i) ==
  LET r == dies[n].refs[i]
  IN IF r.kind \in {"unit", "addr"} THEN {<<n[1], r.to>>}
     ELSE IF r.kind = "sup" /\ n[1] = "main" THEN {<<"supplementary", r.to>>}
     ELSE {}

FiledAsMain(f) == f.node[1] = "main" => f.filed = "main"
FiledTruly(f) == f.filed = f.node[1]

AttributeStep == SkipAttribute \/ FollowUnit \/ FollowAddr \/ FollowSup

\* The call moves past an attribute that leads to no other DIE.
Passes == stack' = Advanced /\ UNCHANGED visited /\ Leads(Top.node, Top.attribute) = {}

\* Or it visits the one the attribute leads to.
Visits(node, filed) ==
  /\ node \in Nodes /\ filed \in Files
  /\ Leads(Top.node, Top.attribute) = {node}
  /\ FiledAsMain(Top) => FiledAsMain(Frame(node, filed))
  /\ FiledTruly(Top) /\ (Top.node[1] = "supplementary" => dies[Top.node].refs[Top.attribute].kind # "addr")
       => FiledTruly(Frame(node, filed))
  /\ Visit(node, filed)

LEMMA Calling ==
  ASSUME TypeInv, Pending
  PROVE  /\ stack \in Seq(Frames) /\ stack # <<>> /\ Len(stack) \in Nat \ {0}
         /\ Len(stack) \in 1..Len(stack) /\ Top = stack[Len(stack)]
         /\ Top \in Frames /\ Top.node \in Nodes /\ Top.filed \in Files /\ Top.attribute \in 0..3
         /\ Top.node = <<Top.node[1], Top.node[2]>> /\ Top.node[1] \in Files /\ Top.node[2] \in Offsets
<1>1. stack \in Seq(Frames) /\ stack # <<>>
  BY DEF TypeInv, RefTypeOK, Pending
<1>2. Len(stack) \in Nat \ {0} /\ Len(stack) \in 1..Len(stack) /\ Top \in Frames
  BY <1>1, TopOf DEF Top
<1>3. Top.node \in Nodes /\ Top.filed \in Files /\ Top.attribute \in 0..3
  BY <1>2 DEF Frames
<1>4. Top.node = <<Top.node[1], Top.node[2]>> /\ Top.node[1] \in Files /\ Top.node[2] \in Offsets
  BY <1>3 DEF Nodes
<1> QED
  BY <1>1, <1>2, <1>3, <1>4 DEF Top

LEMMA RefTyped ==
  ASSUME TypeInv, NEW n \in DOMAIN dies, NEW i \in {1, 2}
  PROVE  /\ n \in Nodes /\ n = <<n[1], n[2]>> /\ n[1] \in Files
         /\ dies[n].refs[i].kind \in {"none", "unit", "addr", "sup"}
         /\ dies[n].refs[i].kind # "none" => dies[n].refs[i].to \in Offsets
<1>1. n \in Nodes /\ dies[n].refs[i] \in Refs
  BY DiesAssumption DEF TypeInv, RefTypeOK
<1>2. n = <<n[1], n[2]>> /\ n[1] \in Files
  BY <1>1 DEF Nodes
<1>3. CASE dies[n].refs[i] = NoRef
  BY <1>1, <1>2, <1>3 DEF NoRef
<1>4. CASE dies[n].refs[i] \in [kind : {"unit", "addr", "sup"}, to : Offsets]
  BY <1>1, <1>2, <1>4
<1> QED
  BY <1>1, <1>3, <1>4 DEF Refs

LEMMA AttributeMoves ==
  ASSUME TypeInv, AttributeStep
  PROVE  /\ Pending /\ Top.attribute \in {1, 2} /\ Top.node \in DOMAIN dies
         /\ UNCHANGED <<dies, answer, cut>>
         /\ Passes \/ \E node \in Nodes, filed \in Files : Visits(node, filed)
<1>1. /\ Pending /\ Top.attribute \in {1, 2} /\ UNCHANGED <<dies, answer, cut>>
  BY DEF AttributeStep, SkipAttribute, FollowUnit, FollowAddr, FollowSup, Following
<1>2. /\ Top.node \in Nodes /\ Top.filed \in Files /\ Top.node[1] \in Files
      /\ Len(stack) \in 1..Len(stack) /\ Top = stack[Len(stack)]
  BY <1>1, Calling
<1>3. Top.node \in DOMAIN dies
  BY <1>1, <1>2 DEF TypeInv, ReadBefore
<1>4. PICK r : r = dies[Top.node].refs[Top.attribute]
  OBVIOUS
<1>5. r.kind # "none" => r.to \in Offsets
  BY <1>1, <1>3, <1>4, RefTyped
<1>6. CASE SkipAttribute
  BY <1>1, <1>3, <1>6 DEF SkipAttribute, Following, Passes, Leads
<1>7. CASE FollowUnit
  <2>1. r.kind = "unit" /\ Target = r.to /\ Visit(<<Top.node[1], r.to>>, Top.filed)
    BY <1>4, <1>7 DEF FollowUnit, Following, Target
  <2>2. <<Top.node[1], r.to>> \in Nodes
    BY <1>2, <1>5, <2>1 DEF Nodes
  <2>3. Visits(<<Top.node[1], r.to>>, Top.filed)
    BY <1>2, <1>4, <2>1, <2>2 DEF Visits, Leads, FiledAsMain, FiledTruly, Frame
  <2> QED BY <1>1, <1>2, <1>3, <2>2, <2>3
<1>8. CASE FollowAddr
  <2>1. r.kind = "addr" /\ Target = r.to /\ Visit(<<Top.node[1], r.to>>, "main")
    BY <1>4, <1>8 DEF FollowAddr, Following, Target
  <2>2. <<Top.node[1], r.to>> \in Nodes /\ "main" \in Files
    BY <1>2, <1>5, <2>1 DEF Nodes, Files
  <2>3. Visits(<<Top.node[1], r.to>>, "main")
    BY <1>2, <1>4, <2>1, <2>2 DEF Visits, Leads, FiledAsMain, FiledTruly, Frame, Files
  <2> QED BY <1>1, <1>3, <2>2, <2>3
<1>9. CASE FollowSup /\ Top.node[1] = "main"
  <2>1. r.kind = "sup" /\ Target = r.to /\ Visit(<<"supplementary", r.to>>, "supplementary")
    BY <1>4, <1>9 DEF FollowSup, Following, Target
  <2>2. <<"supplementary", r.to>> \in Nodes /\ "supplementary" \in Files
    BY <1>5, <2>1 DEF Nodes, Files
  <2>3. Visits(<<"supplementary", r.to>>, "supplementary")
    BY <1>4, <1>9, <2>1, <2>2 DEF Visits, Leads, FiledAsMain, FiledTruly, Frame
  <2> QED BY <1>1, <1>3, <2>2, <2>3
<1>10. CASE FollowSup /\ Top.node[1] # "main"
  BY <1>1, <1>3, <1>10 DEF FollowSup, Following, Passes, Leads
<1> QED
  BY <1>6, <1>7, <1>8, <1>9, <1>10 DEF AttributeStep

-----------------------------------------------------------------------------
(* Types and limits                                                        *)

LEMMA TypeInit == SearchInit => TypeInv
<1> SUFFICES ASSUME SearchInit PROVE TypeInv
  OBVIOUS
<1>1. PICK f : f = Frame(<<"main", Start>>, "main")
  OBVIOUS
<1>2. f \in Frames /\ f.attribute = 0
  BY <1>1, StartAssumption DEF Frame, Frames, Nodes, Files
<1>3. stack = <<f>> /\ stack \in Seq(Frames) /\ Len(stack) = 1 /\ stack[1] = f /\ stack # <<>>
  BY <1>1, <1>2 DEF SearchInit
<1>4. RefTypeOK
  <2>1. DOMAIN dies = {}
    BY DEF SearchInit
  <2>2. (stack = <<>>) = (answer # "pending")
    BY <1>3 DEF SearchInit
  <2>3. Len(stack) <= MaxDepth + 1
    BY <1>3, DepthAssumption
  <2> QED BY <1>3, <2>1, <2>2, <2>3 DEF SearchInit, RefTypeOK
<1>5. WithinDepth /\ ReadBefore
  BY <1>2, <1>3 DEF WithinDepth, ReadBefore
<1> QED
  BY <1>4, <1>5 DEF TypeInv

\* A call comes back, to a call that has moved on.
LEMMA UnwindTyped ==
  ASSUME TypeInv, Pending, Unwind, UNCHANGED <<dies, visited>>, cut' \in BOOLEAN
  PROVE  TypeInv'
<1>1. /\ stack \in Seq(Frames) /\ stack # <<>> /\ Len(stack) \in Nat \ {0}
  BY Calling
<1>2. /\ stack' \in Seq(Frames) /\ Len(stack') = Len(stack) - 1
      /\ \A k \in 1..Len(stack) - 1 : stack'[k] = stack[k]
  BY <1>1, FrontOf DEF Unwind
<1>3. (stack' = <<>>) = (answer' # "pending") /\ answer' \in {"pending", "found", "nothing", "failed"}
  <2>1. (stack' = <<>>) <=> Len(stack') = 0
    BY <1>2
  <2>2. Len(stack') = 0 <=> Len(stack) = 1
    BY <1>1, <1>2
  <2> QED BY <2>1, <2>2 DEF Unwind, Pending
<1>4. Len(stack') <= MaxDepth + 1
  BY <1>1, <1>2, DepthAssumption DEF TypeInv, RefTypeOK
<1>5. RefTypeOK'
  BY <1>2, <1>3, <1>4 DEF TypeInv, RefTypeOK
<1>6. WithinDepth'
  BY <1>1, <1>2 DEF TypeInv, WithinDepth
<1>7. ReadBefore'
  BY <1>1, <1>2 DEF TypeInv, ReadBefore
<1> QED
  BY <1>5, <1>6, <1>7 DEF TypeInv

LEMMA FinishTyped ==
  ASSUME TypeInv, NEW a \in {"found", "failed"}, Conclude(a), UNCHANGED <<visited, cut>>,
         DOMAIN dies' \subseteq Nodes /\ \A n \in DOMAIN dies' : dies'[n] \in Dies
  PROVE  TypeInv'
<1>1. stack' = <<>> /\ stack' \in Seq(Frames) /\ Len(stack') = 0
  BY DEF Conclude
<1>2. RefTypeOK'
  BY <1>1, DepthAssumption DEF TypeInv, RefTypeOK, Conclude
<1>3. WithinDepth' /\ ReadBefore'
  BY <1>1 DEF WithinDepth, ReadBefore
<1> QED
  BY <1>2, <1>3 DEF TypeInv

\* The call reads its DIE, or moves past an attribute.
LEMMA AdvanceTyped ==
  ASSUME TypeInv, Pending, Top.attribute \in 0..2, stack' = Advanced, UNCHANGED <<visited, answer, cut>>,
         Top.attribute = 0 => ~Exceeded,
         DOMAIN dies' \subseteq Nodes /\ \A n \in DOMAIN dies' : dies'[n] \in Dies,
         DOMAIN dies \subseteq DOMAIN dies' /\ Top.node \in DOMAIN dies'
  PROVE  TypeInv'
<1>1. /\ stack \in Seq(Frames) /\ stack # <<>> /\ Len(stack) \in Nat \ {0} /\ Top = stack[Len(stack)]
      /\ Len(stack) \in 1..Len(stack)
  BY Calling
<1>2. /\ stack' \in Seq(Frames) /\ Len(stack') = Len(stack)
      /\ \A k \in 1..Len(stack) - 1 : stack'[k] = stack[k]
      /\ stack'[Len(stack)].node = Top.node
  BY <1>1, AdvancedOf
<1>3. RefTypeOK'
  <2>1. stack' # <<>>
    BY <1>1, <1>2
  <2> QED BY <1>2, <2>1 DEF TypeInv, RefTypeOK, Pending
<1>4. \A k \in 1..Len(stack) : k = Len(stack) \/ k \in 1..Len(stack) - 1
  BY <1>1
<1>5. Len(stack) - 1 < MaxDepth
  <2>1. CASE Top.attribute = 0
    BY <1>1, <2>1, DepthAssumption DEF Exceeded, Depth
  <2>2. CASE Top.attribute # 0
    BY <1>1, <2>2 DEF TypeInv, WithinDepth
  <2> QED BY <2>1, <2>2
<1>6. WithinDepth'
  BY <1>1, <1>2, <1>4, <1>5 DEF TypeInv, WithinDepth
<1>7. ReadBefore'
  BY <1>1, <1>2, <1>4 DEF TypeInv, ReadBefore
<1> QED
  BY <1>3, <1>6, <1>7 DEF TypeInv

\* The call goes one level deeper.
LEMMA PushTyped ==
  ASSUME TypeInv, Pending, Top.attribute \in {1, 2}, NEW node \in Nodes, NEW filed \in Files,
         stack' = Append(Advanced, Frame(node, filed)), visited' = visited \union {<<filed, node[2]>>},
         UNCHANGED <<dies, answer, cut>>
  PROVE  TypeInv'
<1>1. /\ stack \in Seq(Frames) /\ stack # <<>> /\ Len(stack) \in Nat \ {0} /\ Top = stack[Len(stack)]
      /\ Len(stack) \in 1..Len(stack)
  BY Calling
<1>2. PICK s : s = Advanced
  OBVIOUS
<1>3. /\ s \in Seq(Frames) /\ Len(s) = Len(stack)
      /\ \A k \in 1..Len(stack) - 1 : s[k] = stack[k]
      /\ s[Len(stack)].node = Top.node /\ s[Len(stack)].attribute = Top.attribute + 1
  BY <1>1, <1>2, AdvancedOf
<1>4. PICK f : f = Frame(node, filed)
  OBVIOUS
<1>5. f \in Frames /\ f.attribute = 0
  BY <1>4 DEF Frame, Frames
<1>6. /\ stack' \in Seq(Frames) /\ Len(stack') = Len(stack) + 1
      /\ \A k \in 1..Len(stack) : stack'[k] = s[k]
      /\ stack'[Len(stack) + 1] = f
  BY <1>2, <1>3, <1>4, <1>5, AppendOf
<1>7. Len(stack) - 1 < MaxDepth
  BY <1>1 DEF TypeInv, WithinDepth
<1>8. <<filed, node[2]>> \in Keys
  BY DEF Keys, Nodes
<1>9. RefTypeOK'
  <2>1. stack' # <<>> /\ Len(stack') <= MaxDepth + 1
    BY <1>1, <1>6, <1>7, DepthAssumption
  <2> QED BY <1>6, <1>8, <2>1 DEF TypeInv, RefTypeOK, Pending
<1>10. \A k \in 1..Len(stack) + 1 : k = Len(stack) + 1 \/ k = Len(stack) \/ k \in 1..Len(stack) - 1
  BY <1>1
<1>11. WithinDepth'
  BY <1>1, <1>3, <1>5, <1>6, <1>7, <1>10 DEF TypeInv, WithinDepth
<1>12. ReadBefore'
  <2>1. Top.node \in DOMAIN dies /\ Top.attribute # 0
    BY <1>1 DEF TypeInv, ReadBefore
  <2>2. \A k \in 1..Len(stack) : stack'[k].node = stack[k].node /\ stack'[k].node \in DOMAIN dies
                                /\ stack'[k].attribute # 0
    BY <1>1, <1>3, <1>6, <1>10, <2>1 DEF TypeInv, ReadBefore
  <2> QED BY <1>1, <1>5, <1>6, <1>10, <2>2 DEF ReadBefore
<1> QED
  BY <1>9, <1>11, <1>12 DEF TypeInv

LEMMA ReadTyped ==
  ASSUME TypeInv, Read
  PROVE  /\ Pending /\ Top.attribute = 0 /\ UNCHANGED <<visited, cut>>
         /\ DOMAIN dies' = DOMAIN dies \union {Top.node}
         /\ \A n \in DOMAIN dies : dies'[n] = dies[n]
         /\ DOMAIN dies' \subseteq Nodes /\ \A n \in DOMAIN dies' : dies'[n] \in Dies
         /\ Conclude("found") \/ (stack' = Advanced /\ UNCHANGED answer)
         /\ TypeInv'
<1>1. /\ Pending /\ Top.attribute = 0 /\ ~Exceeded /\ UNCHANGED <<visited, cut>>
  BY DEF Read
<1>2. Top.node \in Nodes
  BY <1>1, Calling
<1>3. DOMAIN dies \subseteq Nodes /\ \A n \in DOMAIN dies : dies[n] \in Dies
  BY DEF TypeInv, RefTypeOK
<1>4. PICK d \in Dies :
        /\ dies' = [n \in DOMAIN dies \union {Top.node} |-> IF n = Top.node THEN d ELSE dies[n]]
        /\ Top.node \in DOMAIN dies => d = dies[Top.node]
        /\ Conclude("found") \/ (stack' = Advanced /\ UNCHANGED answer)
  BY <1>3 DEF Read
<1>5. /\ DOMAIN dies' = DOMAIN dies \union {Top.node}
      /\ \A n \in DOMAIN dies : dies'[n] = dies[n]
      /\ DOMAIN dies' \subseteq Nodes /\ \A n \in DOMAIN dies' : dies'[n] \in Dies
  BY <1>2, <1>3, <1>4
<1>6. TypeInv'
  <2>1. CASE Conclude("found")
    BY <1>1, <1>5, <2>1, FinishTyped
  <2>2. CASE stack' = Advanced /\ UNCHANGED answer
    BY <1>1, <1>5, <2>2, AdvanceTyped
  <2> QED BY <1>4, <2>1, <2>2
<1> QED
  BY <1>1, <1>4, <1>5, <1>6

LEMMA AttributeTyped ==
  ASSUME TypeInv, AttributeStep
  PROVE  TypeInv'
<1>1. /\ Pending /\ Top.attribute \in {1, 2} /\ Top.node \in DOMAIN dies
      /\ UNCHANGED <<dies, answer, cut>>
      /\ Passes \/ \E node \in Nodes, filed \in Files : Visits(node, filed)
  BY AttributeMoves
<1>2. ASSUME stack' = Advanced, UNCHANGED visited PROVE TypeInv'
  <2>1. DOMAIN dies \subseteq Nodes /\ \A n \in DOMAIN dies : dies[n] \in Dies
    BY DEF TypeInv, RefTypeOK
  <2> QED BY <1>1, <1>2, <2>1, AdvanceTyped
<1>3. ASSUME NEW node \in Nodes, NEW filed \in Files, Visits(node, filed) PROVE TypeInv'
  BY <1>1, <1>2, <1>3, PushTyped DEF Visits, Visit
<1> QED
  BY <1>1, <1>2, <1>3 DEF Passes

LEMMA TypeNext == TypeInv /\ [SearchNext]_searchVars => TypeInv'
<1> SUFFICES ASSUME TypeInv, [SearchNext]_searchVars PROVE TypeInv'
  OBVIOUS
<1>1. CASE UNCHANGED searchVars
  BY <1>1 DEF searchVars, TypeInv, RefTypeOK, WithinDepth, ReadBefore
<1>2. CASE TooDeep \/ Return
  <2>1. cut \in BOOLEAN
    BY DEF TypeInv, RefTypeOK
  <2> QED BY <1>2, <2>1, UnwindTyped DEF TooDeep, Return
<1>3. CASE Read
  BY <1>3, ReadTyped
<1>4. CASE ReadFails
  <2>1. DOMAIN dies \subseteq Nodes /\ \A n \in DOMAIN dies : dies[n] \in Dies
    BY DEF TypeInv, RefTypeOK
  <2> QED BY <1>4, <2>1, FinishTyped DEF ReadFails
<1>5. CASE AttributeStep
  BY <1>5, AttributeTyped
<1> QED
  BY <1>1, <1>2, <1>3, <1>4, <1>5 DEF SearchNext, AttributeStep

LEMMA TypeAlways == SearchSpec => []TypeInv
BY TypeInit, TypeNext, PTL DEF SearchSpec

\* Every state of the search is well typed: for any limit, no more calls are
\* open than it allows and one that notices it.
THEOREM DepthIsBounded == SearchSpec => []RefTypeOK
<1>1. TypeInv => RefTypeOK
  BY DEF TypeInv
<1> QED
  BY <1>1, TypeAlways, PTL

-----------------------------------------------------------------------------
(* Cycles.  A call but the first is filed under a key of its own.  A DIE   *)
(* of the main file has one key, one of the supplementary file two, and    *)
(* the search does not start there.                                        *)

KeyOf(f) == <<f.filed, f.node[2]>>

KeysOnce ==
  /\ \A k \in 1..Len(stack) : FiledAsMain(stack[k])
  /\ \A k \in 1..Len(stack) : k = 1 => stack[k].node[1] = "main"
  /\ \A k \in 1..Len(stack) : k # 1 => KeyOf(stack[k]) \in visited
  /\ \A j, k \in 1..Len(stack) : j # 1 /\ j < k => KeyOf(stack[j]) # KeyOf(stack[k])

\* A stack that holds the same DIEs, under the same keys, or fewer of them.
LEMMA FewerKeys ==
  ASSUME KeysOnce, Len(stack) \in Nat, Len(stack') \in Nat, Len(stack') <= Len(stack), visited' = visited,
         \A k \in 1..Len(stack') : stack'[k].node = stack[k].node /\ stack'[k].filed = stack[k].filed
  PROVE  KeysOnce'
<1>1. \A k \in 1..Len(stack') : k \in 1..Len(stack)
  OBVIOUS
<1>2. \A k \in 1..Len(stack') : KeyOf(stack'[k]) = KeyOf(stack[k])
  BY DEF KeyOf
<1>3. \A k \in 1..Len(stack') : FiledAsMain(stack'[k])
  BY <1>1 DEF KeysOnce, FiledAsMain
<1> QED
  BY <1>1, <1>2, <1>3 DEF KeysOnce

LEMMA KeysNext == TypeInv /\ KeysOnce /\ [SearchNext]_searchVars => KeysOnce'
<1> SUFFICES ASSUME TypeInv, KeysOnce, [SearchNext]_searchVars PROVE KeysOnce'
  OBVIOUS
<1>1. CASE UNCHANGED searchVars
  BY <1>1 DEF searchVars, KeysOnce
<1>2. ASSUME Pending, stack' = Advanced, UNCHANGED visited, Top.attribute \in 0..2
      PROVE  KeysOnce'
  <2>1. /\ stack \in Seq(Frames) /\ stack # <<>> /\ Len(stack) \in Nat \ {0} /\ Top = stack[Len(stack)]
        /\ Len(stack') = Len(stack)
        /\ \A k \in 1..Len(stack) - 1 : stack'[k] = stack[k]
        /\ stack'[Len(stack)].node = Top.node /\ stack'[Len(stack)].filed = Top.filed
    BY <1>2, Calling, AdvancedOf
  <2>2. \A k \in 1..Len(stack) : k = Len(stack) \/ k \in 1..Len(stack) - 1
    BY <2>1
  <2>3. \A k \in 1..Len(stack') : stack'[k].node = stack[k].node /\ stack'[k].filed = stack[k].filed
    BY <2>1, <2>2
  <2> QED BY <1>2, <2>1, <2>3, FewerKeys
<1>3. ASSUME Pending, Unwind, UNCHANGED visited PROVE KeysOnce'
  <2>1. /\ stack \in Seq(Frames) /\ stack # <<>> /\ Len(stack) \in Nat \ {0}
        /\ Len(stack') = Len(stack) - 1 /\ \A k \in 1..Len(stack) - 1 : stack'[k] = stack[k]
    BY <1>3, Calling, FrontOf DEF Unwind
  <2>2. \A k \in 1..Len(stack') : stack'[k].node = stack[k].node /\ stack'[k].filed = stack[k].filed
    BY <2>1
  <2>3. Len(stack) \in Nat /\ Len(stack') \in Nat /\ Len(stack') <= Len(stack)
    BY <2>1
  <2> QED BY <1>3, <2>2, <2>3, FewerKeys
<1>4. ASSUME stack' = <<>> PROVE KeysOnce'
  <2>1. Len(stack') = 0
    BY <1>4
  <2> QED BY <2>1 DEF KeysOnce
<1>5. ASSUME AttributeStep, NEW node \in Nodes, NEW filed \in Files, Visits(node, filed),
             <<filed, node[2]>> \notin visited
      PROVE  KeysOnce'
  <2>1. /\ stack \in Seq(Frames) /\ stack # <<>> /\ Len(stack) \in Nat \ {0} /\ Top = stack[Len(stack)]
        /\ Len(stack) \in 1..Len(stack) /\ Top.attribute \in {1, 2}
    BY <1>5, AttributeMoves, Calling
  <2>2. PICK s : s = Advanced
    OBVIOUS
  <2>3. /\ s \in Seq(Frames) /\ Len(s) = Len(stack)
        /\ \A k \in 1..Len(stack) - 1 : s[k] = stack[k]
        /\ s[Len(stack)].node = Top.node /\ s[Len(stack)].filed = Top.filed
    BY <2>1, <2>2, AdvancedOf
  <2>4. PICK f : f = Frame(node, filed)
    OBVIOUS
  <2>5. f \in Frames /\ KeyOf(f) = <<filed, node[2]>>
    BY <2>4 DEF Frame, Frames, KeyOf
  <2>6. /\ Len(stack') = Len(stack) + 1 /\ visited' = visited \union {KeyOf(f)}
        /\ \A k \in 1..Len(stack) : stack'[k] = s[k]
        /\ stack'[Len(stack) + 1] = f
    <3>1. stack' = Append(s, f) /\ visited' = visited \union {KeyOf(f)}
      BY <1>5, <2>2, <2>4, <2>5 DEF Visits, Visit
    <3> QED BY <2>3, <2>5, <3>1, AppendOf
  <2>7. \A k \in 1..Len(stack) : k = Len(stack) \/ k \in 1..Len(stack) - 1
    BY <2>1
  <2>8. \A k \in 1..Len(stack) : stack'[k].node = stack[k].node /\ stack'[k].filed = stack[k].filed
    BY <2>1, <2>3, <2>6, <2>7
  <2>9. \A k \in 1..Len(stack) : KeyOf(stack'[k]) = KeyOf(stack[k])
    BY <2>8 DEF KeyOf
  <2>10. FiledAsMain(f)
    BY <1>5, <2>1, <2>4 DEF Visits, KeysOnce
  <2>11. \A k \in 1..Len(stack) : FiledAsMain(stack'[k])
    BY <2>8 DEF KeysOnce, FiledAsMain
  <2>12. \A k \in 1..Len(stack') : k \in 1..Len(stack) \/ (k = Len(stack) + 1 /\ k # 1)
    BY <2>1, <2>6
  <2>13. KeyOf(f) \notin visited
    BY <1>5, <2>5
  <2>14. \A k \in 1..Len(stack') : FiledAsMain(stack'[k])
    BY <2>6, <2>10, <2>11, <2>12
  <2>15. \A k \in 1..Len(stack') : k = 1 => stack'[k].node[1] = "main"
    BY <2>8, <2>12 DEF KeysOnce
  <2>16. \A k \in 1..Len(stack') : k # 1 => KeyOf(stack'[k]) \in visited'
    BY <2>6, <2>9, <2>12 DEF KeysOnce
  <2>17. ASSUME NEW j \in 1..Len(stack'), NEW k \in 1..Len(stack'), j # 1, j < k
         PROVE  KeyOf(stack'[j]) # KeyOf(stack'[k])
    <3>1. j \in 1..Len(stack)
      BY <2>1, <2>6, <2>17
    <3>2. CASE k \in 1..Len(stack)
      BY <2>9, <2>17, <3>1, <3>2 DEF KeysOnce
    <3>3. CASE k = Len(stack) + 1
      <4>1. KeyOf(stack'[k]) = KeyOf(f) /\ KeyOf(stack'[j]) \in visited
        BY <2>6, <2>9, <2>17, <3>1, <3>3 DEF KeysOnce
      <4> QED BY <2>13, <4>1
    <3> QED BY <2>12, <3>2, <3>3
  <2> QED BY <2>14, <2>15, <2>16, <2>17 DEF KeysOnce
<1>6. CASE AttributeStep
  <2>1. /\ Pending /\ Top.attribute \in {1, 2}
        /\ Passes \/ \E node \in Nodes, filed \in Files : Visits(node, filed)
    BY <1>6, AttributeMoves
  <2>2. ASSUME NEW node \in Nodes, NEW filed \in Files, Visits(node, filed)
        PROVE  KeysOnce'
    <3>1. CASE <<filed, node[2]>> \notin visited
      BY <1>5, <1>6, <2>2, <3>1
    <3>2. CASE <<filed, node[2]>> \in visited
      BY <1>2, <2>1, <2>2, <3>2 DEF Visits, Visit
    <3> QED BY <3>1, <3>2
  <2> QED BY <1>2, <2>1, <2>2 DEF Passes
<1>7. CASE Read
  BY <1>2, <1>4, <1>7, ReadTyped DEF Conclude
<1> QED
  BY <1>1, <1>3, <1>4, <1>6, <1>7 DEF SearchNext, AttributeStep, TooDeep, Return, ReadFails, Conclude

LEMMA KeysAlways == SearchSpec => []KeysOnce
<1>1. SearchInit => KeysOnce
  <2> SUFFICES ASSUME SearchInit PROVE KeysOnce
    OBVIOUS
  <2>1. Len(stack) = 1 /\ stack[1].node[1] = "main" /\ stack[1].filed = "main"
    BY DEF SearchInit, Frame
  <2> QED BY <2>1 DEF KeysOnce, FiledAsMain
<1> QED
  BY <1>1, TypeAlways, KeysNext, PTL DEF SearchSpec

\* For any references, cycles among them: a DIE is open at most twice at once,
\* so no cycle is gone round.
THEOREM CyclesAreCut == SearchSpec => []CyclesCut
<1>1. ASSUME TypeInv, KeysOnce PROVE CyclesCut
  <2> SUFFICES ASSUME NEW i \in DOMAIN stack, NEW j \in DOMAIN stack, NEW k \in DOMAIN stack,
                      i < j, j < k, stack[i].node = stack[j].node, stack[j].node = stack[k].node
               PROVE  FALSE
    BY DEF CyclesCut
  <2>1. DOMAIN stack = 1..Len(stack) /\ Len(stack) \in Nat /\ stack \in Seq(Frames)
    BY <1>1 DEF TypeInv, RefTypeOK
  <2>2. j # 1 /\ k # 1 /\ i < k
    BY <2>1
  <2>3. stack[i].filed \in Files /\ stack[j].filed \in Files /\ stack[k].filed \in Files
    <3>1. \A m \in DOMAIN stack : stack[m] \in Frames
      BY <2>1
    <3>2. stack[i] \in Frames /\ stack[j] \in Frames /\ stack[k] \in Frames
      BY <3>1
    <3> QED BY <3>2 DEF Frames
  <2>4. stack[j].filed # stack[k].filed
    BY <1>1, <2>1, <2>2 DEF KeysOnce, KeyOf
  <2>5. stack[j].node[1] # "main"
    BY <1>1, <2>1, <2>4 DEF KeysOnce, FiledAsMain
  <2>6. i # 1
    BY <1>1, <2>1, <2>5 DEF KeysOnce
  <2>7. stack[i].filed # stack[j].filed /\ stack[i].filed # stack[k].filed
    BY <1>1, <2>1, <2>2, <2>6 DEF KeysOnce, KeyOf
  <2> QED BY <2>3, <2>4, <2>7 DEF Files
<1> QED
  BY <1>1, TypeAlways, KeysAlways, PTL

-----------------------------------------------------------------------------
(* What an answer of nothing is worth.  As long as every DIE is filed      *)
(* under its own file, the first DIE and those visited are read or about   *)
(* to be, and a DIE that was read has had its attributes followed up to    *)
(* where its call is; when the first call comes back there is none left.   *)

NoSupplementaryAddr ==
  \A n \in DOMAIN dies : n[1] = "supplementary" =>
     \A i \in {1, 2} : dies[n].refs[i].kind # "addr"

FiledByFile == \A k \in 1..Len(stack) : FiledTruly(stack[k])

\* A call on DIE n has not come to attribute i yet, or is at it.
Awaits(n, i) == \E k \in 1..Len(stack) : stack[k].node = n /\ stack[k].attribute \in 1..i

ToBeRead(v) == v \in DOMAIN dies \/ (Pending /\ Top.node = v /\ Top.attribute = 0)

Met == visited \union {<<"main", Start>>}

Explored ==
  /\ FiledByFile
  /\ \A v \in Met : ToBeRead(v)
  /\ \A n \in DOMAIN dies : \A i \in {1, 2} : Leads(n, i) \subseteq visited \/ Awaits(n, i)

Explores == answer \in {"pending", "nothing"} /\ ~cut /\ NoSupplementaryAddr => Explored

\* A call that moves on is still awaited, but at the attribute it was at.
LEMMA StillAwaits ==
  ASSUME TypeInv, Pending, Len(stack') \in Nat, Len(stack) <= Len(stack'),
         \A k \in 1..Len(stack) - 1 : stack'[k] = stack[k],
         stack'[Len(stack)].node = Top.node, stack'[Len(stack)].attribute = Top.attribute + 1,
         NEW n, NEW i \in {1, 2}, Awaits(n, i)
  PROVE  Awaits(n, i)' \/ (n = Top.node /\ i = Top.attribute)
<1>1. /\ Len(stack) \in Nat \ {0} /\ Len(stack) \in 1..Len(stack) /\ Top = stack[Len(stack)]
      /\ Top.attribute \in 0..3
  BY Calling
<1>2. PICK k \in 1..Len(stack) : stack[k].node = n /\ stack[k].attribute \in 1..i
  BY DEF Awaits
<1>3. k \in 1..Len(stack')
  BY <1>1
<1>4. CASE k \in 1..Len(stack) - 1
  BY <1>2, <1>3, <1>4 DEF Awaits
<1>5. CASE k = Len(stack)
  <2>1. Top.node = n /\ Top.attribute \in 1..i
    BY <1>1, <1>2, <1>5
  <2>2. Top.attribute = i \/ Top.attribute + 1 \in 1..i
    BY <1>1, <2>1
  <2> QED BY <1>3, <1>5, <2>1, <2>2 DEF Awaits
<1> QED
  BY <1>1, <1>4, <1>5

\* What is filed under its own file is filed as the DIE it is.
LEMMA KeyIsNode ==
  ASSUME NEW node \in Nodes, NEW filed, FiledTruly(Frame(node, filed))
  PROVE  <<filed, node[2]>> = node
<1>1. node = <<node[1], node[2]>>
  BY DEF Nodes
<1> QED
  BY <1>1 DEF FiledTruly, Frame

LEMMA ExploredAttribute ==
  ASSUME TypeInv, Explored, NoSupplementaryAddr, AttributeStep
  PROVE  Explored'
<1>1. /\ Pending /\ Pending' /\ Top.attribute \in {1, 2} /\ Top.node \in DOMAIN dies
      /\ UNCHANGED <<dies, answer, cut>>
      /\ Passes \/ \E node \in Nodes, filed \in Files : Visits(node, filed)
  BY AttributeMoves DEF Pending
<1>2. /\ stack \in Seq(Frames) /\ stack # <<>> /\ Len(stack) \in Nat \ {0} /\ Top = stack[Len(stack)]
      /\ Len(stack) \in 1..Len(stack)
  BY <1>1, Calling
<1>3. PICK s : s = Advanced
  OBVIOUS
<1>4. /\ s \in Seq(Frames) /\ Len(s) = Len(stack)
      /\ \A k \in 1..Len(stack) - 1 : s[k] = stack[k]
      /\ s[Len(stack)].node = Top.node /\ s[Len(stack)].filed = Top.filed
      /\ s[Len(stack)].attribute = Top.attribute + 1
  BY <1>1, <1>2, <1>3, AdvancedOf
<1>5. \A k \in 1..Len(stack) : k = Len(stack) \/ k \in 1..Len(stack) - 1
  BY <1>2
<1>6. \A k \in 1..Len(stack) : FiledTruly(s[k])
  BY <1>2, <1>4, <1>5 DEF Explored, FiledByFile, FiledTruly
<1>7. \A v \in Met : v \in DOMAIN dies
  BY <1>1 DEF Explored, ToBeRead, Met
<1>8. \A n, i : Leads(n, i)' = Leads(n, i)
  BY <1>1 DEF Leads
<1>9. ASSUME Len(stack') \in Nat, Len(stack) <= Len(stack'),
             \A k \in 1..Len(stack) : stack'[k] = s[k],
             visited \subseteq visited', Leads(Top.node, Top.attribute) \subseteq visited',
             NEW n \in DOMAIN dies, NEW i \in {1, 2}
      PROVE  Leads(n, i)' \subseteq visited' \/ Awaits(n, i)'
  <2>1. CASE Leads(n, i) \subseteq visited
    BY <1>8, <1>9, <2>1
  <2>2. CASE Awaits(n, i)
    <3>1. /\ \A k \in 1..Len(stack) - 1 : stack'[k] = stack[k]
          /\ stack'[Len(stack)].node = Top.node
          /\ stack'[Len(stack)].attribute = Top.attribute + 1
      BY <1>2, <1>4, <1>9
    <3>2. Awaits(n, i)' \/ (n = Top.node /\ i = Top.attribute)
      BY <1>1, <1>9, <2>2, <3>1, StillAwaits
    <3> QED BY <1>8, <1>9, <3>2
  <2> QED BY <1>9, <2>1, <2>2 DEF Explored
<1>10. ASSUME stack' = s, UNCHANGED visited, Leads(Top.node, Top.attribute) \subseteq visited
       PROVE  Explored'
  <2>1. Len(stack') \in Nat /\ Len(stack) <= Len(stack') /\ visited \subseteq visited'
    BY <1>2, <1>4, <1>10
  <2>2. FiledByFile'
    BY <1>4, <1>6, <1>10 DEF FiledByFile
  <2>3. \A v \in Met' : ToBeRead(v)'
    BY <1>1, <1>7, <1>10 DEF ToBeRead, Met
  <2>4. \A n \in DOMAIN dies' : \A i \in {1, 2} : Leads(n, i)' \subseteq visited' \/ Awaits(n, i)'
    BY <1>1, <1>9, <1>10, <2>1
  <2> QED BY <2>2, <2>3, <2>4 DEF Explored
<1>11. ASSUME NEW node \in Nodes, NEW filed \in Files, Visits(node, filed) PROVE Explored'
  <2>1. FiledTruly(Frame(node, filed))
    <3>1. FiledTruly(Top)
      BY <1>2 DEF Explored, FiledByFile
    <3>2. Top.node[1] = "supplementary" => dies[Top.node].refs[Top.attribute].kind # "addr"
      BY <1>1 DEF NoSupplementaryAddr
    <3> QED BY <1>11, <3>1, <3>2 DEF Visits
  <2>2. <<filed, node[2]>> = node
    BY <2>1, KeyIsNode
  <2>3. Leads(Top.node, Top.attribute) = {node}
    BY <1>11 DEF Visits
  <2>4. CASE node \in visited
    BY <1>3, <1>10, <1>11, <2>2, <2>3, <2>4 DEF Visits, Visit
  <2>5. CASE node \notin visited
    <3>1. PICK f : f = Frame(node, filed)
      OBVIOUS
    <3>2. f \in Frames /\ f.node = node /\ f.attribute = 0 /\ FiledTruly(f)
      BY <2>1, <3>1 DEF Frame, Frames
    <3>3. stack' = Append(s, f) /\ visited' = visited \union {node}
      BY <1>3, <1>11, <2>2, <2>5, <3>1 DEF Visits, Visit
    <3>4. /\ Len(stack') = Len(stack) + 1 /\ stack'[Len(stack) + 1] = f
          /\ \A k \in 1..Len(stack) : stack'[k] = s[k]
      BY <1>4, <3>2, <3>3, AppendOf
    <3>5. Top' = f
      BY <3>4 DEF Top
    <3>6. \A v \in Met' : ToBeRead(v)'
      BY <1>1, <1>7, <3>2, <3>3, <3>5 DEF ToBeRead, Met
    <3>7. FiledByFile'
      <4>1. \A k \in 1..Len(stack') : k \in 1..Len(stack) \/ k = Len(stack) + 1
        BY <1>2, <3>4
      <4> QED BY <1>6, <3>2, <3>4, <4>1 DEF FiledByFile
    <3>8. Len(stack') \in Nat /\ Len(stack) <= Len(stack')
      BY <1>2, <3>4
    <3>9. visited \subseteq visited' /\ Leads(Top.node, Top.attribute) \subseteq visited'
      BY <2>3, <3>3
    <3>10. \A n \in DOMAIN dies' : \A i \in {1, 2} : Leads(n, i)' \subseteq visited' \/ Awaits(n, i)'
      BY <1>1, <1>9, <3>4, <3>8, <3>9
    <3> QED BY <3>6, <3>7, <3>10 DEF Explored
  <2> QED BY <2>4, <2>5
<1> QED
  BY <1>1, <1>3, <1>10, <1>11 DEF Passes

LEMMA ExploredRead ==
  ASSUME TypeInv, Explored, Read, stack' = Advanced, UNCHANGED answer
  PROVE  Explored'
<1>1. /\ Pending /\ Pending' /\ Top.attribute = 0 /\ UNCHANGED visited
      /\ DOMAIN dies' = DOMAIN dies \union {Top.node}
      /\ \A n \in DOMAIN dies : dies'[n] = dies[n]
  BY ReadTyped DEF Pending
<1>2. /\ stack \in Seq(Frames) /\ stack # <<>> /\ Len(stack) \in Nat \ {0} /\ Top = stack[Len(stack)]
      /\ Len(stack) \in 1..Len(stack)
  BY <1>1, Calling
<1>3. /\ Len(stack') = Len(stack)
      /\ \A k \in 1..Len(stack) - 1 : stack'[k] = stack[k]
      /\ stack'[Len(stack)].node = Top.node /\ stack'[Len(stack)].filed = Top.filed
      /\ stack'[Len(stack)].attribute = 1
  BY <1>1, <1>2, AdvancedOf
<1>4. \A k \in 1..Len(stack) : k = Len(stack) \/ k \in 1..Len(stack) - 1
  BY <1>2
<1>5. FiledByFile'
  BY <1>2, <1>3, <1>4 DEF Explored, FiledByFile, FiledTruly
<1>6. \A v \in Met' : ToBeRead(v)'
  BY <1>1 DEF Explored, ToBeRead, Met
<1>7. ASSUME NEW n \in DOMAIN dies', NEW i \in {1, 2}
      PROVE  Leads(n, i)' \subseteq visited' \/ Awaits(n, i)'
  <2>1. CASE n = Top.node
    <3>1. 1 \in 1..i
      OBVIOUS
    <3> QED BY <1>2, <1>3, <2>1, <3>1 DEF Awaits
  <2>2. CASE n \in DOMAIN dies /\ Leads(n, i) \subseteq visited
    BY <1>1, <2>2 DEF Leads
  <2>3. CASE Awaits(n, i)
    <3>1. PICK k \in 1..Len(stack) : stack[k].node = n /\ stack[k].attribute \in 1..i
      BY <2>3 DEF Awaits
    <3>2. k \in 1..Len(stack) - 1
      BY <1>1, <1>2, <1>4, <3>1
    <3> QED BY <1>3, <3>1, <3>2 DEF Awaits
  <2> QED BY <1>1, <2>1, <2>2, <2>3 DEF Explored
<1> QED
  BY <1>5, <1>6, <1>7 DEF Explored

LEMMA ExploredReturn ==
  ASSUME TypeInv, Explored, Return
  PROVE  Explored'
<1>1. /\ Pending /\ Top.attribute = 3 /\ Unwind /\ UNCHANGED <<dies, visited, cut>>
  BY DEF Return
<1>2. /\ stack \in Seq(Frames) /\ stack # <<>> /\ Len(stack) \in Nat \ {0} /\ Top = stack[Len(stack)]
      /\ Len(stack) \in 1..Len(stack)
  BY <1>1, Calling
<1>3. Len(stack') = Len(stack) - 1 /\ \A k \in 1..Len(stack) - 1 : stack'[k] = stack[k]
  BY <1>1, <1>2, FrontOf DEF Unwind
<1>4. FiledByFile'
  BY <1>2, <1>3 DEF Explored, FiledByFile, FiledTruly
<1>5. \A v \in Met' : ToBeRead(v)'
  BY <1>1 DEF Explored, ToBeRead, Met
<1>6. ASSUME NEW n \in DOMAIN dies', NEW i \in {1, 2}
      PROVE  Leads(n, i)' \subseteq visited' \/ Awaits(n, i)'
  <2>1. CASE Leads(n, i) \subseteq visited
    BY <1>1, <2>1 DEF Leads
  <2>2. CASE Awaits(n, i)
    <3>1. PICK k \in 1..Len(stack) : stack[k].node = n /\ stack[k].attribute \in 1..i
      BY <2>2 DEF Awaits
    <3>2. k # Len(stack)
      BY <1>1, <1>2, <3>1
    <3>3. k \in 1..Len(stack) - 1 /\ k \in 1..Len(stack')
      BY <1>2, <1>3, <3>2
    <3> QED BY <1>3, <3>1, <3>3 DEF Awaits
  <2> QED BY <1>1, <2>1, <2>2 DEF Explored
<1> QED
  BY <1>4, <1>5, <1>6 DEF Explored

LEMMA ExploresNext == TypeInv /\ Explores /\ [SearchNext]_searchVars => Explores'
<1> SUFFICES ASSUME TypeInv, Explores, [SearchNext]_searchVars,
                    answer' \in {"pending", "nothing"}, ~cut', NoSupplementaryAddr'
             PROVE  Explored'
  BY DEF Explores
<1>1. CASE UNCHANGED searchVars
  BY <1>1 DEF searchVars, Explores, NoSupplementaryAddr, Explored, Met, FiledByFile, ToBeRead, Pending, Top,
              Leads, Awaits
<1>2. CASE TooDeep \/ ReadFails
  BY <1>2 DEF TooDeep, ReadFails, Conclude
<1>3. CASE Return
  <2>1. Explored
    BY <1>3 DEF Return, Explores, Pending, NoSupplementaryAddr
  <2> QED BY <1>3, <2>1, ExploredReturn
<1>4. CASE AttributeStep
  <2>1. Pending /\ UNCHANGED <<dies, answer, cut>>
    BY <1>4, AttributeMoves
  <2>2. NoSupplementaryAddr
    BY <2>1 DEF NoSupplementaryAddr
  <2>3. Explored
    BY <2>1, <2>2 DEF Explores, Pending
  <2> QED BY <1>4, <2>2, <2>3, ExploredAttribute
<1>5. CASE Read
  <2>1. /\ Pending /\ UNCHANGED <<visited, cut>> /\ stack' = Advanced /\ UNCHANGED answer
        /\ DOMAIN dies \subseteq DOMAIN dies' /\ \A n \in DOMAIN dies : dies'[n] = dies[n]
    BY <1>5, ReadTyped DEF Conclude
  <2>2. NoSupplementaryAddr
    BY <2>1 DEF NoSupplementaryAddr
  <2>3. Explored
    BY <2>1, <2>2 DEF Explores, Pending
  <2> QED BY <1>5, <2>1, <2>3, ExploredRead
<1> QED
  BY <1>1, <1>2, <1>3, <1>4, <1>5 DEF SearchNext, AttributeStep

LEMMA ExploresInit == SearchInit => Explores
<1> SUFFICES ASSUME SearchInit PROVE Explored
  BY DEF Explores
<1>1. stack = <<Frame(<<"main", Start>>, "main")>> /\ visited = {} /\ Pending
  BY DEF SearchInit, Pending
<1>2. DOMAIN dies = {}
  BY DEF SearchInit
<1>3. FiledByFile
  BY <1>1 DEF FiledByFile, FiledTruly, Frame
<1>4. Top.node = <<"main", Start>> /\ Top.attribute = 0
  BY <1>1 DEF Top, Frame
<1> QED
  BY <1>1, <1>2, <1>3, <1>4 DEF Explored, Met, ToBeRead

\* For any files and any depth limit: a search that answers nothing without
\* having met the limit has read the DIE it started from and every DIE that can
\* be reached from it, as long as none of the supplementary file refers to
\* another by an absolute reference.
THEOREM NothingIsMissed == SearchSpec => []NothingReachableInMain
<1>1. ASSUME TypeInv, Explores PROVE NothingReachableInMain
  <2> SUFFICES ASSUME answer = "nothing", ~cut, NoSupplementaryAddr PROVE Exhausted
    BY DEF NothingReachableInMain, NoSupplementaryAddr
  <2>1. Explored /\ ~Pending /\ stack = <<>>
    BY <1>1 DEF Explores, TypeInv, RefTypeOK, Pending
  <2>2. visited \subseteq DOMAIN dies /\ <<"main", Start>> \in DOMAIN dies
    BY <2>1 DEF Explored, ToBeRead, Met
  <2>3. \A n, i : ~Awaits(n, i)
    <3>1. Len(stack) = 0
      BY <2>1
    <3> QED BY <3>1 DEF Awaits
  <2>4. \A n \in DOMAIN dies : Leads(n, 1) \subseteq visited /\ Leads(n, 2) \subseteq visited
    BY <2>1, <2>3 DEF Explored
  <2>5. \A n : Referenced(n) \subseteq Leads(n, 1) \union Leads(n, 2)
    BY DEF Referenced, Leads
  <2> QED BY <2>2, <2>4, <2>5 DEF Exhausted
<1>2. SearchSpec => []Explores
  BY ExploresInit, ExploresNext, TypeAlways, PTL DEF SearchSpec
<1> QED
  BY <1>1, <1>2, TypeAlways, PTL

-----------------------------------------------------------------------------
(* Where the details come from                                             *)

Useless == {"missing", "unreadable", "malformed"}
Kinds == Outcomes \cup Packages

\* The paths tried so far hold nothing, and a failure is kept exactly if one of
\* them was there.
Tried(n) ==
  /\ n \in 0..Len(unit.loose)
  /\ paths = SubSeq(unit.loose, n + 1, Len(unit.loose))
  /\ \A i \in 1..n : unit.loose[i] \in Useless
  /\ Len(failure) = IF \E i \in 1..n : unit.loose[i] # "missing" THEN 1 ELSE 0

\* The package is asked once no path is left, or one has two units of the ID.
LooseOver(n) ==
  \/ n = Len(unit.loose) /\ Len(reasons) = Len(failure)
  \/ n < Len(unit.loose) /\ unit.loose[n + 1] = "duplicated" /\ Len(reasons) = 1

SourceInv ==
  /\ unit \in Units
  /\ \E n \in 0..Len(unit.loose) :
       /\ Tried(n)
       /\ pc = "open" => n = 0
       /\ pc = "package" => LooseOver(n)
  /\ failure \in Seq(Kinds) /\ reasons \in Seq(Kinds)
  /\ pc \in {"open", "loose"} => reasons = <<>>
  /\ pc \in {"open", "loose", "package"} => source = <<>>
  /\ pc \in {"loose", "package"} => unit.skeleton
  /\ FirstUsableSource

LEMMA SourceInit == Init => SourceInv
<1> SUFFICES ASSUME Init PROVE SourceInv
  OBVIOUS
<1> USE DEF Init
<1>1. unit \in Units /\ unit.loose \in Seq(Outcomes) /\ Len(unit.loose) \in Nat
  BY UnitsAssumption
<1>2. paths = SubSeq(unit.loose, 1, Len(unit.loose))
  BY <1>1 DEF Outcomes
<1>3. Tried(0)
  BY <1>1, <1>2 DEF Tried
<1>4. FirstUsableSource
  BY DEF FirstUsableSource
<1> QED
  BY <1>1, <1>3, <1>4 DEF SourceInv

\* The units a step can meet.
LEMMA UnitTyped ==
  ASSUME unit \in Units
  PROVE  /\ unit.loose \in Seq(Outcomes) /\ Len(unit.loose) \in Nat
         /\ unit.package \in Packages /\ unit.skeleton \in BOOLEAN
BY UnitsAssumption

LEMMA Singleton ==
  ASSUME NEW S, NEW x \in S
  PROVE  <<x>> \in Seq(S) /\ Len(<<x>>) = 1
OBVIOUS

\* The rest of a sequence from its element n on.
LEMMA RestOf ==
  ASSUME NEW S, NEW s \in Seq(S), NEW n \in 1..Len(s) + 1, NEW rest \in {SubSeq(s, n, Len(s))}
  PROVE  /\ rest \in Seq(S) /\ Len(rest) = Len(s) - n + 1 /\ Len(rest) \in Nat
         /\ rest = <<>> <=> n = Len(s) + 1
         /\ rest # <<>> => /\ n \in 1..Len(s) /\ Head(rest) = s[n]
                           /\ Tail(rest) = SubSeq(s, n + 1, Len(s))
                           /\ Len(Tail(rest)) = Len(rest) - 1
<1>1. /\ rest \in Seq(S) /\ Len(rest) = Len(s) - n + 1 /\ Len(rest) \in Nat
      /\ \A i \in 1..Len(s) - n + 1 : rest[i] = s[n + i - 1]
  <2>1. rest = SubSeq(s, n, Len(s))
    OBVIOUS
  <2> QED BY <2>1
<1>2. rest = <<>> <=> n = Len(s) + 1
  <2>1. rest = <<>> <=> Len(rest) = 0
    BY <1>1, EmptySeq, Zenon
  <2> QED BY <1>1, <2>1
<1>3. ASSUME rest # <<>>
      PROVE  /\ n \in 1..Len(s) /\ Head(rest) = s[n] /\ Tail(rest) = SubSeq(s, n + 1, Len(s))
             /\ Len(Tail(rest)) = Len(rest) - 1
  <2>1. n \in 1..Len(s)
    BY <1>2, <1>3
  <2>2. Head(rest) = s[n] /\ Len(Tail(rest)) = Len(rest) - 1
    BY <1>1, <1>3, <2>1
  <2>3. Tail(rest) = SubSeq(s, n + 1, Len(s))
    BY <2>1
  <2> QED BY <2>1, <2>2, <2>3
<1> QED
  BY <1>1, <1>2, <1>3

\* After n useless paths the next one is the head of the rest.
LEMMA NextPath ==
  ASSUME unit \in Units, NEW n, Tried(n)
  PROVE  /\ paths = <<>> <=> n = Len(unit.loose)
         /\ paths # <<>> => /\ n + 1 \in 1..Len(unit.loose) /\ Head(paths) = unit.loose[n + 1]
                            /\ Tail(paths) = SubSeq(unit.loose, n + 2, Len(unit.loose))
<1>1. unit.loose \in Seq(Outcomes) /\ Len(unit.loose) \in Nat /\ n \in 0..Len(unit.loose)
  BY UnitTyped DEF Tried
<1>2. paths = SubSeq(unit.loose, n + 1, Len(unit.loose))
  BY DEF Tried
<1>3. n + 1 \in 1..Len(unit.loose) + 1 /\ (n + 1) + 1 = n + 2
  BY <1>1
<1>4. /\ paths = <<>> <=> n + 1 = Len(unit.loose) + 1
      /\ paths # <<>> => /\ n + 1 \in 1..Len(unit.loose) /\ Head(paths) = unit.loose[n + 1]
                         /\ Tail(paths) = SubSeq(unit.loose, (n + 1) + 1, Len(unit.loose))
  BY <1>1, <1>2, <1>3, RestOf, Zenon
<1>5. n + 1 = Len(unit.loose) + 1 <=> n = Len(unit.loose)
  BY <1>1
<1> QED
  BY <1>3, <1>4, <1>5, Zenon

\* A useless path is skipped.
LEMMA SkippedPath ==
  ASSUME SourceInv, TryLoosePath
  PROVE  SourceInv'
<1>1. PICK n \in 0..Len(unit.loose) : Tried(n)
  BY DEF SourceInv
<1>2. /\ unit.loose \in Seq(Outcomes) /\ Len(unit.loose) \in Nat /\ unit' = unit
      /\ paths # <<>> /\ Head(paths) \in Useless /\ pc = "loose" /\ pc' = "loose"
      /\ source' = source /\ source = <<>> /\ reasons' = reasons
  BY UnitTyped DEF SourceInv, TryLoosePath, splitVars, inputVars, Useless
<1>3. n + 1 \in 1..Len(unit.loose) /\ Head(paths) = unit.loose[n + 1]
  BY <1>1, <1>2, NextPath DEF SourceInv
<1>4. paths' = SubSeq(unit.loose, n + 2, Len(unit.loose))
  BY <1>1, <1>2, NextPath DEF SourceInv, TryLoosePath, SkipPath
<1>5. \A i \in 1..n + 1 : i \in 1..n \/ i = n + 1
  BY <1>1
<1>6. Len(failure') = IF \E i \in 1..n + 1 : unit.loose[i] # "missing" THEN 1 ELSE 0
  <2>1. CASE Head(paths) = "missing"
    <3>1. failure' = failure
      BY <2>1 DEF TryLoosePath, SkipPath
    <3>2. (\E i \in 1..n + 1 : unit.loose[i] # "missing") <=> \E i \in 1..n : unit.loose[i] # "missing"
      BY <1>3, <1>5, <2>1
    <3> QED BY <1>1, <3>1, <3>2 DEF Tried
  <2>2. CASE Head(paths) # "missing"
    BY <1>1, <1>2, <1>3, <1>5, <2>2 DEF Tried, TryLoosePath, SkipPath
  <2> QED BY <2>1, <2>2
<1>7. Tried(n + 1)'
  <2>1. n + 1 \in 0..Len(unit.loose) /\ (n + 1) + 1 = n + 2
    BY <1>2, <1>3
  <2>2. \A i \in 1..n + 1 : unit.loose[i] \in Useless
    BY <1>1, <1>2, <1>3, <1>5 DEF Tried
  <2> QED BY <1>2, <1>4, <1>6, <2>1, <2>2 DEF Tried
<1>8. failure' \in Seq(Kinds)
  <2>1. Head(paths) \in Kinds
    BY <1>2 DEF Useless, Kinds, Outcomes
  <2> QED BY <2>1, Singleton DEF SourceInv, TryLoosePath, SkipPath
<1>9. FirstUsableSource'
  BY <1>2 DEF FirstUsableSource
<1> QED
  BY <1>2, <1>3, <1>7, <1>8, <1>9 DEF SourceInv

\* What the search has found out when it ends without a file of its own.
LEMMA LooseDecided ==
  ASSUME SourceInv, pc = "package"
  PROVE  /\ ~\E i \in DOMAIN unit.loose :
              /\ unit.loose[i] = "good"
              /\ \A j \in 1..i - 1 : unit.loose[j] \notin {"good", "duplicated"}
         /\ Len(reasons) = IF \E i \in DOMAIN unit.loose : unit.loose[i] # "missing" THEN 1 ELSE 0
<1>1. PICK n \in 0..Len(unit.loose) : Tried(n) /\ LooseOver(n)
  BY DEF SourceInv
<1>2. unit.loose \in Seq(Outcomes) /\ Len(unit.loose) \in Nat /\ DOMAIN unit.loose = 1..Len(unit.loose)
  BY UnitTyped DEF SourceInv
<1>3. CASE n = Len(unit.loose) /\ Len(reasons) = Len(failure)
  BY <1>1, <1>2, <1>3 DEF Tried, Useless
<1>4. CASE n < Len(unit.loose) /\ unit.loose[n + 1] = "duplicated" /\ Len(reasons) = 1
  <2>1. n + 1 \in DOMAIN unit.loose
    BY <1>1, <1>2, <1>4
  <2>2. ASSUME NEW i \in DOMAIN unit.loose, unit.loose[i] = "good"
        PROVE  n + 1 \in 1..i - 1
    <3>1. i \notin 1..n /\ i # n + 1
      BY <1>1, <1>4, <2>2 DEF Tried, Useless
    <3> QED BY <1>1, <1>2, <3>1
  <2> QED BY <1>4, <2>1, <2>2
<1> QED
  BY <1>1, <1>3, <1>4 DEF LooseOver

\* A step that leaves the search keeps what the search knew.
LEMMA SearchLeft ==
  ASSUME SourceInv, UNCHANGED <<unit, paths, failure>>, reasons' \in Seq(Kinds),
         pc' \notin {"open", "loose", "package"}, FirstUsableSource'
  PROVE  SourceInv'
BY DEF SourceInv, Tried

LEMMA SourceStep == SourceInv /\ [Next]_vars => SourceInv'
<1> SUFFICES ASSUME SourceInv, [Next]_vars PROVE SourceInv'
  OBVIOUS
<1> DEFINE Later == pc' \notin {"open", "loose", "package"}
           Same == UNCHANGED <<unit, paths, failure, reasons, source>> /\ warnings \subseteq warnings'
<1>1. unit \in Units /\ unit.skeleton \in BOOLEAN /\ reasons \in Seq(Kinds)
  BY UnitTyped DEF SourceInv
<1>2. ASSUME Same PROVE FirstUsableSource'
  BY <1>2 DEF SourceInv, FirstUsableSource
<1>3. ASSUME Same, Later PROVE SourceInv'
  BY <1>1, <1>2, <1>3, SearchLeft
<1>4. CASE CollectOwn
  <2>1. /\ unit' = unit /\ paths' = paths /\ failure' = failure /\ reasons' = reasons
        /\ pc = "open" /\ source = <<>> /\ warnings \subseteq warnings'
    BY <1>4 DEF CollectOwn, SourceInv, inputVars, Warn
  <2>2. CASE unit.skeleton
    <3>1. pc' = "loose" /\ source' = source
      BY <1>4, <2>2 DEF CollectOwn
    <3>2. FirstUsableSource'
      BY <1>2, <2>1, <3>1
    <3> QED BY <2>1, <2>2, <3>1, <3>2 DEF SourceInv, Tried
  <2>3. CASE ~unit.skeleton
    <3>1. pc' = "subprograms" /\ source' = <<"own">>
      BY <1>4, <2>3 DEF CollectOwn, ImportDetails
    <3>2. FirstUsableSource'
      BY <2>1, <2>3, <3>1 DEF FirstUsableSource
    <3> QED BY <1>1, <2>1, <3>1, <3>2, SearchLeft
  <2> QED BY <1>1, <2>2, <2>3
<1>5. CASE TryLoosePath
  BY <1>5, SkippedPath
<1>6. CASE LoosePathDuplicated
  <2>1. PICK n \in 0..Len(unit.loose) : Tried(n)
    BY DEF SourceInv
  <2>2. /\ unit' = unit /\ paths' = paths /\ failure' = failure /\ source' = source
        /\ paths # <<>> /\ Head(paths) = "duplicated" /\ pc = "loose" /\ pc' = "package"
        /\ reasons' = <<"duplicated">> /\ warnings' = warnings /\ source = <<>>
    BY <1>6 DEF LoosePathDuplicated, SourceInv, inputVars
  <2>3. n + 1 \in 1..Len(unit.loose) /\ unit.loose[n + 1] = "duplicated"
    BY <1>1, <2>1, <2>2, NextPath
  <2>4. n < Len(unit.loose) /\ Len(reasons') = 1
    BY <1>1, <2>1, <2>2, <2>3, UnitTyped
  <2>5. LooseOver(n)' /\ Tried(n)'
    BY <2>1, <2>2, <2>3, <2>4 DEF LooseOver, Tried
  <2>6. reasons' \in Seq(Kinds)
    BY <2>2, Singleton DEF Kinds, Outcomes
  <2>7. FirstUsableSource'
    BY <2>2 DEF FirstUsableSource
  <2> QED BY <2>1, <2>2, <2>5, <2>6, <2>7 DEF SourceInv
<1>7. CASE LooseExhausted
  <2>1. PICK n \in 0..Len(unit.loose) : Tried(n)
    BY DEF SourceInv
  <2>2. /\ unit' = unit /\ paths' = paths /\ failure' = failure /\ source' = source
        /\ paths = <<>> /\ pc = "loose" /\ pc' = "package"
        /\ reasons' = failure /\ warnings' = warnings /\ source = <<>>
    BY <1>7 DEF LooseExhausted, SourceInv, inputVars
  <2>3. n = Len(unit.loose)
    BY <1>1, <2>1, <2>2, NextPath
  <2>4. LooseOver(n)' /\ Tried(n)'
    BY <2>1, <2>2, <2>3 DEF LooseOver, Tried
  <2>5. reasons' \in Seq(Kinds)
    BY <2>2 DEF SourceInv
  <2>6. FirstUsableSource'
    BY <2>2 DEF FirstUsableSource
  <2> QED BY <2>1, <2>2, <2>4, <2>5, <2>6 DEF SourceInv
<1>8. CASE ImportLoose
  <2>1. PICK n \in 0..Len(unit.loose) : Tried(n)
    BY DEF SourceInv
  <2>2. /\ UNCHANGED <<unit, paths, failure, reasons>> /\ unit.skeleton
        /\ paths # <<>> /\ Head(paths) = "good" /\ pc' = "subprograms" /\ source' = <<"split">>
    BY <1>8 DEF ImportLoose, ImportSplitUnit, ImportDetails, SourceInv, inputVars
  <2>3. /\ n + 1 \in DOMAIN unit.loose /\ unit.loose[n + 1] = "good"
        /\ \A j \in 1..(n + 1) - 1 : unit.loose[j] \notin {"good", "duplicated"}
    <3>1. n + 1 \in DOMAIN unit.loose /\ unit.loose[n + 1] = "good"
      BY <1>1, <2>1, <2>2, NextPath, UnitTyped
    <3>2. \A j \in 1..n : unit.loose[j] \notin {"good", "duplicated"}
      BY <2>1 DEF Tried, Useless
    <3> QED BY <3>1, <3>2
  <2>4. FirstUsableSource'
    BY <2>2, <2>3 DEF FirstUsableSource
  <2> QED BY <1>1, <2>2, <2>4, SearchLeft
<1>9. CASE ImportPackaged
  <2>1. /\ UNCHANGED <<unit, paths, failure, reasons>> /\ unit.skeleton /\ unit.package = "good"
        /\ pc' = "subprograms" /\ source' = <<"split">>
    BY <1>9 DEF ImportPackaged, ImportSplitUnit, ImportDetails, SourceInv, inputVars
  <2>2. FirstUsableSource'
    BY <2>1 DEF FirstUsableSource
  <2> QED BY <1>1, <2>1, <2>2, SearchLeft
<1>10. CASE PackageMismatched
  BY <1>3, <1>10 DEF PackageMismatched, inputVars, splitVars
<1>11. CASE FallBack
  <2>1. /\ UNCHANGED <<unit, paths, failure>> /\ pc = "package" /\ pc' = "subprograms"
        /\ source' = <<"own">> /\ "split DWARF unavailable" \in warnings'
        /\ unit.package \in {"none", "absent", "broken"}
        /\ reasons' = IF unit.package = "none" THEN reasons ELSE Append(reasons, unit.package)
    BY <1>11 DEF FallBack, ImportDetails, Warn, inputVars
  <2>2. Len(reasons') = Len(reasons) + (IF unit.package = "none" THEN 0 ELSE 1)
        /\ reasons' \in Seq(Kinds)
    <3>1. unit.package \in Kinds
      BY <2>1 DEF Kinds, Packages
    <3>2. /\ Len(Append(reasons, unit.package)) = Len(reasons) + 1
          /\ Append(reasons, unit.package) \in Seq(Kinds)
      BY <1>1, <3>1
    <3>3. CASE unit.package = "none"
      <4>1. reasons' = reasons
        BY <2>1, <3>3, Zenon
      <4>2. Len(reasons) \in Nat
        BY <1>1
      <4> QED BY <1>1, <3>3, <4>1, <4>2
    <3>4. CASE unit.package # "none"
      BY <2>1, <3>2, <3>4
    <3> QED BY <3>3, <3>4
  <2>3. FirstUsableSource'
    BY <1>1, <2>1, <2>2, LooseDecided DEF FirstUsableSource
  <2> QED BY <1>1, <2>1, <2>2, <2>3, SearchLeft
<1>12. CASE \/ NextSubprogram \/ RangesDone \/ StopRanges \/ RejectRange \/ BeginFunction
           \/ WalkFails \/ VisitInline \/ VisitOther \/ FinishFunction \/ Finish
  <2>1. Same
    BY <1>12 DEF NextSubprogram, RangesDone, StopRanges, RejectRange, BeginFunction, WalkFails,
         VisitInline, VisitOther, FinishFunction, Finish, inputVars, splitVars, Warn
  <2>2. Later
    BY <1>12 DEF NextSubprogram, RangesDone, StopRanges, RejectRange, BeginFunction, WalkFails,
         VisitInline, VisitOther, FinishFunction, Finish, Visiting
  <2> QED BY <1>3, <2>1, <2>2
<1>13. CASE UNCHANGED vars
  BY <1>13 DEF SourceInv, vars, splitVars, inputVars, Tried, LooseOver, FirstUsableSource
<1> QED
  BY <1>4, <1>5, <1>6, <1>7, <1>8, <1>9, <1>10, <1>11, <1>12, <1>13 DEF Next

\* For any unit, its files in any state: the first usable of the loose files
\* decides, then the package, then the skeleton, and what the import says it
\* lacked is what it lacked.
THEOREM SourceIsFirst == Spec => []FirstUsableSource
<1>1. SourceInv => FirstUsableSource
  BY DEF SourceInv
<1> QED
  BY SourceInit, SourceStep, <1>1, PTL DEF Spec

-----------------------------------------------------------------------------
(* Positions                                                               *)

LEMMA ContentsTyped ==
  ASSUME unit \in Units
  PROVE  /\ Contents.subprograms \in Seq(Range(Contents.subprograms))
         /\ Len(Contents.subprograms) \in Nat
         /\ DOMAIN Contents.subprograms = 1..Len(Contents.subprograms)
         /\ \A i \in DOMAIN Contents.subprograms :
              /\ Contents.subprograms[i].ranges \in Seq(Ranges)
              /\ Len(Contents.subprograms[i].ranges) \in Nat
              /\ DOMAIN Contents.subprograms[i].ranges = 1..Len(Contents.subprograms[i].ranges)
<1>1. /\ Contents.subprograms \in Seq(Range(Contents.subprograms))
      /\ \A i \in DOMAIN Contents.subprograms : Contents.subprograms[i].ranges \in Seq(Ranges)
  BY UnitsAssumption DEF Contents
<1> QED
  BY <1>1

LEMMA MetAt ==
  ASSUME unit \in Units
  PROVE  /\ RangesMet \subseteq Nat \X Nat
         /\ \A i, j : <<i, j>> \in RangesMet <=>
              /\ i \in DOMAIN Contents.subprograms
              /\ Contents.subprograms[i].name # <<>>
              /\ j \in DOMAIN Contents.subprograms[i].ranges
              /\ \A k \in 1..j - 1 : RangeAt(<<i, k>>) # Broken
<1>1. \A i, j : <<i, j>> \in RangesMet <=>
         /\ i \in DOMAIN Contents.subprograms
         /\ Contents.subprograms[i].name # <<>>
         /\ j \in DOMAIN Contents.subprograms[i].ranges
         /\ \A k \in 1..j - 1 : RangeAt(<<i, k>>) # Broken
  BY DEF RangesMet
<1>2. \A p \in RangesMet : p = <<p[1], p[2]>>
  BY DEF RangesMet
<1>3. ASSUME NEW p \in RangesMet PROVE p \in Nat \X Nat
  <2>1. p[1] \in DOMAIN Contents.subprograms /\ p[2] \in DOMAIN Contents.subprograms[p[1]].ranges
    BY <1>1, <1>2
  <2>2. p[1] \in Nat /\ p[2] \in Nat
    BY <2>1, ContentsTyped
  <2> QED BY <1>2, <2>2
<1> QED
  BY <1>1, <1>3

LEMMA MetFinite ==
  ASSUME unit \in Units
  PROVE  IsFiniteSet(RangesMet) /\ IsFiniteSet(ToImport)
<1> DEFINE N == Len(Contents.subprograms)
           M(i) == Len(Contents.subprograms[i].ranges)
           row == [i \in 1..N |-> {<<i, j>> : j \in 1..M(i)}]
<1>1. N \in Nat /\ \A i \in 1..N : M(i) \in Nat
  BY ContentsTyped
<1>2. ASSUME NEW i \in 1..N PROVE IsFiniteSet(row[i])
  <2> DEFINE f == [j \in 1..M(i) |-> <<i, j>>]
  <2>1. f \in Surjection(1..M(i), row[i])
    BY DEF Surjection
  <2>2. IsFiniteSet(1..M(i))
    <3>1. M(i) \in Nat
      BY <1>1
    <3> HIDE DEF M
    <3> QED BY <3>1, FS_Interval
  <2> QED BY <2>1, <2>2, FS_Surjection
<1>3. IsFiniteSet({row[i] : i \in 1..N})
  <2>1. row \in Surjection(1..N, {row[i] : i \in 1..N})
    BY DEF Surjection
  <2>2. IsFiniteSet(1..N)
    BY <1>1, FS_Interval
  <2> QED BY <2>1, <2>2, FS_Surjection
<1>4. IsFiniteSet(UNION {row[i] : i \in 1..N})
  BY <1>2, <1>3, FS_UNION
<1>5. RangesMet \subseteq UNION {row[i] : i \in 1..N}
  <2> SUFFICES ASSUME NEW p \in RangesMet PROVE \E i \in 1..N : p \in row[i]
    OBVIOUS
  <2>1. p = <<p[1], p[2]>>
    BY MetAt
  <2>2. p[1] \in 1..N /\ p[2] \in 1..M(p[1])
    BY <2>1, MetAt, ContentsTyped
  <2> QED BY <2>1, <2>2
<1>6. ToImport \subseteq RangesMet
  BY DEF ToImport
<1> QED
  BY <1>4, <1>5, <1>6, FS_Subset

\* How many positions precede one.
LEMMA CountPreceding ==
  ASSUME NEW S, IsFiniteSet(S), NEW c
  PROVE  /\ IsFiniteSet(Preceding(S, c)) /\ Cardinality(Preceding(S, c)) \in Nat
         /\ Cardinality(S) \in Nat /\ Cardinality(Preceding(S, c)) <= Cardinality(S)
<1>1. Preceding(S, c) \in SUBSET S
  BY DEF Preceding
<1> QED
  BY <1>1, FS_Subset, FS_CardinalityType

\* One more precedes the next position, if there is one at this.
LEMMA CountNext ==
  ASSUME NEW S \in SUBSET (Nat \X Nat), IsFiniteSet(S), NEW c \in Nat \X Nat, NEW T,
         T = Preceding(S, c) \cup (S \cap {c})
  PROVE  Cardinality(T) = Cardinality(Preceding(S, c)) + IF c \in S THEN 1 ELSE 0
<1>1. IsFiniteSet(Preceding(S, c)) /\ Cardinality(Preceding(S, c)) \in Nat
  BY CountPreceding
<1>2. c \notin Preceding(S, c)
  BY DEF Preceding, Earlier
<1>3. CASE c \in S
  <2>1. T = Preceding(S, c) \cup {c}
    BY <1>3
  <2> QED BY <1>1, <1>2, <1>3, <2>1, FS_AddElement
<1>4. CASE c \notin S
  <2>1. T = Preceding(S, c)
    BY <1>4
  <2>2. Cardinality(T) = Cardinality(Preceding(S, c))
    BY <2>1, Zenon
  <2> QED BY <1>1, <1>4, <2>2
<1> QED
  BY <1>3, <1>4

\* Of two positions more precede the later one.
LEMMA CountsApart ==
  ASSUME NEW S \in SUBSET (Nat \X Nat), IsFiniteSet(S), NEW p \in S, NEW q \in S, p # q
  PROVE  Cardinality(Preceding(S, p)) # Cardinality(Preceding(S, q))
<1>1. ASSUME NEW x \in S, NEW y \in S, Earlier(x, y)
      PROVE  Cardinality(Preceding(S, x)) # Cardinality(Preceding(S, y))
  <2>1. \A z \in S : Earlier(z, x) => Earlier(z, y)
    BY <1>1 DEF Earlier
  <2>2. Preceding(S, x) \in SUBSET Preceding(S, y) /\ x \in Preceding(S, y) /\ x \notin Preceding(S, x)
    BY <1>1, <2>1 DEF Preceding, Earlier
  <2>3. IsFiniteSet(Preceding(S, y))
    BY CountPreceding
  <2> QED BY <2>2, <2>3, FS_Subset
<1>2. p = <<p[1], p[2]>> /\ q = <<q[1], q[2]>> /\ p[1] \in Nat /\ p[2] \in Nat /\ q[1] \in Nat /\ q[2] \in Nat
  OBVIOUS
<1>3. p[1] # q[1] \/ p[2] # q[2]
  BY <1>2
<1>4. Earlier(p, q) \/ Earlier(q, p)
  BY <1>2, <1>3 DEF Earlier
<1> QED
  BY <1>1, <1>4

\* The origin that a position to import is.
LEMMA OriginAt ==
  ASSUME unit \in Units, NEW c \in ToImport
  PROVE  LET n == Cardinality(Preceding(ToImport, c)) + 1
         IN /\ n \in 1..Cardinality(ToImport)
            /\ Origins[n] = [sub |-> Contents.subprograms[c[1]], range |-> RangeAt(c)]
<1> DEFINE n == Cardinality(Preceding(ToImport, c)) + 1
           at(k) == CHOOSE p \in ToImport : Cardinality(Preceding(ToImport, p)) = k - 1
<1>1. ToImport \in SUBSET (Nat \X Nat) /\ IsFiniteSet(ToImport)
  BY MetAt, MetFinite DEF ToImport
<1>2. Cardinality(Preceding(ToImport, c)) \in Nat /\ Cardinality(ToImport) \in Nat
  BY <1>1, CountPreceding
<1>3. n <= Cardinality(ToImport)
  <2>1. Preceding(ToImport, c) \in SUBSET ToImport /\ c \notin Preceding(ToImport, c)
    BY <1>1 DEF Preceding, Earlier
  <2>2. Cardinality(Preceding(ToImport, c)) # Cardinality(ToImport)
    BY <1>1, <2>1, FS_Subset
  <2> QED BY <1>1, <1>2, <2>2, CountPreceding
<1>4. Cardinality(Preceding(ToImport, c)) = n - 1
  BY <1>2
<1>5. at(n) = c
  <2>1. at(n) \in ToImport /\ Cardinality(Preceding(ToImport, at(n))) = n - 1
    BY <1>4
  <2> HIDE DEF at
  <2> QED BY <1>1, <1>4, <2>1, CountsApart
<1>6. n \in 1..Cardinality(ToImport)
  BY <1>2, <1>3
<1>7. Origins[n] = [sub |-> Contents.subprograms[at(n)[1]], range |-> RangeAt(at(n))]
  BY <1>6 DEF Origins
<1> HIDE DEF n, at
<1>8. Origins[n] = [sub |-> Contents.subprograms[c[1]], range |-> RangeAt(c)]
  BY <1>5, <1>7
<1> QED
  BY <1>6, <1>8 DEF n

-----------------------------------------------------------------------------
(* The ranges that become functions                                        *)

\* A range that becomes a function.
Wanted(range) == range # Broken /\ Live(range) /\ ~Tombstoned(range)

Importing == pc \in {"subprograms", "ranges", "walk", "done"}

\* The subprogram and the range an import has come to.
Current == Len(Contents.subprograms) - Len(todo) + 1
Listed == Contents.subprograms[Current].ranges
Place == IF pc \in {"ranges", "walk"} THEN Len(Listed) - Len(ranges) + 1 ELSE 1
Cursor == <<Current, Place>>

\* What is left to do is the rest of the lists behind the cursor.
Rest ==
  /\ Current \in 1..Len(Contents.subprograms) + 1
  /\ todo = SubSeq(Contents.subprograms, Current, Len(Contents.subprograms))
  /\ pc \in {"ranges", "walk"} =>
       /\ Current # Len(Contents.subprograms) + 1
       /\ Contents.subprograms[Current].name # <<>>
       /\ Place \in 1..Len(Listed) + 1
       /\ ranges = SubSeq(Listed, Place, Len(Listed))
       /\ ranges # <<>> => \A k \in 1..Place - 1 : Listed[k] # Broken
  /\ pc = "walk" => ranges # <<>> /\ Wanted(Head(ranges))
  /\ pc = "done" => Current = Len(Contents.subprograms) + 1

\* A function for each position to import before the cursor, and every position
\* met before it counted.
Counted ==
  /\ Len(functions) = Cardinality(Preceding(ToImport, Cursor))
  /\ Len(functions) + rejected = Cardinality(Preceding(RangesMet, Cursor))

\* The functions are those of the first origins.
Matched ==
  \A i \in 1..Len(functions) :
    /\ i \in 1..Cardinality(ToImport)
    /\ functions[i].name = Origins[i].sub.name
    /\ [start |-> functions[i].start, end |-> functions[i].end] = Origins[i].range

RangesInv ==
  /\ unit \in Units
  /\ functions \in Seq(Range(functions)) /\ rejected \in Nat
  /\ pc \in {"open", "loose", "package"} => functions = <<>> /\ rejected = 0
  /\ source = <<>> => functions = <<>> /\ ~Importing
  /\ Matched
  /\ Importing => Rest /\ Counted

LEMMA RangesInit == Init => RangesInv
<1> SUFFICES ASSUME Init PROVE RangesInv
  OBVIOUS
<1>1. functions = <<>> /\ <<>> \in Seq(Range(<<>>)) /\ Len(<<>>) = 0
  BY EmptySeq DEF Init
<1>2. Matched
  BY <1>1 DEF Matched
<1> QED
  BY <1>1, <1>2 DEF Init, RangesInv, Importing

\* A step that neither imports nor rejects, nor changes what is imported, keeps
\* the functions and their origins.
LEMMA SameOrigins ==
  ASSUME UNCHANGED <<unit, source>>
  PROVE  /\ Contents' = Contents /\ RangesMet' = RangesMet /\ ToImport' = ToImport
         /\ Origins' = Origins
BY DEF Contents, RangesMet, ToImport, Origins, RangeAt

LEMMA SameFunctions ==
  ASSUME RangesInv, UNCHANGED <<unit, source, functions>>
  PROVE  Matched'
BY SameOrigins DEF RangesInv, Matched

\* The import begins before its first position.
LEMMA Begun ==
  ASSUME RangesInv, functions = <<>>, rejected = 0, UNCHANGED <<unit, functions, rejected>>,
         pc' = "subprograms", source' # <<>>, todo' = Contents'.subprograms
  PROVE  RangesInv'
<1>1. unit' \in Units /\ Len(functions') = 0 /\ rejected' = 0
  BY DEF RangesInv
<1>2. Contents'.subprograms \in Seq(Range(Contents'.subprograms)) /\ Len(Contents'.subprograms) \in Nat
  BY <1>1, UnitsAssumption DEF Contents
<1>3. Current' = 1 /\ Place' = 1
  BY <1>2 DEF Current, Place
<1>4. Rest'
  <2>1. todo' = SubSeq(Contents'.subprograms, 1, Len(Contents'.subprograms))
    BY <1>2
  <2> QED BY <1>2, <1>3, <2>1 DEF Rest
<1>5. Preceding(ToImport', Cursor') = {} /\ Preceding(RangesMet', Cursor') = {}
  <2>1. \A p \in RangesMet' : p[1] \in Nat \ {0} /\ p[2] \in Nat \ {0}
    <3>1. \A p \in RangesMet' : p = <<p[1], p[2]>> /\ p[1] \in DOMAIN Contents'.subprograms
                                /\ p[2] \in DOMAIN Contents'.subprograms[p[1]].ranges
      BY DEF RangesMet
    <3>2. \A i \in DOMAIN Contents'.subprograms :
             i \in Nat \ {0} /\ DOMAIN Contents'.subprograms[i].ranges \subseteq Nat \ {0}
      <4>1. PICK c \in {unit'.own, unit'.split} : Contents' = c
        BY DEF Contents
      <4>2. /\ c.subprograms \in Seq(Range(c.subprograms))
            /\ \A i \in DOMAIN c.subprograms : c.subprograms[i].ranges \in Seq(Ranges)
        BY <1>1, UnitsAssumption
      <4> QED BY <4>1, <4>2
    <3> QED BY <3>1, <3>2
  <2>3. ToImport' \subseteq RangesMet'
    BY DEF ToImport
  <2>4. \A p \in RangesMet' : ~Earlier(p, Cursor')
    BY <1>3, <2>1 DEF Earlier, Cursor
  <2> QED BY <2>3, <2>4 DEF Preceding
<1>6. Counted'
  BY <1>1, <1>5, FS_EmptySet DEF Counted
<1>7. Matched'
  BY <1>1 DEF Matched
<1> QED
  BY <1>1, <1>4, <1>6, <1>7 DEF RangesInv, Importing

\* Steps that leave the positions alone.
LEMMA StaysAt ==
  ASSUME RangesInv, UNCHANGED <<unit, source, todo, ranges, functions, rejected>>, pc \in {"ranges", "walk"},
         pc' \in {"ranges", "walk"},
         pc' = "walk" => pc = "walk" \/ (ranges # <<>> /\ Wanted(Head(ranges)))
  PROVE  RangesInv'
<1>1. Matched' /\ Contents' = Contents /\ RangesMet' = RangesMet /\ ToImport' = ToImport
  BY SameOrigins, SameFunctions
<1>2. Current' = Current /\ Listed' = Listed /\ Place' = Place /\ Cursor' = Cursor
  BY <1>1 DEF Current, Listed, Place, Cursor
<1>3. Rest /\ Counted
  BY DEF RangesInv, Importing
<1>4. Rest'
  BY <1>1, <1>2, <1>3 DEF Rest
<1>5. Counted'
  BY <1>1, <1>2, <1>3 DEF Counted
<1> QED
  BY <1>1, <1>4, <1>5 DEF RangesInv, Importing

\* The search for the details neither imports nor rejects.
LEMMA SourceKeepsRanges ==
  ASSUME RangesInv,
         \/ CollectOwn \/ TryLoosePath \/ LoosePathDuplicated \/ ImportLoose \/ LooseExhausted
         \/ ImportPackaged \/ PackageMismatched \/ FallBack
  PROVE  RangesInv'
<1>1. /\ functions = <<>> /\ rejected = 0 /\ UNCHANGED <<unit, functions, rejected>>
      /\ \/ pc' = "subprograms" /\ source' # <<>> /\ todo' = Contents'.subprograms
         \/ pc' \in {"loose", "package", "failed"} /\ source' = source
  <2>1. /\ UNCHANGED <<unit, functions, rejected>>
        /\ \/ pc' = "subprograms" /\ source' # <<>> /\ todo' = Contents'.subprograms
           \/ pc' \in {"loose", "package", "failed"} /\ source' = source
    <3>1. CASE CollectOwn
      BY <3>1 DEF CollectOwn, ImportDetails, Contents, inputVars, resultVars
    <3>2. CASE TryLoosePath \/ LoosePathDuplicated \/ LooseExhausted \/ PackageMismatched
      BY <3>2 DEF TryLoosePath, LoosePathDuplicated, LooseExhausted, PackageMismatched, inputVars,
         resultVars, splitVars
    <3>3. CASE ImportLoose \/ ImportPackaged
      <4>1. ImportSplitUnit
        BY <3>3 DEF ImportLoose, ImportPackaged
      <4> QED BY <4>1 DEF ImportSplitUnit, ImportDetails, Contents, inputVars, resultVars
    <3>4. CASE FallBack
      BY <3>4 DEF FallBack, ImportDetails, Contents, inputVars, resultVars
    <3> QED BY <3>1, <3>2, <3>3, <3>4
  <2>2. pc \in {"open", "loose", "package"}
    BY DEF CollectOwn, TryLoosePath, LoosePathDuplicated, ImportLoose, LooseExhausted,
       ImportPackaged, PackageMismatched, FallBack
  <2> QED BY <2>1, <2>2 DEF RangesInv
<1>2. CASE pc' = "subprograms" /\ source' # <<>> /\ todo' = Contents'.subprograms
  BY <1>1, <1>2, Begun
<1>3. CASE pc' \in {"loose", "package", "failed"} /\ source' = source
  <2>1. Matched'
    BY <1>1, <1>3, SameFunctions
  <2> QED BY <1>1, <1>3, <2>1 DEF RangesInv, Importing
<1> QED
  BY <1>1, <1>2, <1>3

\* The first of what is left is at the cursor.
LEMMA AtCursor ==
  ASSUME RangesInv, Importing
  PROVE  /\ Current \in 1..Len(Contents.subprograms) + 1 /\ Len(Contents.subprograms) \in Nat
         /\ todo = <<>> <=> Current = Len(Contents.subprograms) + 1
         /\ todo # <<>> => /\ Current \in DOMAIN Contents.subprograms
                           /\ Head(todo) = Contents.subprograms[Current]
                           /\ Tail(todo) = SubSeq(Contents.subprograms, Current + 1,
                                                 Len(Contents.subprograms))
                           /\ Len(Tail(todo)) = Len(todo) - 1 /\ Len(todo) \in Nat
                           /\ Listed \in Seq(Ranges) /\ Len(Listed) \in Nat
         /\ pc \in {"ranges", "walk"} =>
              /\ todo # <<>> /\ Place \in 1..Len(Listed) + 1
              /\ ranges = <<>> <=> Place = Len(Listed) + 1
              /\ ranges # <<>> => /\ Place \in 1..Len(Listed)
                                  /\ Head(ranges) = RangeAt(Cursor)
                                  /\ Tail(ranges) = SubSeq(Listed, Place + 1, Len(Listed))
                                  /\ Len(Tail(ranges)) = Len(ranges) - 1 /\ Len(ranges) \in Nat
                                  /\ Cursor \in RangesMet
                                  /\ Cursor \in ToImport <=> Wanted(Head(ranges))
<1> DEFINE subs == Contents.subprograms
<1>1. /\ subs \in Seq(Range(subs)) /\ Len(subs) \in Nat /\ DOMAIN subs = 1..Len(subs)
      /\ \A i \in DOMAIN subs : subs[i].ranges \in Seq(Ranges)
  BY ContentsTyped DEF RangesInv
<1>2. Rest
  BY DEF RangesInv
<1>3. Current \in 1..Len(subs) + 1 /\ todo = SubSeq(subs, Current, Len(subs))
  BY <1>2 DEF Rest
<1>5. /\ todo = <<>> <=> Current = Len(subs) + 1
      /\ todo \in Seq(Range(subs))
      /\ todo # <<>> => /\ Current \in DOMAIN subs /\ Head(todo) = subs[Current]
                        /\ Tail(todo) = SubSeq(subs, Current + 1, Len(subs))
  <2> HIDE DEF subs
  <2> QED BY <1>1, <1>3, RestOf
<1>6. todo # <<>> => /\ Len(Tail(todo)) = Len(todo) - 1 /\ Len(todo) \in Nat
                   /\ Listed \in Seq(Ranges) /\ Len(Listed) \in Nat
  <2>1. todo # <<>> => Listed \in Seq(Ranges)
    BY <1>1, <1>5 DEF Listed
  <2> QED BY <1>5, <2>1
<1>7. ASSUME pc \in {"ranges", "walk"}
      PROVE  /\ todo # <<>> /\ Place \in 1..Len(Listed) + 1
             /\ ranges = <<>> <=> Place = Len(Listed) + 1
             /\ ranges # <<>> => /\ Place \in 1..Len(Listed)
                                 /\ Head(ranges) = RangeAt(Cursor)
                                 /\ Tail(ranges) = SubSeq(Listed, Place + 1, Len(Listed))
                                 /\ Len(Tail(ranges)) = Len(ranges) - 1 /\ Len(ranges) \in Nat
                                 /\ Cursor \in RangesMet
                                 /\ Cursor \in ToImport <=> Wanted(Head(ranges))
  <2>1. todo # <<>>
    BY <1>2, <1>5, <1>7 DEF Rest
  <2>2. /\ Place \in 1..Len(Listed) + 1 /\ ranges = SubSeq(Listed, Place, Len(Listed))
        /\ Listed \in Seq(Ranges) /\ Len(Listed) \in Nat
        /\ ranges # <<>> => \A k \in 1..Place - 1 : Listed[k] # Broken
        /\ Contents.subprograms[Current].name # <<>>
    BY <1>2, <1>6, <1>7, <2>1 DEF Rest
  <2>4. /\ ranges = <<>> <=> Place = Len(Listed) + 1
        /\ ranges \in Seq(Ranges)
        /\ ranges # <<>> => /\ Place \in 1..Len(Listed) /\ Head(ranges) = Listed[Place]
                            /\ Tail(ranges) = SubSeq(Listed, Place + 1, Len(Listed))
    BY <2>2, RestOf, Zenon
  <2>5. \A k : RangeAt(<<Current, k>>) = Listed[k]
    BY DEF RangeAt, Listed
  <2>6. ranges # <<>> => Cursor \in RangesMet
    <3>1. Current \in DOMAIN Contents.subprograms
      BY <1>5, <2>1
    <3>2. ranges # <<>> => Place \in DOMAIN Contents.subprograms[Current].ranges
      BY <2>2, <2>4 DEF Listed
    <3> QED BY <2>2, <2>5, <3>1, <3>2, MetAt DEF RangesInv, Cursor
  <2>7. ranges # <<>> => Head(ranges) = RangeAt(Cursor)
    BY <2>4, <2>5 DEF Cursor
  <2>8. ranges # <<>> => Len(Tail(ranges)) = Len(ranges) - 1 /\ Len(ranges) \in Nat
    BY <2>4
  <2>9. ranges # <<>> => (Cursor \in ToImport <=> Wanted(Head(ranges)))
    BY <2>6, <2>7 DEF ToImport, Wanted
  <2> QED BY <2>1, <2>2, <2>4, <2>6, <2>7, <2>8, <2>9
<1> QED
  BY <1>1, <1>3, <1>5, <1>6, <1>7

\* The positions before the first range of the next subprogram are those before
\* the end of this one's list; a subprogram without a name has none.
LEMMA PrecedingNext ==
  ASSUME unit \in Units, NEW S \in SUBSET RangesMet, NEW i \in DOMAIN Contents.subprograms
  PROVE  LET m == Len(Contents.subprograms[i].ranges)
         IN /\ Preceding(S, <<i + 1, 1>>) = Preceding(S, <<i, m + 1>>)
            /\ Contents.subprograms[i].name = <<>> =>
                 Preceding(S, <<i + 1, 1>>) = Preceding(S, <<i, 1>>)
<1> DEFINE m == Len(Contents.subprograms[i].ranges)
<1>1. i \in Nat /\ m \in Nat
  BY ContentsTyped
<1>2. ASSUME NEW p \in S
      PROVE  /\ p[1] \in Nat /\ p[2] \in Nat \ {0}
             /\ p[1] = i => p[2] <= m /\ Contents.subprograms[i].name # <<>>
  <2>1. p = <<p[1], p[2]>> /\ p[1] \in Nat
    BY MetAt
  <2>2. /\ p[1] \in DOMAIN Contents.subprograms
        /\ p[2] \in DOMAIN Contents.subprograms[p[1]].ranges
        /\ Contents.subprograms[p[1]].name # <<>>
    BY <2>1, MetAt
  <2> QED BY <2>1, <2>2, ContentsTyped
<1> HIDE DEF m
<1>3. \A p \in S : Earlier(p, <<i + 1, 1>>) <=> Earlier(p, <<i, m + 1>>)
  BY <1>1, <1>2 DEF Earlier
<1>4. Contents.subprograms[i].name = <<>> => \A p \in S : Earlier(p, <<i + 1, 1>>) <=> Earlier(p, <<i, 1>>)
  BY <1>1, <1>2 DEF Earlier
<1> QED
  BY <1>3, <1>4 DEF m, Preceding

\* One position further in the list of a subprogram.
LEMMA PrecedingPosition ==
  ASSUME NEW S \in SUBSET (Nat \X Nat), NEW i \in Nat, NEW j \in Nat
  PROVE  Preceding(S, <<i, j + 1>>) = Preceding(S, <<i, j>>) \cup (S \cap {<<i, j>>})
<1>1. ASSUME NEW p \in S
      PROVE  Earlier(p, <<i, j + 1>>) <=> Earlier(p, <<i, j>>) \/ p = <<i, j>>
  <2>1. p = <<p[1], p[2]>> /\ p[1] \in Nat /\ p[2] \in Nat
    OBVIOUS
  <2> QED BY <2>1 DEF Earlier
<1> QED
  BY <1>1 DEF Preceding

LEMMA CountFurther ==
  ASSUME NEW S \in SUBSET (Nat \X Nat), IsFiniteSet(S), NEW i \in Nat, NEW j \in Nat
  PROVE  Cardinality(Preceding(S, <<i, j + 1>>))
           = Cardinality(Preceding(S, <<i, j>>)) + IF <<i, j>> \in S THEN 1 ELSE 0
<1>1. <<i, j>> \in Nat \X Nat
  OBVIOUS
<1>2. Preceding(S, <<i, j + 1>>) = Preceding(S, <<i, j>>) \cup (S \cap {<<i, j>>})
  BY PrecedingPosition
<1> QED
  BY <1>1, <1>2, CountNext

\* Behind a range that cannot be read nothing of its subprogram is met.
LEMMA PrecedingBroken ==
  ASSUME unit \in Units, NEW S \in SUBSET RangesMet, NEW i \in DOMAIN Contents.subprograms,
         NEW j \in DOMAIN Contents.subprograms[i].ranges, RangeAt(<<i, j>>) = Broken
  PROVE  Preceding(S, <<i, Len(Contents.subprograms[i].ranges) + 1>>) = Preceding(S, <<i, j + 1>>)
<1> DEFINE m == Len(Contents.subprograms[i].ranges)
<1>1. i \in Nat /\ m \in Nat /\ j \in 1..m
  BY ContentsTyped
<1>2. ASSUME NEW p \in S
      PROVE  p[1] \in Nat /\ p[2] \in Nat /\ (p[1] = i => p[2] <= j)
  <2>1. p = <<p[1], p[2]>> /\ p[1] \in Nat /\ p[2] \in Nat
    BY MetAt
  <2>2. p[1] = i => \A k \in 1..p[2] - 1 : RangeAt(<<i, k>>) # Broken
    BY <2>1, MetAt
  <2> QED BY <1>1, <2>1, <2>2
<1> HIDE DEF m
<1>3. \A p \in S : Earlier(p, <<i, m + 1>>) <=> Earlier(p, <<i, j + 1>>)
  BY <1>1, <1>2 DEF Earlier
<1> QED
  BY <1>3 DEF m, Preceding

LEMMA SetsTyped ==
  ASSUME RangesInv
  PROVE  /\ RangesMet \in SUBSET (Nat \X Nat) /\ ToImport \in SUBSET (Nat \X Nat)
         /\ ToImport \in SUBSET RangesMet
         /\ IsFiniteSet(RangesMet) /\ IsFiniteSet(ToImport)
         /\ Len(functions) \in Nat
BY MetAt, MetFinite DEF RangesInv, ToImport

LEMMA KeepsNextSubprogram ==
  ASSUME RangesInv, NextSubprogram
  PROVE  RangesInv'
<1>1. /\ pc = "subprograms" /\ todo # <<>> /\ UNCHANGED <<unit, source, functions, rejected>>
      /\ \/ Head(todo).name = <<>> /\ todo' = Tail(todo) /\ pc' = pc /\ ranges' = ranges
         \/ Head(todo).name # <<>> /\ pc' = "ranges" /\ ranges' = Head(todo).ranges /\ todo' = todo
  BY DEF NextSubprogram, inputVars, splitVars, resultVars
<1>2. Matched' /\ Contents' = Contents /\ RangesMet' = RangesMet /\ ToImport' = ToImport
  BY <1>1, SameOrigins, SameFunctions
<1>3. Rest /\ Counted /\ Importing /\ source # <<>>
  BY <1>1 DEF RangesInv, Importing
<1>4. /\ Current \in DOMAIN Contents.subprograms /\ Head(todo) = Contents.subprograms[Current]
      /\ Tail(todo) = SubSeq(Contents.subprograms, Current + 1, Len(Contents.subprograms))
      /\ Len(Tail(todo)) = Len(todo) - 1 /\ Len(todo) \in Nat
      /\ Listed \in Seq(Ranges) /\ Len(Listed) \in Nat
      /\ Current \in 1..Len(Contents.subprograms) + 1 /\ Len(Contents.subprograms) \in Nat
  BY <1>1, <1>3, AtCursor
<1>5. Place = 1 /\ Cursor = <<Current, 1>>
  BY <1>1 DEF Place, Cursor
<1>6. CASE Head(todo).name = <<>> /\ todo' = Tail(todo) /\ pc' = pc
  <2>1. Current' = Current + 1 /\ Place' = 1
    BY <1>1, <1>2, <1>4, <1>6 DEF Current, Place
  <2>2. Cursor' = <<Current + 1, 1>>
    BY <2>1 DEF Cursor
  <2>3. Rest'
    <3>1. Current + 1 \in 1..Len(Contents.subprograms) + 1
      BY <1>4, ContentsTyped DEF RangesInv
    <3> QED BY <1>1, <1>2, <1>4, <1>6, <2>1, <3>1 DEF Rest
  <2>4. /\ Preceding(RangesMet, <<Current + 1, 1>>) = Preceding(RangesMet, <<Current, 1>>)
        /\ Preceding(ToImport, <<Current + 1, 1>>) = Preceding(ToImport, <<Current, 1>>)
    BY <1>4, <1>6, PrecedingNext, SetsTyped DEF RangesInv
  <2>5. Counted'
    BY <1>1, <1>2, <1>3, <1>5, <2>2, <2>4 DEF Counted
  <2> QED BY <1>1, <1>2, <1>3, <1>6, <2>3, <2>5 DEF RangesInv, Importing
<1>7. CASE Head(todo).name # <<>> /\ pc' = "ranges" /\ ranges' = Head(todo).ranges /\ todo' = todo
  <2>1. Current' = Current /\ Listed' = Listed /\ ranges' = Listed
    BY <1>2, <1>4, <1>7 DEF Current, Listed
  <2>2. Place' = 1 /\ Cursor' = Cursor
    <3>1. Place' = Len(Listed') - Len(ranges') + 1
      BY <1>7 DEF Place
    <3>2. Len(Listed') = Len(Listed) /\ Len(ranges') = Len(Listed)
      BY <2>1
    <3>3. Place' = 1
      BY <1>4, <3>1, <3>2
    <3> QED BY <1>5, <2>1, <3>3 DEF Cursor
  <2>3. ranges' = SubSeq(Listed, 1, Len(Listed))
    BY <1>4, <2>1
  <2>4. Rest'
    <3>1. Current # Len(Contents.subprograms) + 1
      BY <1>4, ContentsTyped DEF RangesInv
    <3>2. Place' \in 1..Len(Listed') + 1 /\ Place' - 1 = 0
      BY <1>4, <2>1, <2>2
    <3>3. todo' = SubSeq(Contents.subprograms, Current, Len(Contents.subprograms))
      BY <1>3, <1>7 DEF Rest
    <3>4. Contents.subprograms[Current].name # <<>>
      BY <1>4, <1>7
    <3>5. ranges' = SubSeq(Listed', Place', Len(Listed'))
      BY <2>1, <2>2, <2>3
    <3>6. \A k \in 1..Place' - 1 : Listed'[k] # Broken
      BY <3>2
    <3> QED BY <1>2, <1>4, <1>7, <2>1, <3>1, <3>2, <3>3, <3>4, <3>5, <3>6 DEF Rest
  <2>5. Counted'
    BY <1>1, <1>2, <1>3, <2>2 DEF Counted
  <2> QED BY <1>1, <1>2, <1>3, <1>7, <2>4, <2>5 DEF RangesInv, Importing
<1> QED
  BY <1>1, <1>6, <1>7

LEMMA KeepsRangesDone ==
  ASSUME RangesInv, RangesDone
  PROVE  RangesInv'
<1>1. /\ pc = "ranges" /\ ranges = <<>> /\ UNCHANGED <<unit, source, functions, rejected>>
      /\ pc' = "subprograms" /\ todo' = Tail(todo)
  BY DEF RangesDone, inputVars, splitVars, resultVars
<1>2. Matched' /\ Contents' = Contents /\ RangesMet' = RangesMet /\ ToImport' = ToImport
  BY <1>1, SameOrigins, SameFunctions
<1>3. Rest /\ Counted /\ Importing /\ source # <<>>
  BY <1>1 DEF RangesInv, Importing
<1>4. /\ Current \in DOMAIN Contents.subprograms
      /\ Tail(todo) = SubSeq(Contents.subprograms, Current + 1, Len(Contents.subprograms))
      /\ Len(Tail(todo)) = Len(todo) - 1 /\ Len(todo) \in Nat
      /\ Current \in 1..Len(Contents.subprograms) + 1 /\ Len(Contents.subprograms) \in Nat
      /\ Place = Len(Listed) + 1
  BY <1>1, <1>3, AtCursor
<1>5. Cursor = <<Current, Len(Contents.subprograms[Current].ranges) + 1>>
  BY <1>4 DEF Cursor, Listed
<1>6. Current' = Current + 1 /\ Place' = 1
  <2>1. Len(todo') = Len(todo) - 1
    BY <1>1, <1>4
  <2>2. Current' = Current + 1
    BY <1>2, <1>4, <2>1 DEF Current
  <2> QED BY <1>1, <2>2 DEF Place
<1>7. Cursor' = <<Current + 1, 1>>
  BY <1>6 DEF Cursor
<1>8. Rest'
  <2>1. Current + 1 \in 1..Len(Contents.subprograms) + 1
    BY <1>4, ContentsTyped DEF RangesInv
  <2> QED BY <1>1, <1>2, <1>4, <1>6, <2>1 DEF Rest
<1>9. /\ Preceding(RangesMet, <<Current + 1, 1>>) = Preceding(RangesMet, Cursor)
      /\ Preceding(ToImport, <<Current + 1, 1>>) = Preceding(ToImport, Cursor)
  BY <1>4, <1>5, PrecedingNext, SetsTyped DEF RangesInv
<1>10. Counted'
  BY <1>1, <1>2, <1>3, <1>7, <1>9 DEF Counted
<1> QED
  BY <1>1, <1>2, <1>3, <1>8, <1>10 DEF RangesInv, Importing

\* A step that moves the cursor to another position of the list.
LEMMA MovesTo ==
  ASSUME RangesInv, pc \in {"ranges", "walk"}, ranges # <<>>, pc' = "ranges",
         UNCHANGED <<unit, source, todo>>, NEW n \in 1..Len(Listed) + 1,
         ranges' = SubSeq(Listed, n, Len(Listed)),
         ranges' # <<>> => \A k \in 1..n - 1 : Listed[k] # Broken
  PROVE  Rest' /\ Cursor' = <<Current, n>>
<1>1. Contents' = Contents
  BY SameOrigins
<1>2. Rest /\ Importing
  BY DEF RangesInv, Importing
<1>3. Current' = Current /\ Listed' = Listed
  BY <1>1 DEF Current, Listed
<1>4. Listed \in Seq(Ranges) /\ Len(Listed) \in Nat
  BY <1>2, AtCursor
<1>5. Len(ranges') = Len(Listed) - n + 1
  BY <1>4, RestOf, Zenon
<1>6. Place' = n
  <2>1. Place' = Len(Listed) - Len(ranges') + 1
    BY <1>3 DEF Place
  <2> QED BY <1>4, <1>5, <2>1
<1>7. Rest'
  <2>1. todo' = SubSeq(Contents.subprograms, Current, Len(Contents.subprograms))
    BY <1>2 DEF Rest
  <2>2. /\ Current \in 1..Len(Contents.subprograms) + 1
        /\ Current # Len(Contents.subprograms) + 1
        /\ Contents.subprograms[Current].name # <<>>
    BY <1>2 DEF Rest
  <2> QED BY <1>1, <1>3, <1>6, <2>1, <2>2 DEF Rest
<1> QED
  BY <1>3, <1>6, <1>7 DEF Cursor

LEMMA AtPosition ==
  ASSUME RangesInv, pc \in {"ranges", "walk"}, ranges # <<>>
  PROVE  /\ Importing /\ Counted /\ source # <<>> /\ unit \in Units /\ rejected \in Nat
         /\ Current \in DOMAIN Contents.subprograms /\ Current \in Nat
         /\ Head(todo) = Contents.subprograms[Current]
         /\ Listed \in Seq(Ranges) /\ Len(Listed) \in Nat
         /\ Place \in 1..Len(Listed) /\ Place \in Nat /\ Cursor = <<Current, Place>>
         /\ Place \in DOMAIN Contents.subprograms[Current].ranges
         /\ Head(ranges) = RangeAt(Cursor)
         /\ Tail(ranges) = SubSeq(Listed, Place + 1, Len(Listed))
         /\ Cursor \in RangesMet
         /\ Cursor \in ToImport <=> Wanted(Head(ranges))
<1>1. Importing /\ Counted /\ source # <<>> /\ unit \in Units /\ rejected \in Nat
  BY DEF RangesInv, Importing
<1>2. todo # <<>>
  BY <1>1, AtCursor
<1>3. /\ Current \in DOMAIN Contents.subprograms /\ Listed \in Seq(Ranges) /\ Len(Listed) \in Nat
      /\ Head(todo) = Contents.subprograms[Current]
  BY <1>1, <1>2, AtCursor
<1>4. /\ Place \in 1..Len(Listed) /\ Head(ranges) = RangeAt(Cursor)
      /\ Tail(ranges) = SubSeq(Listed, Place + 1, Len(Listed))
      /\ Cursor \in RangesMet
      /\ Cursor \in ToImport <=> Wanted(Head(ranges))
  <2>1. ranges # <<>> => /\ Place \in 1..Len(Listed)
                         /\ Head(ranges) = RangeAt(Cursor)
                         /\ Tail(ranges) = SubSeq(Listed, Place + 1, Len(Listed))
                         /\ Cursor \in RangesMet
                         /\ Cursor \in ToImport <=> Wanted(Head(ranges))
    BY <1>1, AtCursor
  <2> QED BY <2>1
<1>5. Current \in Nat /\ Place \in Nat /\ Place \in DOMAIN Contents.subprograms[Current].ranges
  BY <1>1, <1>3, <1>4, ContentsTyped DEF Listed
<1> QED
  BY <1>1, <1>3, <1>4, <1>5 DEF Cursor

LEMMA KeepsStopRanges ==
  ASSUME RangesInv, StopRanges
  PROVE  RangesInv'
<1>1. /\ pc = "ranges" /\ pc' = "ranges" /\ ranges # <<>> /\ Head(ranges) = Broken
      /\ UNCHANGED <<unit, source, todo, functions>> /\ ranges' = <<>> /\ rejected' = rejected + 1
  BY DEF StopRanges, inputVars, splitVars
<1>2. Matched' /\ Contents' = Contents /\ RangesMet' = RangesMet /\ ToImport' = ToImport
  BY <1>1, SameOrigins, SameFunctions
<1>3. Counted /\ Importing /\ source # <<>> /\ unit \in Units /\ rejected \in Nat
  BY <1>1, AtPosition
<1>4. /\ Current \in DOMAIN Contents.subprograms
      /\ Listed \in Seq(Ranges) /\ Len(Listed) \in Nat
      /\ Place \in 1..Len(Listed) /\ RangeAt(Cursor) = Broken
      /\ Cursor \in RangesMet /\ Cursor \notin ToImport
  BY <1>1, AtPosition DEF Wanted
<1>5. Rest' /\ Cursor' = <<Current, Len(Listed) + 1>>
  <2>1. SubSeq(Listed, Len(Listed) + 1, Len(Listed)) = <<>>
    BY <1>4
  <2>2. Len(Listed) + 1 \in 1..Len(Listed) + 1
    BY <1>4
  <2> QED BY <1>1, <2>1, <2>2, MovesTo
<1>6. Cursor = <<Current, Place>> /\ Current \in Nat /\ Place \in Nat
      /\ Place \in DOMAIN Contents.subprograms[Current].ranges
  BY <1>1, AtPosition
<1>7. \A S \in SUBSET RangesMet : Preceding(S, Cursor') = Preceding(S, <<Current, Place + 1>>)
  BY <1>3, <1>4, <1>5, <1>6, PrecedingBroken DEF Listed
<1>8. /\ Cardinality(Preceding(RangesMet, Cursor')) = Cardinality(Preceding(RangesMet, Cursor)) + 1
      /\ Cardinality(Preceding(ToImport, Cursor')) = Cardinality(Preceding(ToImport, Cursor)) + 0
  <2>1. /\ Preceding(RangesMet, Cursor') = Preceding(RangesMet, <<Current, Place + 1>>)
        /\ Preceding(ToImport, Cursor') = Preceding(ToImport, <<Current, Place + 1>>)
    BY <1>7, SetsTyped
  <2>2. /\ Cardinality(Preceding(RangesMet, <<Current, Place + 1>>))
             = Cardinality(Preceding(RangesMet, <<Current, Place>>)) + 1
        /\ Cardinality(Preceding(ToImport, <<Current, Place + 1>>))
             = Cardinality(Preceding(ToImport, <<Current, Place>>)) + 0
    BY <1>4, <1>6, SetsTyped, CountFurther
  <2> QED BY <1>6, <2>1, <2>2
<1>9. Counted'
  <2>1. Cardinality(Preceding(ToImport, Cursor)) \in Nat /\ Cardinality(Preceding(RangesMet, Cursor)) \in Nat
    BY SetsTyped, CountPreceding
  <2>2. Len(functions') = Len(functions) /\ Len(functions) \in Nat
    BY <1>1, SetsTyped
  <2> QED BY <1>1, <1>2, <1>3, <1>8, <2>1, <2>2 DEF Counted
<1> QED
  BY <1>1, <1>2, <1>3, <1>5, <1>9 DEF RangesInv, Importing

\* A step past one position of the list, which imports it or rejects it.
LEMMA MovesOn ==
  ASSUME RangesInv, pc \in {"ranges", "walk"}, ranges # <<>>, Head(ranges) # Broken, pc' = "ranges",
         UNCHANGED <<unit, source, todo>>, ranges' = Tail(ranges)
  PROVE  /\ Rest'
         /\ Cardinality(Preceding(RangesMet', Cursor')) = Cardinality(Preceding(RangesMet, Cursor)) + 1
         /\ Cardinality(Preceding(ToImport', Cursor'))
              = Cardinality(Preceding(ToImport, Cursor)) + IF Cursor \in ToImport THEN 1 ELSE 0
<1>1. RangesMet' = RangesMet /\ ToImport' = ToImport
  BY SameOrigins
<1>2. /\ Place \in 1..Len(Listed) /\ Len(Listed) \in Nat /\ Place \in Nat /\ Current \in Nat
      /\ Cursor = <<Current, Place>> /\ Cursor \in RangesMet
      /\ Tail(ranges) = SubSeq(Listed, Place + 1, Len(Listed))
  BY AtPosition
<1>3. \A k \in 1..(Place + 1) - 1 : Listed[k] # Broken
  <2>1. \A k \in 1..Place - 1 : Listed[k] # Broken
    BY DEF RangesInv, Importing, Rest
  <2>2. Listed[Place] # Broken
    BY AtPosition DEF RangeAt, Listed, Cursor
  <2> QED BY <1>2, <2>1, <2>2
<1>4. Rest' /\ Cursor' = <<Current, Place + 1>>
  <2>1. Place + 1 \in 1..Len(Listed) + 1
    BY <1>2
  <2> QED BY <1>2, <1>3, <2>1, MovesTo
<1>5. /\ Cardinality(Preceding(RangesMet, <<Current, Place + 1>>))
           = Cardinality(Preceding(RangesMet, Cursor)) + 1
      /\ Cardinality(Preceding(ToImport, <<Current, Place + 1>>))
           = Cardinality(Preceding(ToImport, Cursor)) + IF Cursor \in ToImport THEN 1 ELSE 0
  <2>1. /\ RangesMet \in SUBSET (Nat \X Nat) /\ IsFiniteSet(RangesMet)
        /\ ToImport \in SUBSET (Nat \X Nat) /\ IsFiniteSet(ToImport)
    BY SetsTyped
  <2>2. Cardinality(Preceding(RangesMet, <<Current, Place + 1>>))
          = Cardinality(Preceding(RangesMet, <<Current, Place>>)) + 1
    BY <1>2, <2>1, CountFurther
  <2>3. Cardinality(Preceding(ToImport, <<Current, Place + 1>>))
          = Cardinality(Preceding(ToImport, <<Current, Place>>))
              + IF <<Current, Place>> \in ToImport THEN 1 ELSE 0
    BY <1>2, <2>1, CountFurther
  <2> QED BY <1>2, <2>2, <2>3
<1> QED
  BY <1>1, <1>4, <1>5

LEMMA KeepsRejectRange ==
  ASSUME RangesInv, RejectRange
  PROVE  RangesInv'
<1>1. /\ pc = "ranges" /\ pc' = "ranges" /\ ranges # <<>> /\ Head(ranges) # Broken
      /\ Tombstoned(Head(ranges)) \/ ~Live(Head(ranges))
      /\ UNCHANGED <<unit, source, todo, functions>>
      /\ ranges' = Tail(ranges) /\ rejected' = rejected + 1
  BY DEF RejectRange, Dropped, inputVars, splitVars
<1>2. Matched'
  BY <1>1, SameFunctions
<1>3. Counted /\ source # <<>> /\ unit \in Units /\ rejected \in Nat /\ Cursor \notin ToImport
  BY <1>1, AtPosition DEF Wanted
<1>4. /\ Rest'
      /\ Cardinality(Preceding(RangesMet', Cursor')) = Cardinality(Preceding(RangesMet, Cursor)) + 1
      /\ Cardinality(Preceding(ToImport', Cursor')) = Cardinality(Preceding(ToImport, Cursor)) + 0
  BY <1>1, <1>3, MovesOn
<1>5. Counted'
  <2>1. Cardinality(Preceding(ToImport, Cursor)) \in Nat /\ Cardinality(Preceding(RangesMet, Cursor)) \in Nat
    BY SetsTyped, CountPreceding
  <2>2. Len(functions') = Len(functions) /\ Len(functions) \in Nat
    BY <1>1, SetsTyped
  <2> QED BY <1>1, <1>3, <1>4, <2>1, <2>2 DEF Counted
<1> QED
  BY <1>1, <1>2, <1>3, <1>4, <1>5 DEF RangesInv, Importing

\* A sequence holds its elements, and those appended to it.
LEMMA AppendedTo ==
  ASSUME NEW s, s \in Seq(Range(s)), NEW x
  PROVE  /\ Append(s, x) \in Seq(Range(Append(s, x))) /\ Len(Append(s, x)) = Len(s) + 1
         /\ Len(s) \in Nat /\ Append(s, x)[Len(s) + 1] = x
         /\ \A i \in 1..Len(s) : Append(s, x)[i] = s[i]
<1>1. s \in Seq(Range(s) \cup {x}) /\ Len(s) \in Nat
  OBVIOUS
<1>2. /\ Append(s, x) \in Seq(Range(s) \cup {x}) /\ Len(Append(s, x)) = Len(s) + 1
      /\ Len(s) \in Nat /\ Append(s, x)[Len(s) + 1] = x
      /\ \A i \in 1..Len(s) : Append(s, x)[i] = s[i]
  BY <1>1
<1>3. Append(s, x) \in Seq(Range(Append(s, x)))
  <2> DEFINE t == Append(s, x)
  <2>1. t \in Seq(Range(s) \cup {x})
    BY <1>2
  <2> HIDE DEF t
  <2>2. \A i \in 1..Len(t) : t[i] \in Range(t)
    BY <2>1 DEF Range
  <2>3. t \in Seq(Range(t))
    BY <2>1, <2>2
  <2> QED BY <2>3 DEF t
<1> QED
  BY <1>2, <1>3

LEMMA KeepsFinishFunction ==
  ASSUME RangesInv, FinishFunction
  PROVE  RangesInv'
<1>1. /\ pc = "walk" /\ UNCHANGED <<unit, source, todo, rejected>>
      /\ \/ pc' = "refused" /\ functions' = functions
         \/ pc' = "ranges" /\ ranges' = Tail(ranges)
  BY DEF FinishFunction, inputVars, splitVars
<1>2. CASE pc' = "refused" /\ functions' = functions
  <2>1. Matched'
    BY <1>1, <1>2, SameFunctions
  <2> QED BY <1>1, <1>2, <2>1 DEF RangesInv, Importing
<1>3. CASE pc' = "ranges" /\ ranges' = Tail(ranges)
  <2>1. PICK f : /\ functions' = Append(functions, f) /\ f.name = Head(todo).name
                 /\ f.start = Head(ranges).start /\ f.end = Head(ranges).end
    BY <1>3 DEF FinishFunction
  <2>2. ranges # <<>> /\ Wanted(Head(ranges))
    BY <1>1 DEF RangesInv, Importing, Rest
  <2>3. /\ Counted /\ source # <<>> /\ unit \in Units /\ rejected \in Nat /\ Cursor \in ToImport
        /\ Head(todo) = Contents.subprograms[Current] /\ Head(ranges) = RangeAt(Cursor)
        /\ Cursor = <<Current, Place>>
    BY <1>1, <2>2, AtPosition
  <2>4. /\ Rest'
        /\ Cardinality(Preceding(RangesMet', Cursor')) = Cardinality(Preceding(RangesMet, Cursor)) + 1
        /\ Cardinality(Preceding(ToImport', Cursor')) = Cardinality(Preceding(ToImport, Cursor)) + 1
    BY <1>1, <1>3, <2>2, <2>3, MovesOn DEF Wanted
  <2>5. /\ functions \in Seq(Range(functions)) /\ functions' \in Seq(Range(functions'))
        /\ Len(functions') = Len(functions) + 1 /\ Len(functions) \in Nat
        /\ functions'[Len(functions) + 1] = f
        /\ \A i \in 1..Len(functions) : functions'[i] = functions[i]
    BY <2>1, AppendedTo DEF RangesInv
  <2>6. Counted'
    <3>1. Cardinality(Preceding(ToImport, Cursor)) \in Nat /\ Cardinality(Preceding(RangesMet, Cursor)) \in Nat
      BY SetsTyped, CountPreceding
    <3>2. /\ Len(functions) = Cardinality(Preceding(ToImport, Cursor))
          /\ Len(functions) + rejected = Cardinality(Preceding(RangesMet, Cursor))
      BY <2>3 DEF Counted
    <3>3. rejected' = rejected
      BY <1>1
    <3>4. /\ Len(functions') = Cardinality(Preceding(ToImport', Cursor'))
          /\ Len(functions') + rejected' = Cardinality(Preceding(RangesMet', Cursor'))
      BY <2>3, <2>4, <2>5, <3>1, <3>2, <3>3
    <3> QED BY <3>4 DEF Counted
  <2>7. LET n == Len(functions) + 1
        IN /\ n \in 1..Cardinality(ToImport)
           /\ Origins[n] = [sub |-> Head(todo), range |-> Head(ranges)]
    <3>1. Len(functions) = Cardinality(Preceding(ToImport, Cursor))
      BY <2>3 DEF Counted
    <3>2. Cursor[1] = Current
      BY <2>3
    <3> QED BY <2>3, <3>1, <3>2, OriginAt
  <2>8. [start |-> f.start, end |-> f.end] = Head(ranges)
    <3>1. Head(ranges) \in [start : Nat, end : Nat]
      <4>1. Listed \in Seq(Ranges) /\ Place \in 1..Len(Listed) /\ Head(ranges) = Listed[Place]
        BY <1>1, <2>2, AtPosition DEF RangeAt, Listed
      <4> QED BY <2>2, <4>1 DEF Ranges, Wanted
    <3> QED BY <2>1, <3>1
  <2>9. Matched'
    <3>1. ToImport' = ToImport /\ Origins' = Origins
      BY <1>1, SameOrigins
    <3>2. ASSUME NEW i \in 1..Len(functions)
          PROVE  /\ i \in 1..Cardinality(ToImport)
                 /\ functions'[i].name = Origins[i].sub.name
                 /\ [start |-> functions'[i].start, end |-> functions'[i].end] = Origins[i].range
      BY <2>5 DEF RangesInv, Matched
    <3>3. LET n == Len(functions) + 1
          IN /\ n \in 1..Cardinality(ToImport)
             /\ functions'[n].name = Origins[n].sub.name
             /\ [start |-> functions'[n].start, end |-> functions'[n].end] = Origins[n].range
      BY <2>1, <2>5, <2>7, <2>8
    <3>4. \A i \in 1..Len(functions') : i \in 1..Len(functions) \/ i = Len(functions) + 1
      BY <2>5
    <3> QED BY <3>1, <3>2, <3>3, <3>4 DEF Matched
  <2> QED BY <1>1, <1>3, <2>3, <2>4, <2>5, <2>6, <2>9 DEF RangesInv, Importing
<1> QED
  BY <1>1, <1>2, <1>3

LEMMA KeepsFinish ==
  ASSUME RangesInv, Finish
  PROVE  RangesInv'
<1>1. /\ pc = "subprograms" /\ todo = <<>> /\ pc' = "done"
      /\ UNCHANGED <<unit, source, todo, functions, rejected>>
  BY DEF Finish, inputVars, splitVars, resultVars
<1>2. Matched' /\ Contents' = Contents /\ RangesMet' = RangesMet /\ ToImport' = ToImport
  BY <1>1, SameOrigins, SameFunctions
<1>3. Rest /\ Counted /\ Importing /\ source # <<>>
  BY <1>1 DEF RangesInv, Importing
<1>4. Current = Len(Contents.subprograms) + 1
  BY <1>1, <1>3, AtCursor
<1>5. Current' = Current /\ Place' = Place /\ Cursor' = Cursor
  BY <1>1, <1>2 DEF Current, Place, Cursor
<1>6. Rest' /\ Counted'
  BY <1>1, <1>2, <1>3, <1>4, <1>5 DEF Rest, Counted
<1> QED
  BY <1>1, <1>2, <1>3, <1>6 DEF RangesInv, Importing

LEMMA RangesStep == RangesInv /\ [Next]_vars => RangesInv'
<1> SUFFICES ASSUME RangesInv, [Next]_vars PROVE RangesInv'
  OBVIOUS
<1>1. CASE \/ CollectOwn \/ TryLoosePath \/ LoosePathDuplicated \/ ImportLoose \/ LooseExhausted
          \/ ImportPackaged \/ PackageMismatched \/ FallBack
  BY <1>1, SourceKeepsRanges
<1>2. CASE NextSubprogram
  BY <1>2, KeepsNextSubprogram
<1>3. CASE RangesDone
  BY <1>3, KeepsRangesDone
<1>4. CASE StopRanges
  BY <1>4, KeepsStopRanges
<1>5. CASE RejectRange
  BY <1>5, KeepsRejectRange
<1>6. CASE BeginFunction \/ VisitInline \/ VisitOther
  <2>1. /\ UNCHANGED <<unit, source, todo, ranges, functions, rejected>>
        /\ pc \in {"ranges", "walk"} /\ pc' = "walk"
        /\ pc = "walk" \/ (ranges # <<>> /\ Wanted(Head(ranges)))
    BY <1>6 DEF Wanted, BeginFunction, VisitInline, VisitOther, Visiting, inputVars, splitVars, resultVars
  <2> QED BY <2>1, StaysAt
<1>7. CASE WalkFails
  <2>1. UNCHANGED <<unit, source, functions, rejected>> /\ pc' = "failed"
    BY <1>7 DEF WalkFails, inputVars, splitVars, resultVars
  <2>2. Matched'
    BY <2>1, SameFunctions
  <2> QED BY <2>1, <2>2 DEF RangesInv, Importing
<1>8. CASE FinishFunction
  BY <1>8, KeepsFinishFunction
<1>9. CASE Finish
  BY <1>9, KeepsFinish
<1>10. CASE UNCHANGED vars
  <2>1. UNCHANGED <<unit, source, todo, ranges, functions, rejected, pc>>
    BY <1>10 DEF vars, inputVars, splitVars, resultVars
  <2>2. /\ Matched' /\ Contents' = Contents /\ RangesMet' = RangesMet /\ ToImport' = ToImport
        /\ Current' = Current /\ Listed' = Listed /\ Place' = Place /\ Cursor' = Cursor
    BY <2>1, SameOrigins, SameFunctions DEF Current, Listed, Place, Cursor
  <2> QED BY <2>1, <2>2 DEF RangesInv, Importing, Rest, Counted
<1> QED
  BY <1>1, <1>2, <1>3, <1>4, <1>5, <1>6, <1>7, <1>8, <1>9, <1>10 DEF Next

LEMMA RangesFromInv == RangesInv => EveryLiveRange
<1> SUFFICES ASSUME RangesInv PROVE EveryLiveRange
  OBVIOUS
<1>1. DOMAIN functions = 1..Len(functions)
  BY DEF RangesInv
<1>2. Cardinality(ToImport) \in Nat /\ Cardinality(RangesMet) \in Nat
  BY SetsTyped, FS_CardinalityType
<1>3. Len(Origins) = Cardinality(ToImport)
  BY <1>2 DEF Origins
<1>4. ASSUME pc = "done"
      PROVE  /\ Preceding(ToImport, Cursor) = ToImport /\ Preceding(RangesMet, Cursor) = RangesMet
             /\ Counted
  <2>1. /\ Counted /\ unit \in Units /\ Current = Len(Contents.subprograms) + 1
    BY <1>4 DEF RangesInv, Importing, Rest
  <2>2. \A p \in RangesMet : Earlier(p, Cursor)
    <3> SUFFICES ASSUME NEW p \in RangesMet PROVE p[1] < Current
      BY DEF Earlier, Cursor
    <3>1. p = <<p[1], p[2]>>
      BY <2>1, MetAt
    <3>2. p[1] \in DOMAIN Contents.subprograms
      BY <2>1, <3>1, MetAt
    <3> QED BY <2>1, <3>2, ContentsTyped
  <2> QED BY <2>1, <2>2, SetsTyped DEF Preceding
<1>5. \A i \in DOMAIN functions :
         /\ i <= Len(Origins)
         /\ functions[i].name = Origins[i].sub.name
         /\ [start |-> functions[i].start, end |-> functions[i].end] = Origins[i].range
  BY <1>1, <1>2, <1>3 DEF RangesInv, Matched
<1> QED
  BY <1>3, <1>4, <1>5 DEF EveryLiveRange, Counted

\* For any unit and any ranges of its subprograms: every live range of a named
\* subprogram becomes one function, in order, and every other one met is counted.
THEOREM LiveRangesImported == Spec => []EveryLiveRange
BY RangesInit, RangesStep, RangesFromInv, PTL DEF Spec

=============================================================================
