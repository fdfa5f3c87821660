------------------------------- MODULE DwarfTrees -------------------------------
(* What the details of an imported function must be: a record that the encoder  *)
(* of FunctionRecord takes, and the trees of its DIEs.                          *)
EXTENDS DwarfUnit, FunctionRecord

\* The walk never builds a function that the builder refuses or the encoder
\* cannot write: ranges are sorted and disjoint whatever the DIEs say, children
\* lie within their parents (make_inline_node, coalesce_ranges).
AcceptedByBuilder ==
  /\ pc # "refused"
  /\ \A f \in Range(functions) : Encodable(f, 0)

RECURSIVE Nodes(_, _, _), Sites(_, _)

Children(dies, i) ==
  {j \in DOMAIN dies : j > i /\ dies[j].depth = (IF i = 0 THEN 1 ELSE dies[i].depth + 1)
                       /\ \A k \in i + 1..j : i = 0 \/ dies[k].depth > dies[i].depth}

Ordered(S) == SetToSortSeq(S, <)

Union(list) == UNION {r.start..r.end - 1 : r \in Range(list)}

\* The nodes below DIE i: of every child that has a name and an address in its
\* parent, with the nodes below it; of another child, the nodes below it.
Nodes(dies, i, parents) ==
  LET Of(j) ==
        LET die == dies[j]
            valid == SelectSeq(die.ranges, LAMBDA r : r.start < r.end /\ Inside(r, parents))
        IN IF die.tag # "inlined" \/ die.name = <<>> \/ valid = <<>> THEN Nodes(dies, j, parents)
           ELSE <<[name |-> die.name, addresses |-> Union(valid), children |-> Nodes(dies, j, Coalesce(valid))]>>
      kids == Ordered(Children(dies, i))
  IN FlattenSeq([k \in DOMAIN kids |-> Of(kids[k])])

\* Call sites below DIE i, those below a site before the site.
Sites(dies, i) ==
  LET kids == Ordered(Children(dies, i))
      Of(j) == Sites(dies, j) \o IF dies[j].tag = "call_site" THEN <<dies[j]>> ELSE <<>>
  IN FlattenSeq([k \in DOMAIN kids |-> Of(kids[k])])

RECURSIVE Tree(_)

Tree(nodes) ==
  [i \in DOMAIN nodes |-> [name |-> nodes[i].name, addresses |-> Union(nodes[i].ranges),
                           children |-> Tree(nodes[i].children)]]

\* The inline tree of a function is the tree of its DIEs without the nodes that
\* have no name or no address in their parent, and its call sites are those of
\* its DIEs whose return address it contains: leaving a subtree, the walk takes
\* up the right parent again (collect_descendants).
DetailsAreSubtrees ==
  \A i \in DOMAIN functions :
    LET f == functions[i]
        dies == Origins[i].sub.dies
        sites == Sites(dies, 0)
        found == FlattenSeq([j \in DOMAIN sites |-> CallSite(sites[j], Origins[i].range)])
    IN /\ (IF f.inline = <<>> THEN <<>> ELSE Tree(f.inline[1].children))
            = IF "inlines" \in options THEN Nodes(dies, 0, <<Origins[i].range>>) ELSE <<>>
       /\ f.sites = IF "sites" \in options THEN found ELSE <<>>

=================================================================================
