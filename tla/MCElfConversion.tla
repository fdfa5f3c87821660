---------------------------- MODULE MCElfConversion ----------------------------
EXTENDS ElfConversion

CONSTANTS Native, Foreign \* architectures

None == <<>>
Symbol(name, section, address, size) ==
  [text |-> TRUE, named |-> TRUE, name |-> name, section |-> <<section>>, address |-> address, size |-> size]
Section(kind, address, size) == [kind |-> kind, address |-> address, size |-> size]

A == Symbol(1, 1, 16, 4)
B == Symbol(2, 1, 20, 4)
Outside == Symbol(3, 1, 90, 4)
Large == Symbol(4, 1, 16, 9)
Past == Symbol(5, 1, 118, 4)

Linked == <<Section("text", 16, 12), Section("data", 40, 4), Section("text", 60, 0)>>
Image == [key |-> 1, elf |-> TRUE, crc |-> TRUE, arch |-> Native, id |-> <<1>>, torn |-> FALSE, broken |-> {},
          indexed |-> FALSE, altlink |-> None, alternates |-> <<>>, relocatable |-> FALSE,
          sections |-> Linked, static |-> <<A, Outside>>, dynamic |-> <<A>>]
Debug == [Image EXCEPT !.key = 2, !.static = <<B, A>>, !.dynamic = <<>>]

\* Candidates, each unfit in one way, and fit ones.
Other == [Debug EXCEPT !.key = 3, !.id = <<2>>]
Pool == {Missing, Debug, Other, [Debug EXCEPT !.key = 4, !.arch = Foreign],
         [Debug EXCEPT !.key = 5, !.elf = FALSE], [Debug EXCEPT !.key = 6, !.torn = TRUE],
         [Debug EXCEPT !.key = 7, !.crc = FALSE], [Debug EXCEPT !.key = 8, !.id = None]}

Alternate == [Debug EXCEPT !.key = 9, !.id = <<5>>]
Package == [Debug EXCEPT !.key = 10, !.id = None, !.indexed = TRUE]
ForeignPackage == [Package EXCEPT !.arch = Foreign]

Nothing == [debug |-> None, supplementary |-> None, package |-> None, symbols |-> None]
Search == [path |-> TRUE, discover |-> TRUE, symbols |-> TRUE, dwarf |-> FALSE, image |-> Image,
           linked |-> <<>>, tree |-> <<>>, remote |-> Missing, alternateRemote |-> Missing,
           packages |-> <<>>, embedded |-> None, explicit |-> Nothing]
Optional(S) == {None} \cup {<<f>> : f \in S}

Images == {Image, [Image EXCEPT !.id = None], [Image EXCEPT !.torn = TRUE], [Image EXCEPT !.elf = FALSE],
           [Image EXCEPT !.sections = <<>>], [Image EXCEPT !.broken = {"link"}],
           [Image EXCEPT !.broken = {"layout"}]}

ForTheDebugFile ==
  {[Search EXCEPT !.image = i, !.linked = l, !.tree = t, !.remote = r] :
     i \in {Image, [Image EXCEPT !.id = None]}, l \in Optional(Pool) \cup (Pool \X {Debug}),
     t \in Optional(Pool), r \in Pool}
  \cup {[Search EXCEPT !.image = i, !.linked = l, !.discover = d, !.symbols = s, !.embedded = e] :
          i \in Images, l \in Optional({Debug}), d \in BOOLEAN, s \in BOOLEAN,
          e \in Optional({Other, [Debug EXCEPT !.key = 12]})}

\* The links of the image and of its debug file name different supplementary files.
WithLink(file, alternates) == [file EXCEPT !.altlink = <<5>>, !.alternates = alternates]
Alternates == {Missing, Alternate, [Alternate EXCEPT !.elf = FALSE], [Alternate EXCEPT !.id = <<6>>],
               [Alternate EXCEPT !.id = None], [Alternate EXCEPT !.torn = TRUE]}
ForTheOthers ==
  {[Search EXCEPT !.dwarf = TRUE, !.symbols = FALSE, !.image = i, !.linked = l, !.alternateRemote = r,
                  !.packages = p] :
     i \in {Image, WithLink(Image, <<Missing>>)}
           \cup {WithLink(Image, <<a, Alternate>>) : a \in Alternates},
     l \in {None, <<Debug>>, <<WithLink(Debug, <<Alternate>>)>>}, r \in Alternates,
     p \in Optional({Missing, Debug, Package, ForeignPackage}) \cup {<<Missing, Debug, Package>>}}

\* Each part of each file may be broken: of the image, of the debug file, found,
\* passed over or embedded, of the supplementary file and of the package.
Whole(file) == {file} \cup {[file EXCEPT !.broken = {part}] : part \in {"altlink", "sections", "index", "units"}}
WhenBroken ==
  {[Search EXCEPT !.dwarf = w, !.image = i, !.linked = l, !.embedded = e, !.packages = p] :
     w \in BOOLEAN, i \in Whole(WithLink(Image, <<Alternate>>)),
     l \in {None} \cup {<<d>> : d \in Whole(WithLink(Debug, <<>>))}
           \cup {<<[d EXCEPT !.crc = FALSE]>> : d \in Whole(Debug)},
     e \in Optional({[Debug EXCEPT !.key = 12], [Debug EXCEPT !.key = 12, !.broken = {"units"}]}),
     p \in Optional(Whole(Package))}
  \cup {[Search EXCEPT !.dwarf = TRUE, !.symbols = FALSE, !.image = i, !.alternateRemote = r] :
          i \in {WithLink(Image, <<a>>) : a \in Whole(Alternate)} \cup {WithLink(Image, <<>>)},
          r \in Whole(Alternate)}

Given ==
  {[Search EXCEPT !.path = FALSE, !.symbols = s, !.image = i, !.embedded = e,
                  !.explicit = [Nothing EXCEPT !.debug = d, !.symbols = y]] :
     s \in BOOLEAN, i \in Images, e \in Optional({Debug}), d \in Optional(Pool \ {Missing}),
     y \in Optional(Pool \ {Missing})}
  \cup {[Search EXCEPT !.path = FALSE, !.dwarf = TRUE,
                       !.explicit = [Nothing EXCEPT !.supplementary = a, !.package = p]] :
          a \in Optional({Alternate, [Alternate EXCEPT !.elf = FALSE]}),
          p \in Optional({Debug, ForeignPackage})}

\* Symbol tables of the image, of its debug file and of a file of symbols.
Tables == {<<>>, <<A>>, <<B, A>>, <<A, A>>, <<Outside, Large>>,
           <<[A EXCEPT !.text = FALSE], [A EXCEPT !.named = FALSE], Outside>>,
           <<Past>>, <<A, [Past EXCEPT !.named = FALSE]>>}
SymbolJobs ==
  {LET image == [Image EXCEPT !.static = x, !.dynamic = z]
   IN [Search EXCEPT !.path = FALSE, !.image = image,
                     !.explicit = [Nothing EXCEPT !.debug = d, !.symbols = IF y = <<Missing>> THEN <<image>> ELSE y]] :
     x \in Tables, z \in {<<>>, <<A>>},
     d \in {None} \cup {<<[Debug EXCEPT !.static = s]>> : s \in Tables},
     y \in {<<Missing>>, None} \cup {<<[Debug EXCEPT !.key = 11, !.static = s]>> : s \in Tables}}

\* Relocatable files, whose sections all start at 0.
Layouts == {Section(k, 0, n) : k \in {"text", "data", "debug"}, n \in {0, 4, 16, 17}}
Objects ==
  {[Search EXCEPT !.discover = FALSE,
                  !.image = [Image EXCEPT !.relocatable = TRUE, !.sections = <<a, Section("text", 0, 8), b>>,
                                          !.static = s]] :
     a \in Layouts, b \in Layouts,
     s \in {<<[A EXCEPT !.address = 0]>>, <<[A EXCEPT !.section = None], Symbol(2, 2, 4, 4), Symbol(3, 3, 0, 4)>>,
            <<Symbol(2, 2, 4, 5), [Symbol(3, 3, 0, 4) EXCEPT !.named = FALSE]>>,
            <<Symbol(1, 2, 118, 0)>>, <<Symbol(1, 4, 0, 4)>>}}

AllJobs == ForTheDebugFile \cup ForTheOthers \cup WhenBroken \cup Given \cup SymbolJobs \cup Objects

================================================================================
