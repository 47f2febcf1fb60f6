----------------------------- MODULE EPUBServices -----------------------------
(***************************************************************************)
(* What the services of a publication compute: positions, of an EPUB, of   *)
(* a PDF and one per resource (pkg/parser/epub/positions_service.go,       *)
(* pkg/parser/pdf/positions_service.go, pkg/pub/service_positions.go), and *)
(* guided navigation from media overlays (pkg/parser/epub/                 *)
(* media_overlay_service.go, parser_smil.go).                              *)
(*                                                                         *)
(* A progression is a fraction <<numerator, denominator>>.                 *)
(***************************************************************************)
EXTENDS EPUBPackage

PageLength == 1024

\* The length of the archive entry in pages, at least one.
PositionCount(link) ==
    LET pages == (link.size + PageLength - 1) \div PageLength IN IF pages = 0 THEN 1 ELSE pages

createLocator(link, progression, position) ==
    [file |-> link.id, title |-> link.title, progression |-> progression,
     position |-> position, total |-> <<0, 1>>]

createFixed(link, startPosition) == <<createLocator(link, <<0, 1>>, startPosition + 1)>>

createReflowable(link, startPosition) ==
    [p \in 1..PositionCount(link) |->
        createLocator(link, <<p - 1, PositionCount(link)>>, startPosition + p)]

\* Mutant: the next resource starts after as many positions as this one has.
LastPositionCounted(positions, last) == Len(positions)

\* Where the next resource starts.
LastPosition(positions, last) == IF positions = <<>> THEN last ELSE Last(positions).position

\* The positions of the resources of an EPUB, each going on where the one before
\* it ended, with their place in the whole.
computePositions(m) ==
    LET Add(acc, link) ==
            LET own == IF m.layout = "fixed" THEN createFixed(link, acc.last)
                       ELSE createReflowable(link, acc.last)
            IN  [last |-> LastPosition(own, acc.last), groups |-> Append(acc.groups, own)]
        groups == FoldLeft(Add, [last |-> 0, groups |-> <<>>], m.order).groups
        totalPageCount == Len(FlattenSeq(groups))
    IN  [i \in DOMAIN groups |->
            [j \in DOMAIN groups[i] |->
                [groups[i][j] EXCEPT !.total = <<groups[i][j].position - 1, totalPageCount>>]]]

\* A position per page, with the title of the entry that leads to it.
PDFPositions(m) ==
    [i \in 1..m.pages |->
        LET entry == SelectSeq(m.toc, LAMBDA e : e.start = i)
        IN  <<[file |-> m.order[1].id, title |-> IF entry = <<>> THEN "" ELSE entry[1].title,
               progression |-> <<i - 1, m.pages>>, position |-> i, total |-> <<i - 1, m.pages>>]>>]

PerResourcePositions(m) ==
    [i \in DOMAIN m.order |->
        <<[createLocator(m.order[i], <<0, 1>>, i) EXCEPT !.total = <<i - 1, Len(m.order)>>]>>]

-----------------------------------------------------------------------------
(* SMIL: a node is [tag, text, audio, begin, end, types, nodes], a "seq"   *)
(* naming its text by its textref.                                         *)

\* Which role an epub:type is, if it is any.
ConvertEPUBRole == [t \in {"chapter", "footnote"} |-> t]

RolesOf(types) == SelectSeq(types, LAMBDA t : t \in DOMAIN ConvertEPUBRole)

\* The source of an audio element that names none.
EmptySource == <<"">>

RefusedGuide == [ok |-> FALSE, objects |-> <<>>]

\* The objects of a body or a sequence, in order; one node that is refused, for it has
\* no text or an audio element without a source, refuses them all.
RECURSIVE ParseSMILSeq(_, _)
ParseSMILSeq(nodes, dir) ==
    LET below == [i \in DOMAIN nodes |->
                     IF nodes[i].tag = "seq" THEN ParseSMILSeq(nodes[i].nodes, dir)
                     ELSE [ok |-> TRUE, objects |-> <<>>]]
    IN  IF \E i \in DOMAIN nodes :
              nodes[i].text = NoHref \/ nodes[i].audio = EmptySource \/ ~below[i].ok
        THEN RefusedGuide
        ELSE [ok |-> TRUE,
              objects |-> [i \in DOMAIN nodes |->
                  [text |-> Resolve(dir, nodes[i].text),
                   audio |-> IF nodes[i].audio = NoHref THEN NoHref
                             ELSE Resolve(dir, nodes[i].audio),
                   begin |-> ParseClockValue(nodes[i].begin),
                   end |-> ParseClockValue(nodes[i].end),
                   roles |-> RolesOf(nodes[i].types), children |-> below[i].objects]]]

\* A body without a sequence or a parallel is refused.
ParseSMILDocument(document, path) ==
    IF document.body = <<>> THEN RefusedGuide ELSE ParseSMILSeq(document.body, Front(path))

-----------------------------------------------------------------------------
(* Media overlays.                                                         *)

SMILOf(link) == SelectSeq(link.alternates, LAMBDA a : a.kind = "smil")

HasGuide(link) == SMILOf(link) # <<>> \/ link.kind = "html"

\* MediaOverlayFactory: the files that have a guide, in reading order, and from what
\* each is made, its last media overlay or else its text.
Guides(m) ==
    LET guided == SelectSeq(m.order, HasGuide)
        of(id) == SelectSeq(m.order, LAMBDA l : l.id = id)
    IN  [indexes |-> [i \in DOMAIN guided |-> guided[i].id],
         smil |-> [id \in {guided[i].id : i \in {j \in DOMAIN guided : SMILOf(guided[j]) # <<>>}} |->
                      Last(SMILOf(Last(of(id)))).href]]

\* The alternate that takes the place of a media overlay in the manifest.
GuideLink(link) ==
    [link EXCEPT !.href = <<"~readium", "guided-navigation.json">>,
                 !.kind = "guide", !.alternates = <<>>]

WithGuides(m) ==
    [m EXCEPT !.order =
        [i \in DOMAIN m.order |->
            [m.order[i] EXCEPT !.alternates =
                [j \in DOMAIN @ |-> IF @[j].kind = "smil" THEN GuideLink(@[j]) ELSE @[j]]]]]

\* The guide of a file, from its media overlay, with the guides before and after it.
\* One made from the text is not spelled out.
GuideForResource(guides, documents, id) ==
    LET idx == CHOOSE i \in DOMAIN guides.indexes :
                   guides.indexes[i] = id /\ \A j \in 1..(i - 1) : guides.indexes[j] # id
        path == guides.smil[id]
        made == CASE id \notin DOMAIN guides.smil -> [ok |-> TRUE, objects |-> <<>>]
                  [] id \in DOMAIN guides.smil /\ path \in DOMAIN documents ->
                        ParseSMILDocument(documents[path], path)
                  [] OTHER -> RefusedGuide
    IN  [ok |-> made.ok, objects |-> made.objects,
         prev |-> IF idx > 1 THEN {guides.indexes[idx - 1]} ELSE {},
         next |-> IF idx < Len(guides.indexes) THEN {guides.indexes[idx + 1]} ELSE {}]
=============================================================================
