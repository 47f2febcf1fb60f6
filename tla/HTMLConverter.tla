---------------------------- MODULE HTMLConverter ----------------------------
(***************************************************************************)
(* Turning the HTML of a resource into content elements: TraverseNode and  *)
(* the HTMLConverter of pkg/content/iterator/html_converter.go.            *)
(*                                                                         *)
(* A document is a tree of nodes 1 .. size, numbered in document order,    *)
(* with the body as node 1.  A text is the number of its node: what is     *)
(* followed is which texts come together in which element, and in which    *)
(* order, not their characters.                                            *)
(***************************************************************************)
EXTENDS Integers, SequencesExt, FiniteSetsExt

CONSTANTS
    MaxNodes,    \* nodes in a document
    Kinds,       \* the kinds of nodes in the documents
    Marks,       \* which start elements and nodes with a language documents
                 \* may have, as pairs of nodes, 0 for none
    Annotated    \* families of further documents, with attributes that
                 \* nothing here depends on (GuidedNavigation)

AllKinds == {"block", "inline", "br", "image", "video", "text"}

ASSUME HTMLConverterAssumption ==
    /\ MaxNodes \in Nat \ {0}
    /\ Kinds \subseteq AllKinds
    /\ Marks \subseteq (0 .. MaxNodes) \X (0 .. MaxNodes)

VARIABLES
    doc,     \* the document, the start element and the node with a language
    node,    \* the node TraverseNode is at
    depth,   \* its depth
    phase,   \* "head", "tail" or "done"
    conv     \* the fields of the HTMLConverter

vars == <<doc, node, depth, phase, conv>>

Ancestors(parent, n) ==
    LET up[i \in 1 .. n] == IF i = 1 THEN {1} ELSE {i} \union up[parent[i]]
    IN  up[n]

\* The trees numbered in document order whose leaves may be leaves.
Trees(size) ==
    {t \in [parent : [2 .. size -> 1 .. size], kind : [2 .. size -> Kinds]] :
        \A i \in 2 .. size :
            /\ t.parent[i] < i
            /\ t.parent[i] \in Ancestors(t.parent, i - 1)
            /\ t.parent[i] # 1 => t.kind[t.parent[i]] \in {"block", "inline"}}

ASSUME AnnotatedAssumption ==
    \A family \in Annotated : \A d \in family :
        /\ d.size \in Nat \ {0}
        /\ [parent |-> d.parent, kind |-> d.kind] \in Trees(d.size)
        /\ d.start \in 0 .. d.size /\ d.tongue \in 0 .. d.size

Nodes == 1 .. doc.size
Kind(n) == IF n = 1 THEN "block" ELSE doc.kind[n]
Parent(n) == doc.parent[n]

\* Of each node what is said of it, its id and its href, none without one; is
\* the document parsed as XML?
NoAttributes(size) ==
    [on |-> [n \in 1 .. size |-> "none"], id |-> [n \in 1 .. size |-> <<>>],
     href |-> [n \in 1 .. size |-> <<>>], xml |-> FALSE]

NewConverter ==
    [elements |-> <<>>, startIndex |-> 0, segments |-> <<>>, text |-> <<>>,
     whole |-> <<>>, language |-> FALSE, crumbs |-> <<>>, panicked |-> FALSE]

\* The start element is found below the body, and is an element.
Init ==
    /\ \/ doc \in UNION Annotated
       \/ \E size \in 1 .. MaxNodes : \E t \in Trees(size) :
             \E mark \in Marks \intersect ((0 .. size) \X (0 .. size)) :
                doc = [size |-> size, parent |-> t.parent, kind |-> t.kind,
                       start |-> mark[1], tongue |-> mark[2],
                       attr |-> NoAttributes(size)]
    /\ doc.start # 0 => doc.start # 1 /\ Kind(doc.start) # "text"
    /\ doc.tongue # 0 => Kind(doc.tongue) # "text"
    /\ node = 1
    /\ depth = 0
    /\ phase = "head"
    /\ conv = NewConverter

IsBlock(n) == Kind(n) \in {"block", "video"}

Children(n) == {c \in 2 .. doc.size : Parent(c) = n}
FirstChild(n) == n + 1
NextSiblings(n) == IF n = 1 THEN {} ELSE {c \in Children(Parent(n)) : c > n}
NextSibling(n) == CHOOSE c \in NextSiblings(n) : \A d \in NextSiblings(n) : c <= d

\* nodeLanguage: is there a language on the node or above it?
HasLanguage(n) == doc.tongue \in Ancestors(doc.parent, n)

\* flushSegment
FlushSegment(c) ==
    [c EXCEPT !.segments = IF c.text = <<>> THEN @
                           ELSE Append(@, [texts |-> c.text, before |-> c.whole,
                                           language |-> c.language]),
              !.whole = @ \o c.text,
              !.text = <<>>]

\* Mutant: the start index moves on with every flush in the start element.
MarkStartAlways(c) ==
    [c EXCEPT !.startIndex =
        IF doc.start # 0 /\ c.crumbs # <<>> /\ Last(c.crumbs) = doc.start
        THEN Len(c.elements) ELSE @]

\* The start index is taken when the text of the start element is flushed, as
\* long as it is 0.
MarkStart(c) ==
    [c EXCEPT !.startIndex =
        IF @ = 0 /\ doc.start # 0 /\ c.crumbs # <<>> /\ Last(c.crumbs) = doc.start
        THEN Len(c.elements) ELSE @]

AddText(c) ==
    IF c.segments = <<>> THEN c
    ELSE [c EXCEPT !.elements = Append(@, [kind |-> "text", segments |-> c.segments,
                                           block |-> IF c.crumbs = <<>> THEN 0
                                                     ELSE Last(c.crumbs)]),
                   !.segments = <<>>]

\* flushText
FlushText(c) == AddText(MarkStart(FlushSegment(c)))

AddMedia(c, n) == [c EXCEPT !.elements = Append(@, [kind |-> Kind(n), media |-> n])]

Push(c, n) == [c EXCEPT !.crumbs = Append(@, n)]

\* Mutant: a line break, an image or a video leaves the text before it pending.
VisitHeadUnflushed(c, n) ==
    LET opened == IF IsBlock(n) THEN Push(FlushText(c), n) ELSE c
        placed == IF Kind(n) \in {"image", "video"} THEN AddMedia(opened, n)
                  ELSE opened
    IN  IF IsBlock(n) THEN FlushText(placed) ELSE placed

VisitHead(c, n) ==
    LET opened == IF IsBlock(n) THEN Push(FlushText(c), n) ELSE c
        placed == IF Kind(n) = "br" THEN FlushText(opened)
                  ELSE IF Kind(n) \in {"image", "video"} THEN AddMedia(FlushText(opened), n)
                  ELSE opened
    IN  IF IsBlock(n) THEN FlushText(placed) ELSE placed

\* A text.  Languages are compared by address: only "none" equals "none".
TextTail(c, n) ==
    LET same == ~c.language /\ ~HasLanguage(n)
        d == IF same THEN c ELSE [FlushSegment(c) EXCEPT !.language = HasLanguage(n)]
    IN  [d EXCEPT !.text = Append(@, n)]

VisitTail(c, n) ==
    IF Kind(n) = "text" THEN TextTail(c, n)
    ELSE IF ~IsBlock(n) THEN c
    ELSE IF c.crumbs # <<>> /\ Last(c.crumbs) # n THEN [c EXCEPT !.panicked = TRUE]
    ELSE [FlushText(c) EXCEPT !.crumbs = Front(@)]

\* A node is entered, and then its first child or, without one, it is left.
Enter ==
    /\ phase = "head"
    /\ conv' = VisitHead(conv, node)
    /\ IF Children(node) # {}
       THEN node' = FirstChild(node) /\ depth' = depth + 1 /\ UNCHANGED phase
       ELSE phase' = "tail" /\ UNCHANGED <<node, depth>>
    /\ UNCHANGED doc

\* The last of its siblings is left: so is its parent.
Ascend ==
    /\ phase = "tail"
    /\ NextSiblings(node) = {}
    /\ depth > 0
    /\ conv' = VisitTail(conv, node)
    /\ node' = Parent(node)
    /\ depth' = depth - 1
    /\ UNCHANGED <<doc, phase>>

\* A node is left for its next sibling, or the body for good.
Leave ==
    /\ phase = "tail"
    /\ NextSiblings(node) # {} \/ depth = 0
    /\ conv' = VisitTail(conv, node)
    /\ IF node = 1 THEN phase' = "done" /\ UNCHANGED node
                   ELSE phase' = "head" /\ node' = NextSibling(node)
    /\ UNCHANGED <<doc, depth>>

Next == Enter \/ Ascend \/ Leave

Spec == Init /\ [][Next]_vars

-----------------------------------------------------------------------------
(* Properties.                                                             *)

Texts == {n \in Nodes : Kind(n) = "text"}
Media == {n \in Nodes : Kind(n) \in {"image", "video"}}

\* The nodes of S in document order.
InOrder(S) ==
    LET list[n \in 0 .. doc.size] ==
            IF n = 0 THEN <<>> ELSE IF n \in S THEN Append(list[n - 1], n) ELSE list[n - 1]
    IN  list[doc.size]

Joined(parts) ==
    LET upTo[i \in 0 .. Len(parts)] == IF i = 0 THEN <<>> ELSE upTo[i - 1] \o parts[i]
    IN  upTo[Len(parts)]

SegmentTexts(segments) == Joined([i \in DOMAIN segments |-> segments[i].texts])

ElementNodes(e) == IF e.kind = "text" THEN SegmentTexts(e.segments) ELSE <<e.media>>

AllNodes == Joined([i \in DOMAIN conv.elements |-> ElementNodes(conv.elements[i])])

TextElements == {i \in DOMAIN conv.elements : conv.elements[i].kind = "text"}

\* The block a text is in.
BlockOf(n) ==
    LET blocks == {a \in Ancestors(doc.parent, n) : IsBlock(a)}
    IN  CHOOSE b \in blocks : \A a \in blocks : a <= b

\* Something separates the texts m and n: a line break or a medium between
\* them, or the start or end of a block.
Separated(m, n) ==
    \/ BlockOf(m) # BlockOf(n)
    \/ \E b \in m + 1 .. n - 1 : Kind(b) \in {"br", "image"} \/ IsBlock(b)

\* Every text and every medium of the document comes in exactly one element, in
\* document order.
NothingLost == phase = "done" => AllNodes = InOrder(Texts \union Media)

\* An element is a maximal run of texts that nothing separates, is located at the
\* block the texts are in, and the context before each of its segments is the text
\* of the document up to it.
ElementsAreRuns ==
    phase = "done" =>
        \A i \in TextElements :
            LET e == conv.elements[i]
                texts == SegmentTexts(e.segments)
            IN  /\ \A t \in Range(texts) : BlockOf(t) = e.block
                /\ \A seg \in Range(e.segments) :
                      seg.before = InOrder({t \in Texts : t < seg.texts[1]})
                /\ \A j \in 1 .. Len(texts) - 1 : ~Separated(texts[j], texts[j + 1])
                /\ i + 1 \in TextElements =>
                      Separated(Last(texts), SegmentTexts(conv.elements[i + 1].segments)[1])

\* "The startIndex will be calculated from the element matched by the base
\* locator": for a block that follows another element it is the index of the
\* first element at or behind the block.  (For a block that no element precedes
\* it is not: 0 also means that no start was found yet.)
StartsAtBlock ==
    phase = "done" /\ doc.start # 0 /\ IsBlock(doc.start)
        /\ (\E i \in DOMAIN conv.elements : ElementNodes(conv.elements[i])[1] < doc.start)
    => conv.startIndex = Cardinality({i \in DOMAIN conv.elements :
                                          ElementNodes(conv.elements[i])[1] < doc.start})

=============================================================================
