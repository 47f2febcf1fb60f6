--------------------------- MODULE GuidedNavigation ---------------------------
(***************************************************************************)
(* The guided navigation of a resource: Do and the HTMLConverter of        *)
(* pkg/guidednavigation/converter, which turn the documents of             *)
(* HTMLConverter into a tree of objects to be read aloud.                  *)
(*                                                                         *)
(* The conversion depends on nothing but the document: it is the operator  *)
(* Guide.  A text is the number of its node, the name of a node that has a *)
(* label is the negative of its number, and neither is blank: whitespace   *)
(* is not followed.  Ids are sequences, <<>> is none.                      *)
(***************************************************************************)
EXTENDS HTMLConverter

-----------------------------------------------------------------------------
(* What the attributes of an element say of it.                            *)

Is(n, what) == doc.attr.on[n] = what
IsText(n) == Kind(n) = "text"

IdOf(n) == doc.attr.id[n]

\* The first element of the document with an id, if there is one.
WithId(id) ==
    LET bearers == {n \in Nodes : id # <<>> /\ IdOf(n) = id}
    IN  IF bearers = {} THEN 0 ELSE Min(bearers)

isAncestorOf(anc, n) == anc \in Ancestors(doc.parent, n)

Below(n) == {d \in Nodes : isAncestorOf(n, d)}

NodeText(n) == InOrder({t \in Below(n) : IsText(t)})

Hidden(n) == Is(n, "hidden")

HasLabel(n) == doc.attr.on[n] \in {"labelled", "numbered", "figure", "icon"}

\* The name of an element: the text of another one, or a label.
Aria(n) ==
    LET other == WithId(doc.attr.href[n])
    IN  IF HasLabel(n) THEN <<-n>>
        ELSE IF ~Is(n, "named") \/ other = 0 \/ Hidden(other) THEN <<>>
        ELSE IF HasLabel(other) THEN <<-other>> ELSE NodeText(other)

Roles(n) ==
    IF Is(n, "presentation") THEN {"presentation"}
    ELSE {r \in {"noteref", "footnote", "figure"} : Is(n, r)}
         \union (IF doc.attr.on[n] \in {"pagebreak", "numbered"} THEN {"pagebreak"} ELSE {})
         \union (IF Kind(n) = "image" \/ doc.attr.on[n] \in {"picture", "icon"}
                 THEN {"image"} ELSE {})
         \union (IF Kind(n) = "video" THEN {"video"} ELSE {})
         \union (IF n = 1 THEN {"body"} ELSE {})

\* The element of this document that a noteref leads to.
NoteOf(n) == WithId(doc.attr.href[n])

Noterefs == {n \in Nodes : Kind(n) = "inline" /\ Is(n, "noteref")}

\* Mutant: a note is taken out of the flow although it is around the reference to it.
SuppressedAround ==
    {NoteOf(n) : n \in {m \in Noterefs :
        /\ ~\E a \in Ancestors(doc.parent, m) : Hidden(a)
        /\ NoteOf(m) # 0}}

\* prescan: the notes that come with the elements that refer to them.
Suppressed ==
    {NoteOf(n) : n \in {m \in Noterefs :
        /\ ~\E a \in Ancestors(doc.parent, m) : Hidden(a)
        /\ NoteOf(m) # 0
        /\ ~isAncestorOf(NoteOf(m), m)}}

-----------------------------------------------------------------------------
(* Guided navigation objects.  The SSML of a text is a sequence of texts,  *)
(* breaks and references to children.                                      *)

NoObject ==
    [id |-> <<>>, textref |-> <<>>, media |-> 0, text |-> <<>>, ssml |-> <<>>,
     description |-> <<>>, role |-> {}, children |-> <<>>]

Bare(o) == o.textref = <<>> /\ o.media = 0 /\ o.text = <<>> /\ o.description = <<>>
Empty(o) == Bare(o) /\ o.children = <<>>
ChildrenOnly(o) == Bare(o) /\ o.children # <<>> /\ o.role = {} /\ o.id = <<>>

\* convert: an object joins the children of another, empty ones are left out and
\* wrappers give way to what they wrap.
Attach(children, o) ==
    IF Empty(o) THEN children
    ELSE IF ChildrenOnly(o) THEN children \o o.children
    ELSE Append(children, o)

\* convert: a text that is an only child moves up.
Hoist(o) ==
    IF o.text # <<>> \/ Len(o.children) # 1 THEN o
    ELSE LET child == o.children[1]
         IN  IF [child EXCEPT !.text = <<>>, !.ssml = <<>>, !.children = <<>>] = NoObject
                /\ child.text # <<>>
             THEN [o EXCEPT !.text = child.text, !.ssml = child.ssml,
                            !.children = child.children]
             ELSE o

-----------------------------------------------------------------------------
(* The converter: its open objects, innermost last, its flow of text, and  *)
(* the ids it has given away.                                              *)

NoContext == [language |-> FALSE, emphasis |-> FALSE]

NoIds == [claimed |-> {}, counters |-> <<>>]

Open(n, object, noText) == [node |-> n, object |-> object, noText |-> noText]

Converter(n, ids, suppressed, notes) ==
    [open |-> <<Open(n, NoObject, FALSE)>>, segments |-> <<>>, text |-> <<>>,
     context |-> NoContext, transparent |-> {}, ids |-> ids,
     suppressed |-> suppressed, notes |-> notes,
     allow |-> IF notes = 0 THEN 0 ELSE n]

Current(c) == Last(c.open)

AppendChild(c, o) ==
    [c EXCEPT !.open[Len(c.open)].object.children = Attach(@, Hoist(o))]

Descend(c, n, object, noText) ==
    [c EXCEPT !.open = Append(@, Open(n, object, noText))]

\* ascend: the innermost object is complete.  The root stays open.
Ascended(c) ==
    IF Len(c.open) = 1 THEN c
    ELSE AppendChild([c EXCEPT !.open = Front(@)], Current(c).object)

Segment(kind, texts, context, child, id) ==
    [kind |-> kind, texts |-> texts, context |-> context, child |-> child, id |-> id]

CloseSegment(c) ==
    IF c.text = <<>> THEN c
    ELSE [c EXCEPT !.segments = Append(@, Segment("text", c.text, c.context, NoObject, <<>>)),
                   !.text = <<>>]

\* placeholderWithID
Placeholder(c, tag, object, id) ==
    IF Empty(object) THEN c
    ELSE IF Current(c).noText THEN AppendChild(c, object)
    ELSE [CloseSegment(c) EXCEPT
             !.segments = Append(@, Segment(tag, <<>>, NoContext, object, id))]

IsRef(segment) == segment.kind \notin {"text", "break"}

Reserved == {IdOf(n) : n \in Nodes}

\* Mutant: an id is given although it has been given before.
ClaimAnyway(ids, id) == id # <<>>

\* claim: may the id be given?
Claim(ids, id) == id # <<>> /\ id \notin ids.claimed

\* allocate: the next number of a tag that makes an id nothing else has.
Allocate(ids, tag) ==
    LET used == IF tag \in DOMAIN ids.counters THEN ids.counters[tag] ELSE 0
    IN  CHOOSE k \in used + 1 .. used + 1 + Cardinality(Reserved \union ids.claimed) :
            /\ <<tag, k>> \notin Reserved \union ids.claimed
            /\ \A j \in used + 1 .. k - 1 : <<tag, j>> \in Reserved \union ids.claimed

\* The objects that the segments of a text refer to are given ids.
Identify(ids, segments) ==
    LET give(state, segment) ==
            LET tag == segment.kind
                mine == Claim(state.ids, segment.id)
                k == Allocate(state.ids, tag)
                id == IF mine THEN segment.id ELSE <<tag, k>>
                named == [segment EXCEPT !.child.id = id]
            IN  IF ~IsRef(segment)
                THEN [state EXCEPT !.segments = Append(@, segment)]
                ELSE [segments |-> Append(state.segments, named),
                      ids |-> [claimed |-> state.ids.claimed \union {id},
                               counters |-> IF mine THEN state.ids.counters
                                            ELSE (tag :> k) @@ state.ids.counters]]
    IN  FoldLeft(give, [ids |-> ids, segments |-> <<>>], segments)

\* Breaks at the edges of a text mean nothing.
Trimmed(segments) ==
    LET kept == {i \in DOMAIN segments : segments[i].kind # "break"}
    IN  IF kept = {} THEN <<>> ELSE SubSeq(segments, Min(kept), Max(kept))

ResetFlow(c) == [c EXCEPT !.segments = <<>>, !.text = <<>>, !.context = NoContext]

AppendAll(c, objects) == FoldLeft(AppendChild, c, objects)

Referenced(segments) ==
    LET refs == SelectSeq(segments, IsRef)
    IN  [i \in DOMAIN refs |-> refs[i].child]

\* The text object of segments.  It has SSML when it is more than text in one
\* language.
TextObject(segments) ==
    LET texts == Joined([i \in DOMAIN segments |-> segments[i].texts])
    IN  [NoObject EXCEPT
            !.text = texts,
            !.ssml = [i \in DOMAIN segments |->
                         [kind |-> segments[i].kind, texts |-> segments[i].texts,
                          id |-> segments[i].child.id]],
            !.children = Referenced(segments)]

BaseLanguage(c, texts) ==
    LET languages == {texts[i].context.language : i \in DOMAIN texts}
    IN  languages = {TRUE} \/ HasLanguage(Current(c).node)

\* flushText: without text, what would be referred to stands on its own.
Flush(c) ==
    LET segments == Trimmed(CloseSegment(c).segments)
        texts == SelectSeq(segments, LAMBDA s : s.kind = "text")
        base == BaseLanguage(c, texts)
        plain == \A i \in DOMAIN segments :
                    segments[i].kind = "text" /\ ~segments[i].context.emphasis
                       /\ segments[i].context.language = base
        named == Identify(c.ids, segments)
    IN  IF texts = <<>> THEN AppendAll(ResetFlow(c), Referenced(segments))
        ELSE IF plain
        THEN AppendChild(ResetFlow(c), [TextObject(segments) EXCEPT !.ssml = <<>>])
        ELSE AppendChild([ResetFlow(c) EXCEPT !.ids = named.ids],
                         TextObject(named.segments))

\* ConvertElementToSSMLTag, with one tag.
HasSSMLTag(n) == Is(n, "emphasis")

\* textContext: the language, and whether an inline element of the current block
\* emphasizes the text.
TextContext(c, n) ==
    [language |-> HasLanguage(n),
     emphasis |-> \E a \in Ancestors(doc.parent, n) :
                     HasSSMLTag(a) /\ a > Current(c).node]

\* text
AddTextNode(c, n) ==
    IF Current(c).noText THEN c
    ELSE LET context == TextContext(c, n)
             same == IF context = c.context THEN c
                     ELSE [CloseSegment(c) EXCEPT !.context = context]
         IN  [same EXCEPT !.text = Append(@, n)]

-----------------------------------------------------------------------------
(* The traversal.                                                          *)

isInlineTag(n) == Kind(n) \notin {"block", "video"}

\* isBlockNode: does an element open an object?
OpensObject(c, n) == n = c.allow \/ (n \notin c.transparent /\ ~isInlineTag(n))

MaxNoterefDepth == 3

\* head: is an element left out with everything in it?
Skipped(c, n) ==
    \/ Is(n, "skipped")
    \/ n # c.allow /\ (n \in c.suppressed \/ Hidden(n))
    \/ Kind(n) = "image" /\ Is(n, "presentation")

\* What head makes of an element: the converter, and whether it is entered.
Entered(c) == [conv |-> c, enter |-> TRUE]
Passed(c) == [conv |-> c, enter |-> FALSE]

Described(n) == [NoObject EXCEPT !.role = Roles(n), !.description = Aria(n)]

Break(c) ==
    IF Current(c).noText THEN c
    ELSE [CloseSegment(c) EXCEPT
             !.segments = Append(@, Segment("break", <<>>, NoContext, NoObject, <<>>))]

HasElementChild(n) == \E m \in Children(n) : ~IsText(m)

\* What an HTML parser has put into a page break, which it does not close.
Swallowed(n) ==
    ~doc.attr.xml /\ (HasElementChild(n) \/ (Aria(n) # <<>> /\ Children(n) # {}))

\* pagebreak
Pagebreak(c, n) ==
    LET enter == Swallowed(n)
        object == [NoObject EXCEPT
                      !.role = Roles(n), !.textref = IdOf(n),
                      !.text = IF Aria(n) # <<>> THEN Aria(n)
                               ELSE IF enter THEN <<>> ELSE NodeText(n)]
        d == Placeholder(c, "pagebreak", object, IdOf(n))
    IN  IF enter THEN Entered([d EXCEPT !.transparent = @ \union {n}]) ELSE Passed(d)

\* A block opens an object, and the text before it is complete.
BlockHead(c, n) ==
    LET d == Flush(c)
        noText == Current(d).noText \/ (Aria(n) # <<>> /\ "figure" \in Roles(n))
        textref == IF n = 1 THEN <<"resource">>
                   ELSE IF Roles(n) # {} /\ ~noText THEN IdOf(n) ELSE <<>>
    IN  Descend(d, n, [Described(n) EXCEPT !.textref = textref], noText)

\* Result of a converter whose traversal has ended: what its root has become, or
\* the children of that.
ResultOf(c) ==
    LET root == Hoist(c.open[1].object)
    IN  IF root.children # <<>> THEN root.children
        ELSE IF Empty(root) THEN <<>> ELSE <<root>>

RECURSIVE Visit(_, _)

\* Convert of a part of the document, with the ids given away so far.
ConvertNode(n, ids, suppressed, notes) == Visit(Converter(n, ids, suppressed, notes), n)

\* noteref: a note of this document is converted in its place.
NoterefHead(c, n) ==
    LET note == NoteOf(n)
        embedded == note # 0 /\ ~isAncestorOf(note, n) /\ c.notes < MaxNoterefDepth
        sub == ConvertNode(note, c.ids, c.suppressed, c.notes + 1)
        result == IF embedded THEN ResultOf(sub) ELSE <<>>
        object == [NoObject EXCEPT
                      !.role = Roles(n), !.text = NodeText(n),
                      !.children = IF result # <<>> THEN result
                                   ELSE <<[NoObject EXCEPT !.textref = doc.attr.href[n]]>>]
    IN  Placeholder([c EXCEPT !.ids = IF embedded THEN sub.ids ELSE @], "noteref", object,
                    IF IdOf(n) # <<>> THEN IdOf(n) ELSE doc.attr.href[n])

HeadOf(c, n) ==
    IF Skipped(c, n) THEN Passed(c)
    ELSE IF Kind(n) = "br" THEN Entered(Break(c))
    ELSE IF "pagebreak" \in Roles(n) THEN Pagebreak(c, n)
    ELSE IF n \in Noterefs /\ doc.attr.href[n] # <<>> THEN Passed(NoterefHead(c, n))
    ELSE IF Kind(n) \in {"image", "video"}
         THEN Passed(Placeholder(c, Kind(n), [Described(n) EXCEPT !.media = n], IdOf(n)))
    ELSE IF "image" \in Roles(n) THEN Passed(Placeholder(c, "image", Described(n), IdOf(n)))
    ELSE IF OpensObject(c, n) THEN Entered(BlockHead(c, n))
    ELSE Entered(c)

\* Convert: a node, what it contains, and its tail.
Visit(c, n) ==
    IF IsText(n) THEN AddTextNode(c, n)
    ELSE LET head == HeadOf(c, n)
             children == InOrder(Children(n))
             upTo[i \in 0 .. Len(children)] ==
                IF i = 0 THEN head.conv ELSE Visit(upTo[i - 1], children[i])
             within == upTo[Len(children)]
         IN  IF ~head.enter THEN head.conv
             ELSE IF OpensObject(within, n) THEN Ascended(Flush(within))
             ELSE within

\* Do, on the body of the document.
Guide == ResultOf(ConvertNode(1, NoIds, Suppressed, 0))

-----------------------------------------------------------------------------
(* Properties.                                                             *)

\* What is read of objects, in reading order, but for the notes of noterefs.
RECURSIVE Spoken(_)
Spoken(objects) ==
    LET parts(o) ==
            IF "noteref" \in o.role THEN o.text
            ELSE IF o.ssml = <<>>
            THEN (IF o.media = 0 THEN <<>> ELSE <<o.media>>) \o o.text \o Spoken(o.children)
            ELSE Joined([i \in DOMAIN o.ssml |->
                            o.ssml[i].texts
                               \o Spoken(SelectSeq(o.children, LAMBDA child :
                                            IsRef(o.ssml[i]) /\ child.id = o.ssml[i].id))])
    IN  Joined([i \in DOMAIN objects |-> parts(objects[i])])

\* The noteref objects among objects, in reading order.
RECURSIVE NoterefObjects(_)
NoterefObjects(objects) ==
    Joined([i \in DOMAIN objects |->
               IF "noteref" \in objects[i].role THEN <<objects[i]>>
               ELSE NoterefObjects(objects[i].children)])

\* The objects of a tree, each with the way to it.
RECURSIVE Placed(_)
Placed(x) ==
    LET o == x[2]
    IN  {x} \union UNION {Placed(y) : y \in {<<Append(x[1], i), o.children[i]>> :
                                                  i \in DOMAIN o.children}}

\* What hides everything in it, when top is converted; notes are apart.
Silent(top, apart, a) ==
    \/ Is(a, "skipped")
    \/ Is(a, "presentation") /\ Kind(a) = "image"
    \/ a # top /\ (Hidden(a) \/ a \in apart)
    \/ doc.attr.on[a] \in {"picture", "icon"}

IsPage(a) == doc.attr.on[a] \in {"pagebreak", "numbered"}
Link(a) == a \in Noterefs /\ doc.attr.href[a] # <<>>

\* What stands for everything in it: noterefs, and page breaks that are closed.
Whole(a) == Link(a) \/ (IsPage(a) /\ ~Swallowed(a))

\* From top down to n.
Way(top, n) == {a \in Ancestors(doc.parent, n) : a >= top}

\* Is the text or medium n of top read, in its place?
ReadIn(top, apart, n) ==
    LET way == Way(top, n)
        cut == {a \in way : Silent(top, apart, a) \/ Whole(a)}
        a == Min(cut)
    IN  IF cut = {} THEN IsText(n) => ~\E f \in way : Is(f, "figure")
        ELSE ~Silent(top, apart, a) /\ IsText(n) /\ ~Is(a, "numbered")

\* Is the noteref n of top found when top is converted?
FoundIn(top, apart, n) ==
    \A a \in Way(top, n) : ~Silent(top, apart, a) /\ (a # n => ~Whole(a))

\* The notes that a reference outside of them leads to, one that is not hidden: they
\* are read with the references and not in the flow of the text.
Cited ==
    {m \in Nodes : \E n \in Noterefs :
        /\ NoteOf(n) = m /\ m \notin Ancestors(doc.parent, n)
        /\ \A a \in Ancestors(doc.parent, n) : ~Hidden(a)}

\* The elements that are handled as they are, with no flow of their own: as a note, they
\* are dropped.
Lone(m) ==
    Kind(m) \in {"image", "video"} \/ Whole(m) \/ doc.attr.on[m] \in {"picture", "icon"}

\* The notes that the references found in tops lead to and that are read.
CitedIn(tops) ==
    {m \in Cited : ~Lone(m) /\ \E top \in tops : \E n \in Below(top) :
        /\ Link(n) /\ FoundIn(top, Cited, n)
        /\ NoteOf(n) = m /\ m \notin Ancestors(doc.parent, n)}

\* Those which no more than so many references, one after the other, lead to from the
\* flow of the text.
CitedWithin[far \in 0 .. MaxNoterefDepth] ==
    IF far = 0 THEN {} ELSE CitedIn({1} \union CitedWithin[far - 1])

\* The others: those that refer to each other only, that are referred to where nothing
\* is read, that are further away, or that are lone.
Stranded == Cited \ CitedWithin[MaxNoterefDepth]

\* The texts and media of objects, those of the notes included.
Heard(objects) == UNION {ToSet(x[2].text) \union {x[2].media} : x \in objects}

\* The notes without a role whose text has an object in it, like an image: their text
\* moves up into the root of their conversion, and of a root with children only these
\* are returned.
Mixed(m) ==
    /\ IsPage(m) \/ (Roles(m) = {} /\ Aria(m) = <<>>)
    /\ \E n \in Below(m) : Lone(n) \/ IsPage(n)

\* The objects made of top, which is so many notes deep, are complete.
RECURSIVE Complete(_, _, _, _)
Complete(objects, top, apart, notes) ==
    LET links == InOrder({n \in Below(top) : Link(n) /\ FoundIn(top, apart, n)})
        refs == NoterefObjects(objects)
    IN  /\ \/ notes > 0 /\ Mixed(top)
           \/ SelectSeq(Spoken(objects), LAMBDA t : t > 0)
                 = InOrder({n \in Below(top) :
                               Kind(n) \in {"text", "image", "video"} /\ ReadIn(top, apart, n)})
        /\ Len(refs) = Len(links)
        /\ \A i \in DOMAIN links :
              LET note == NoteOf(links[i])
              IN  IF \/ note = 0 \/ isAncestorOf(note, links[i])
                     \/ notes = MaxNoterefDepth \/ Lone(note)
                  THEN refs[i].children =
                          <<[NoObject EXCEPT !.textref = doc.attr.href[links[i]]]>>
                  ELSE Complete(refs[i].children, note, apart, notes + 1)

\* A noteref without text may turn into its note, when that has no role.
Titled(n) == NodeText(n) # <<>> \/ NoteOf(n) = 0 \/ Is(NoteOf(n), "footnote")

\* The guide of a document reads every text and every medium of it that is not
\* hidden, once and in document order; the notes that a text refers to come with the
\* reference, and so do the notes these refer to, three deep.  ("A note containing its
\* own noteref must stay in the normal flow, or its content would be lost",
\* html.go:478.)  What is lost is in a stranded note, as the code takes each note that
\* something refers to out of the flow, whether it can be read with a reference or not,
\* or it is the text of a mixed one.  No two objects have the same id, and each
\* reference in a text is to exactly one object, which comes with the text.
GuidesComplete ==
    phase = "done" /\ (\A n \in Noterefs : Titled(n)) =>
        \A root \in {[NoObject EXCEPT !.children = Guide]} :
            LET objects == Placed(<<<<>>, root>>)
            IN  /\ Complete(root.children, 1, Cited, 0)
                /\ \A n \in Below(1) :
                      Kind(n) \in {"text", "image", "video"} /\ ReadIn(1, {}, n) =>
                         \/ n \in Heard(objects)
                         \/ \E a \in Stranded : isAncestorOf(a, n)
                         \/ IsText(n) /\ \E a \in Cited : Mixed(a) /\ isAncestorOf(a, n)
                /\ \A x, y \in objects : x[2].id # <<>> /\ x[2].id = y[2].id => x = y
                /\ \A x \in objects :
                      LET o == x[2]
                          refs == SelectSeq(o.ssml, IsRef)
                      IN  refs # <<>> => [k \in DOMAIN refs |-> refs[k].id]
                                           = [k \in DOMAIN o.children |-> o.children[k].id]

=============================================================================
