------------------------------- MODULE Parsers -------------------------------
(***************************************************************************)
(* What the publication parsers decide: which parser takes an asset, the   *)
(* reading order and the table of contents it builds, which profile a      *)
(* manifest conforms to, and what accessibility metadata is inferred from  *)
(* it (pkg/parser/{epub,pdf,webpub,image,audio}, pkg/manifest,             *)
(* pkg/streamer/a11y_infer.go).                                            *)
(*                                                                         *)
(* A file of an asset is a record                                          *)
(*   id        its rank among the names, compared as strings               *)
(*   nat       its rank in natural order (2 before 10)                     *)
(*   number    its chapter number, NoNumber when its name has none         *)
(*   kind      what its extension and media type make of it                *)
(*   title     the title in its tags, "" when it has none                  *)
(*   marks     the chapter marks of an audio file, <<title, start>>        *)
(* Kinds: "text" stands for txt and json, allowed beside images and beside *)
(* audio; "acbf" for the extensions allowed beside images only; "playlist" *)
(* for those allowed beside audio only.                                    *)
(***************************************************************************)
EXTENDS Integers, Sequences, FiniteSets, SequencesExt

NoNumber == -1

Files(links) == {links[i] : i \in DOMAIN links}

OfKind(links, kinds) == SelectSeq(links, LAMBDA f : f.kind \in kinds)

AllOfKind(links, kinds) == \A f \in Files(links) : f.kind \in kinds

Sorted(links, less(_, _)) == SortSeq(links, less)

-----------------------------------------------------------------------------
(* Images and comics.                                                      *)

AllowedExtensionsImage == {"text", "acbf"}

AcceptsImageLinks(links) == AllOfKind(links, {"hidden", "bitmap"} \union AllowedExtensionsImage)

\* Numbered chapters come first, in the order of their numbers; the rest follows
\* in natural order, which also breaks the ties.
ChapterLess(f, g) ==
    IF f.number # NoNumber /\ g.number # NoNumber /\ f.number # g.number
    THEN f.number < g.number
    ELSE IF (f.number = NoNumber) # (g.number = NoNumber)
         THEN f.number # NoNumber
         ELSE f.nat < g.nat

\* The chapters of a directory of comic archives; empty when it is none.
ComicArchiveReadingOrder(links) ==
    IF AllOfKind(links, {"hidden", "comic"} \union AllowedExtensionsImage)
    THEN Sorted(OfKind(links, {"comic"}), ChapterLess)
    ELSE <<>>

\* Whether a selection of chapters is refused: empty, a chapter twice, or one
\* that was not discovered.
SelectionRefused(discovered, requested) ==
    \/ requested = <<>>
    \/ \E i, j \in DOMAIN requested : i # j /\ requested[i] = requested[j]
    \/ ~ Files(requested) \subseteq Files(discovered)

\* The title of a chapter is the name of its file.
ComicArchiveTableOfContents(order) ==
    [i \in DOMAIN order |-> [file |-> order[i].id, title |-> order[i].title, start |-> 0]]

BitmapReadingOrder(links) ==
    Sorted(OfKind(links, {"bitmap"}), LAMBDA f, g : f.id < g.id)

-----------------------------------------------------------------------------
(* Audiobooks.                                                             *)

AllowedExtensionsAudioExtra == {"text", "playlist", "pdf"}

AcceptsAudio(type, links) ==
    \/ type = "zab"
    \/ /\ OfKind(links, {"audio"}) # <<>>
       /\ AllOfKind(links, {"hidden", "bitmap", "audio"} \union AllowedExtensionsAudioExtra)

AudioReadingOrder(links) ==
    Sorted(OfKind(links, {"audio"}), LAMBDA f, g : f.nat < g.nat)

ChapterLink(f, title, start) == [file |-> f.id, title |-> title, start |-> start]

TitleOf(f) == IF f.title # "" THEN f.title ELSE "filename"

\* The chapters of one file.
FileChapters(f) == [k \in DOMAIN f.marks |-> ChapterLink(f, f.marks[k][1], f.marks[k][2])]

\* The chapters of all the files in reading order; a file without any gets an
\* entry, and a mark that repeats the last title at the start of a file goes.
CombineFileChapters(order) ==
    LET Continues(combined, chapters) ==
            /\ combined # <<>>
            /\ Last(combined).title = chapters[1].title
            /\ chapters[1].start = 0
        Add(combined, f) ==
            combined \o (IF f.marks = <<>> THEN <<ChapterLink(f, TitleOf(f), 0)>>
                         ELSE IF Continues(combined, FileChapters(f)) THEN Tail(FileChapters(f))
                         ELSE FileChapters(f))
    IN  IF \E f \in Files(order) : f.marks # <<>>
        THEN FoldLeft(Add, <<>>, order)
        ELSE <<>>

\* One entry per file, when there are several and one has a title.
PerFileTOC(order) ==
    IF Len(order) >= 2 /\ \E f \in Files(order) : f.title # ""
    THEN [i \in DOMAIN order |-> ChapterLink(order[i], TitleOf(order[i]), 0)]
    ELSE <<>>

\* A playlist names files by their base name; the names no file of the reading
\* order has are dropped.
PlaylistEntriesToTOC(entries, order) ==
    FoldLeft(LAMBDA toc, e :
                 toc \o [k \in DOMAIN SelectSeq(order, LAMBDA f : f.id = e[1]) |->
                            ChapterLink(CHOOSE f \in Files(order) : f.id = e[1], "listed", e[2])],
             <<>>, entries)

-----------------------------------------------------------------------------
(* Manifests: [profiles, layout, order, resources, toc, pageList, a11y,    *)
(* hrefs], the last being the relative paths it links to.                  *)

ReadiumWebPubTypes ==
    {"webpub", "rwpm", "audiobook", "audiobook-rwpm", "lcpaudiobook", "divina",
     "divina-rwpm", "lcpdf"}

IsRwpm(type) == type \in {"rwpm", "audiobook-rwpm", "divina-rwpm"}

ConformsTo(m, profile) ==
    /\ m.order # <<>>
    /\ \/ profile \in m.profiles
       \/ profile = "audiobook" /\ AllOfKind(m.order, {"audio"})
       \/ profile = "divina" /\ (\/ AllOfKind(m.order, {"bitmap"})
                                 \/ AllOfKind(m.order, {"comic"}))
       \/ profile = "pdf" /\ AllOfKind(m.order, {"pdf"})

MeetsProfileRequirements(type, m) ==
    /\ type = "lcpdf" => m.order # <<>> /\ AllOfKind(m.order, {"pdf"})
    /\ type \in {"audiobook", "audiobook-rwpm", "lcpaudiobook"} => ConformsTo(m, "audiobook")
    /\ type \in {"divina", "divina-rwpm"} => ConformsTo(m, "divina")

\* The services of a web publication.
WebPubServices(m) ==
    (IF ConformsTo(m, "pdf") THEN (IF Len(m.order) = 1 THEN {"positions"} ELSE {})
     ELSE IF ConformsTo(m, "divina") \/ ConformsTo(m, "epub") THEN {"positions"}
     ELSE {})
    \union (IF OfKind(m.order, {"html"}) # <<>> THEN {"guidednavigation"} ELSE {})

-----------------------------------------------------------------------------
(* The links of a bare manifest: a path is a sequence of segments.         *)

\* path.Clean: ".." takes back the segment before it, if there is one.
Clean(p) ==
    FoldLeft(LAMBDA q, s : IF s # ".." \/ q = <<>> \/ Last(q) = ".." THEN Append(q, s)
                           ELSE Front(q),
             <<>>, p)

\* Mutant: the path is not cleaned before its leading ".." are counted.
EscapeDepthLeading(p) ==
    Cardinality({i \in DOMAIN p : \A j \in 1..i : p[j] = ".."})

\* How many levels above the directory of the manifest the path reaches.
EscapeDepth(p) == Cardinality({i \in DOMAIN Clean(p) : Clean(p)[i] = ".."})

\* The location a relative path has from a directory; nothing is above the root.
Resolve(dir, p) ==
    FoldLeft(LAMBDA q, s : IF s # ".." THEN Append(q, s)
                           ELSE IF q = <<>> THEN <<>> ELSE Front(q),
             dir, p)

\* The topmost directory the links reach.
RootOf(dir, paths) ==
    LET up == CHOOSE n \in {EscapeDepth(p) : p \in paths} \union {0} :
                  \A p \in paths : EscapeDepth(p) <= n
    IN  SubSeq(dir, 1, Len(dir) - up)

\* The path made relative to the root, when links climb out of the directory.
Rooted(dir, paths, p) ==
    LET root == RootOf(dir, paths)
        at == Resolve(dir, p)
    IN  IF root # dir /\ IsPrefix(root, at)
        THEN SubSeq(at, Len(root) + 1, Len(at)) ELSE p

-----------------------------------------------------------------------------
(* Accessibility: [conformsTo, modes, sufficient, features], sets.         *)

NoA11y == [conformsTo |-> {}, modes |-> {}, sufficient |-> {}, features |-> {}]

AllResources(m) == m.order \o m.resources

NeedsLook(m) == ConformsTo(m, "epub") /\ m.layout = "reflowable" /\ m.a11y.conformsTo = {}

\* What shows that a publication is not textual: sound, video, PDF, or an image
\* that is neither the cover nor one of the images to ignore.
NotTextual(f, ignorable) ==
    \/ f.kind \in {"audio", "video", "pdf"}
    \/ f.kind = "bitmap" /\ ~f.cover /\ f.id \notin ignorable

\* Whether the loop over the resources comes to an image it has to read.
ReadsImages(m, ignorable) ==
    LET all == AllResources(m)
    IN  /\ ignorable # {}
        /\ NeedsLook(m)
        /\ \E i \in DOMAIN all :
              /\ all[i].kind = "bitmap" /\ ~all[i].cover
              /\ \A j \in 1..(i - 1) : ~NotTextual(all[j], ignorable)

IsTextual(m, ignorable) ==
    \/ m.a11y.conformsTo # {}
    \/ NeedsLook(m) /\ \A f \in Files(AllResources(m)) : ~NotTextual(f, ignorable)

\* inferA11yMetadataInPublicationManifest, when no image fails to read.
InferA11y(m, ignorable) ==
    LET all == AllResources(m)
        Some(kinds) == OfKind(all, kinds) # <<>>
        textual == IsTextual(m, ignorable)
        epub == ConformsTo(m, "epub")
        features ==
            {f \in {"tableOfContents", "pageNavigation", "mathml", "synchronizedAudioText",
                    "displayTransformability"} :
                /\ f \notin m.a11y.features
                /\ f = "tableOfContents" => m.toc # <<>>
                /\ f # "tableOfContents" => epub
                /\ f = "pageNavigation" => m.pageList
                /\ f = "mathml" =>
                      \E i \in DOMAIN all : "mathml" \in all[i].properties.contains
                /\ f = "synchronizedAudioText" => OfKind(m.resources, {"smil"}) # <<>>
                /\ f = "displayTransformability" =>
                      m.layout = "reflowable" /\ "AA" \in m.a11y.conformsTo}
    IN  [conformsTo |-> {},
         modes |-> IF m.a11y.modes # {} THEN {}
                   ELSE (IF textual THEN {"textual"} ELSE {})
                        \union (IF Some({"audio", "video"}) THEN {"auditory"} ELSE {})
                        \union (IF Some({"bitmap", "video"}) THEN {"visual"} ELSE {}),
         sufficient |-> IF m.a11y.sufficient # {} THEN {}
                        ELSE IF textual THEN {"textual"}
                        ELSE IF AllOfKind(all, {"audio"}) THEN {"auditory"}
                        ELSE IF AllOfKind(all, {"bitmap", "video"}) THEN {"visual"}
                        ELSE {},
         features |-> features]

\* A11y.Merge.
MergeA11y(a, other) == [k \in DOMAIN a |-> a[k] \union other[k]]
=============================================================================
