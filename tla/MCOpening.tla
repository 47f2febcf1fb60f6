------------------------------ MODULE MCOpening ------------------------------
(* An instance of Opening for TLC: every type of asset, listings of up to     *)
(* three files in any order, and the options that matter to each of them.     *)
EXTENDS Opening

CONSTANT none

\* id, natural rank, chapter number, kind, cover, title (or size), marks
File(i, n, c, k, t, marks) ==
    [id |-> i, nat |-> n, number |-> c, kind |-> k, cover |-> FALSE, title |-> t, marks |-> marks,
     size |-> 512 * n, alternates |-> <<>>, href |-> <<>>, properties |-> [contains |-> {}]]

page10 == File(1, 3, 10, "bitmap", "10x10", <<<<"", 0>>>>)
page2  == File(2, 2, 2, "bitmap", "2x2", <<<<"", 0>>>>)
page3  == File(3, 4, NoNumber, "bitmap", "3x3", <<<<"", 0>>>>)
track10 == File(4, 6, NoNumber, "audio", "last", <<<<"two", 0>>, <<"three", 5>>>>)
track2  == File(5, 5, NoNumber, "audio", "first", <<<<"one", 0>>, <<"two", 7>>>>)
bonus   == File(6, 7, NoNumber, "audio", "", <<>>)
list    == File(7, 1, NoNumber, "playlist", "", <<>>)
note    == File(8, 8, NoNumber, "text", "", <<>>)
thumbs  == File(9, 9, NoNumber, "hidden", "", <<>>)
vol10   == File(10, 11, 10, "comic", "vol 10", <<>>)
vol2    == File(11, 10, 2, "comic", "vol 2", <<>>)
extra   == File(12, 1, NoNumber, "comic", "extra", <<>>)
chapter == File(13, 12, NoNumber, "html", "", <<>>)
picture == File(14, 13, NoNumber, "bitmap", "", <<>>)
cover   == [picture EXCEPT !.id = 15, !.cover = TRUE]
pdf     == File(16, 14, NoNumber, "pdf", "", <<>>)
smil    == File(17, 15, NoNumber, "smil", "", <<>>)

Manifest(profiles, ro, resources, a11y) ==
    [profiles |-> profiles, layout |-> "reflowable", order |-> ro, resources |-> resources,
     hrefs |-> {}, toc |-> <<>>, pageList |-> TRUE, a11y |-> a11y, other |-> TRUE,
     inferred |-> NoA11y, pages |-> 0]

Nothing == Manifest({}, <<>>, <<>>, NoA11y)

NoPackage == [documents |-> <<>>]

Asset(type, links, m) ==
    [type |-> type, links |-> links, rwpm |-> m, dir |-> <<"a", "b">>, package |-> NoPackage]

Listings ==
    UNION {SetToSeqs(S) :
             S \in {{page10, page2, page3}, {track10, track2}, {track10, track2, bonus},
                    {track2, list, bonus}, {track2, page2}, {vol10, vol2, extra}, {vol2, page2},
                    {vol2, note}, {note, thumbs}, {}, {track10, bonus, thumbs}}}

Declared == [NoA11y EXCEPT !.conformsTo = {"A", "AA"}, !.modes = {"textual"}]

-----------------------------------------------------------------------------
(* Packages.                                                               *)

El(tag, name, value) ==
    [tag |-> tag, name |-> name, value |-> value, lang |-> "", id |-> "", refines |-> "",
     scheme |-> <<"", "">>, fileAs |-> "", role |-> "", event |-> "", rels |-> <<>>,
     properties |-> <<>>, href |-> <<>>, kind |-> ""]

Dc(name, value) == El("dc", <<"", name>>, value)
Prop(prefix, name, value) == El("meta", <<prefix, name>>, value)
Id(e, id) == [e EXCEPT !.id = id]
On(e, id) == [e EXCEPT !.refines = id]

It(file, id, kind, href, fallback, overlay, properties) ==
    [file |-> file, id |-> id, kind |-> kind, href |-> href, fallback |-> fallback,
     overlay |-> overlay, properties |-> properties, size |-> 700 * (file % 20)]

Ref(id, linear, properties) == [idref |-> id, linear |-> linear, properties |-> properties]

Li(tag, title, href, entries) == [tag |-> tag, title |-> title, href |-> href, entries |-> entries]

Node(tag, text, nodes) ==
    [tag |-> tag, text |-> text, audio |-> IF tag = "par" THEN <<"a.mp3">> ELSE <<>>,
     begin |-> "0:01:30", end |-> "2h", types |-> <<"chapter", "other">>, nodes |-> nodes]

Text1 == It(21, "t1", "html", <<"t1.xhtml">>, "", "s1", <<<<"", "scripted">>, <<"", "x">>>>)
Text2 == It(22, "t2", "html", <<"t2.xhtml">>, "", "s2", <<<<"", "mathml">>>>)
Image == It(14, "i1", "bitmap", <<"..", "i.png">>, "t2", "", <<<<"", "cover-image">>>>)
Smil1 == It(23, "s1", "smil", <<"s1.smil">>, "", "", <<>>)
Smil2 == It(24, "s2", "smil", <<"s2.smil">>, "", "", <<>>)
Nav   == It(25, "nav", "html", <<"nav.xhtml">>, "", "", <<<<"", "nav">>>>)
Ncx   == It(26, "ncx", "ncx", <<"toc.ncx">>, "", "", <<>>)
NoHrefItem == It(27, "x", "html", <<>>, "", "", <<>>)

Toc == <<Li("a", "One", <<"t1.xhtml">>, <<>>),
         Li("span", "Part", <<>>, <<Li("a", "Two", <<"t2.xhtml">>, <<>>), Li("a", "", <<"t2.xhtml">>, <<>>)>>),
         Li("ol", "One", <<>>, <<Li("span", "lost", <<>>, <<>>), Li("a", "Last", <<"t1.xhtml">>, <<>>)>>)>>

Points == <<Li("navPoint", "One", <<>>, <<Li("navPoint", "Two", <<"t2.xhtml">>, <<>>)>>),
            Li("navPoint", "Empty", <<>>, <<>>), Li("navPoint", "Three", <<"t1.xhtml">>, <<>>)>>

Documents ==
    (<<"o", "nav.xhtml">> :>
        [prefixes |-> <<>>,
         navs |-> <<[types |-> {<<"", "toc">>, <<"msv", "map">>}, entries |-> Toc],
                    [types |-> {<<"", "page-list">>}, entries |-> <<Li("a", "1", <<"t1.xhtml">>, <<>>)>>],
                    [types |-> {<<"", "loi">>}, entries |-> <<>>]>>])
    @@ (<<"o", "toc.ncx">> :> [navMap |-> Points, pageList |-> Points])
    @@ (<<"o", "s1.smil">> :>
           [navMap |-> <<>>, body |-> <<Node("par", <<"t1.xhtml">>, <<>>),
                      Node("seq", <<"t1.xhtml">>, <<Node("par", <<"t2.xhtml">>, <<>>)>>)>>])
    @@ (<<"o", "s2.smil">> :> [navMap |-> <<>>, body |-> <<Node("par", <<>>, <<>>)>>])

Package ==
    [path |-> <<"o", "p.opf">>, version |-> 3, prefixes |-> <<>>, lang |-> "en", uniqueId |-> "uid",
     elements |-> <<Id(Dc("identifier", "urn:1"), "uid"), Dc("title", "Main"), Dc("language", "fr")>>,
     items |-> <<Text1, Smil1, Text2, Smil2, Image, Nav, Ncx, NoHrefItem>>,
     itemrefs |-> <<Ref("t1", TRUE, <<<<"rendition", "page-spread-left">>>>), Ref("nav", FALSE, <<>>),
                    Ref("t2", TRUE, <<<<"", "page-spread-right">>>>), Ref("gone", TRUE, <<>>)>>,
     toc |-> "", direction |-> "ltr", documents |-> Documents,
     encryption |-> <<[href |-> <<"i.png">>, algorithm |-> "aes",
                       properties |-> <<[method |-> "8", length |-> 9]>>]>>,
     options |-> [o \in {"fixed-layout"} |-> "true"], fallbackTitle |-> "file"]

With_(p, more) == [p EXCEPT !.elements = @ \o more]

\* Three elements that refine a title, an item, each other or themselves.
Refinements ==
    {With_(Package, <<Id(Dc("title", "Sub"), "t"),
                      Id(On(Prop("", "title-type", "subtitle"), r1), i1),
                      Id(On(Prop("", "display-seq", "1"), r2), "b"),
                      On(Prop("", "alternate-script", "Autre"), r3)>>) :
       r1 \in {"t", "a", "b", "t1"}, r2 \in {"t", "a", "b"}, r3 \in {"t", "a", "b", "none"},
       i1 \in {"a", "t"}}

\* Contributors of every kind, with a role as an attribute or as a refinement.
People ==
    {With_(Package, <<Id([d EXCEPT !.role = legacy, !.fileAs = "Last, First"], "c"),
                      On(Prop("", "role", role), "c"), Prop("media", "narrator", "Voice"),
                      Dc("contributor", "Helper"),
                      On(Prop("dcterms", "identifier", "isni"), "c")>>) :
       d \in {Dc("creator", "C"), Dc("contributor", "C"), Dc("publisher", "C")},
       legacy \in {"", "trl", "bkp"}, role \in {"", "aut", "ill", "own"}}

\* Fallbacks in every shape, loops among them.
Fallbacks ==
    {[Package EXCEPT !.items = <<[Text1 EXCEPT !.fallback = f1], [Text2 EXCEPT !.fallback = f2], Smil1, Smil2,
                                 [Image EXCEPT !.fallback = f3]>>,
                     !.itemrefs = IF twice THEN @ \o @ ELSE @] :
       f1 \in {"", "t2", "i1"}, f2 \in {"t1", "i1", "gone"}, f3 \in {"t1", "t2", "i1"},
       twice \in BOOLEAN}

Rich == With_(Package,
    <<[El("link", <<"", "">>, "") EXCEPT !.href = <<"a", "wcag-aa">>, !.rels = <<<<"dcterms", "conformsTo">>>>],
      [El("link", <<"", "">>, "") EXCEPT !.href = <<"report.html">>, !.rels = <<<<"a11y", "certifierReport">>>>,
                                        !.refines = "cert"],
      [El("link", <<"", "">>, "") EXCEPT !.href = <<"m.xml">>, !.rels = <<<<"", "record">>>>,
                                        !.properties = <<<<"", "onix">>>>],
      Id(Prop("dcterms", "conformsTo", "wcag-a"), "conf"), On(Prop("schema", "accessibilityHazard", "none"), "conf"),
      Id(On(Prop("a11y", "certifiedBy", "Someone"), "conf"), "cert"),
      On(Prop("a11y", "certifierCredential", "expert"), "cert"),
      Prop("schema", "accessMode", "textual"), Prop("schema", "accessModeSufficient", "textual"),
      Prop("schema", "accessibilityFeature", "tableOfContents"), Prop("a11y", "exemption", "emaa"),
      Dc("subject", "history; war"), [Dc("date", "2020") EXCEPT !.event = "modification"],
      Id(Prop("", "belongs-to-collection", "Saga"), "col"), On(Prop("", "collection-type", "series"), "col"),
      On(Prop("", "group-position", "2"), "col"), Prop("tdm", "reservation", "1"),
      Prop("media", "duration", "5min"), On(Prop("media", "duration", "90s"), "t1"),
      Prop("media", "active-class", "on"), Prop("own", "thing", "x"),
      Prop("rendition", "layout", "scrolled")>>)

Old == [With_(Package,
    <<El("name", <<"", "cover">>, "i1"), El("name", <<"calibre", "series">>, "Old saga"),
      El("name", <<"calibre", "series_index">>, "3"), El("name", <<"calibre", "title_sort">>, "main"),
      Dc("subject", "history"), Dc("subject", "war"), [Dc("identifier", "isbn") EXCEPT !.id = "other"],
      Prop("schema", "accessMode", "visual"), Prop("", "blank", ""), Dc("date", "1999"),
      El("other", <<"", "">>, "")>>) EXCEPT !.version = 2, !.lang = "", !.uniqueId = "none",
      !.items = <<Ncx, Text1, [Text2 EXCEPT !.overlay = ""], Image>>]

\* In no language.
Unspoken == [Package EXCEPT !.lang = "",
    !.elements = <<Id(Dc("title", "The Rest"), "t"), On(Prop("", "file-as", "Rest, The"), "t"),
                   Dc("creator", "C")>>]

Packages ==
    Refinements \union People \union Fallbacks \union
    {Package, Rich, Old, Unspoken, [Old EXCEPT !.toc = "ncx", !.options = <<>>], [Old EXCEPT !.toc = "gone"],
     [Old EXCEPT !.elements = <<>>], [Package EXCEPT !.documents = <<>>],
     [Package EXCEPT !.documents[<<"o", "s2.smil">>].body[1] =
                        [@ EXCEPT !.text = <<"t2.xhtml">>, !.audio = EmptySource]],
     [Package EXCEPT !.itemrefs = <<>>], [Rich EXCEPT !.prefixes = [p \in {"own"} |-> "urn:own#"]],
     [Package EXCEPT !.items = <<Image, Ncx>>, !.itemrefs = <<Ref("i1", TRUE, <<>>)>>],
     [Package EXCEPT !.items = <<Text2, Nav>>]}

\* None climbs above the root of the file system, which is two levels up.
Paths == UNION {[1..n -> {"..", "a", "c"}] : n \in 1..3} \ {<<"..", "..", "..">>}

MCAssets ==
    {Asset("zip", l, Nothing) : l \in Listings}
    \union {Asset("comic", l, Nothing) : l \in {<<page10, page2>>, <<chapter>>}}
    \union {Asset("zab", l, Nothing) : l \in {<<track2, chapter>>, <<chapter>>}}
    \union {Asset("pdf", l, [Nothing EXCEPT !.pages = n,
                                            !.toc = <<[file |-> 16, title |-> "two", start |-> 2]>>]) :
              l \in {<<pdf>>, <<>>}, n \in {0, 3}}
    \union {[Asset("epub", <<>>, Nothing) EXCEPT !.package = p] : p \in Packages}
    \union {Asset(t, <<>>, Manifest({}, ro, <<>>, NoA11y)) :
              t \in {"rwpm", "audiobook", "lcpdf", "divina-rwpm", "webpub"},
              ro \in {<<>>, <<track2>>, <<pdf>>, <<page2>>, <<chapter, picture>>}}
    \union {Asset("rwpm", <<>>, [Manifest({}, <<track2>>, <<>>, NoA11y) EXCEPT !.hrefs = H]) :
              H \in {{p, q} : p \in Paths, q \in Paths}}
    \union {Asset("rwpm", <<>>, Manifest({"epub"}, <<chapter>>, <<picture>>, NoA11y))}

Config(probes, rich, infer, ignorable, selection, callback) ==
    [probes |-> probes, rich |-> rich, infer |-> infer, ignorable |-> ignorable,
     selection |-> selection, exposes |-> callback = "hide", callback |-> callback,
     count |-> probes # 1]

MCConfigs ==
    {Config(2, TRUE, "no", {}, None, "none"), Config(1, TRUE, "merged", {14}, None, "set"),
     Config(0, FALSE, "merged", {}, <<vol2, vol10>>, "hide"),
     Config(0, TRUE, "merged", {9}, <<vol2, vol2>>, "removeAll"),
     Config(2, FALSE, "split", {}, <<page2>>, "remove")}

MCPlaylist == <<<<6, 0>>, <<99, 0>>, <<5, 3>>>>
=============================================================================
