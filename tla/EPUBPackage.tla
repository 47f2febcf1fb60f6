----------------------------- MODULE EPUBPackage -----------------------------
(***************************************************************************)
(* From an EPUB package to a manifest: the items and the spine, the        *)
(* navigation documents, the encrypted files, and the links with their     *)
(* alternates (pkg/parser/epub: parser.go, parser_packagedoc.go,           *)
(* parser_navdoc.go, parser_ncx.go, parser_encryption.go, factory.go).     *)
(*                                                                         *)
(* A package is a record: its path, a sequence of names; version,          *)
(* prefixes, lang, uniqueId; its elements (see EPUBMetadata), items,       *)
(* itemrefs and the toc of its spine, as they are written; direction;      *)
(* documents, the navigation documents by path, those that can be read;    *)
(* encryption, the entries of encryption.xml; options, those of a display  *)
(* options file; and fallbackTitle.  A missing or malformed href is <<>>.  *)
(***************************************************************************)
EXTENDS EPUBMetadata

NoHref == <<>>

ParseItem(package, e) ==
    [e EXCEPT !.href = Resolve(Front(package.path), e.href),
              !.properties = Resolved(e.properties, PrefixMap(package.prefixes), "#item")]

\* The items of the manifest; one without an href is skipped.
Items(package) ==
    LET written == SelectSeq(package.items, LAMBDA e : e.href # NoHref)
    IN  [i \in DOMAIN written |-> ParseItem(package, written[i])]

\* The spine; a reference without an idref is skipped.
ItemRefs(package) ==
    LET written == SelectSeq(package.itemrefs, LAMBDA e : e.idref # "")
    IN  [i \in DOMAIN written |->
            [written[i] EXCEPT !.properties =
                Resolved(@, PrefixMap(package.prefixes), "#itemref")]]

\* Where the table of contents of EPUB 2 is.
SpineTOC(package) == IF package.version < 3 THEN package.toc ELSE ""

-----------------------------------------------------------------------------
(* Navigation: an entry is [tag, title, href, entries].  In a navigation   *)
(* document its tag is that of what comes first in it, "a", "span" or      *)
(* "ol", and its entries are those of its list; in an NCX it is a point.   *)

NoTarget == <<"#">>

\* An entry leads somewhere under a name, or has entries that do.  A navigation
\* document links from its "a" elements, an NCX from every point.
RECURSIVE Entries(_, _)
Entries(entries, dir) ==
    FlattenSeq([i \in DOMAIN entries |->
        LET e == entries[i]
            linked == e.tag \in {"a", "navPoint"} /\ e.href # NoHref
            title == IF e.tag = "ol" THEN "" ELSE e.title
            children == Entries(e.entries, dir)
        IN  IF children = <<>> /\ ~(linked /\ title # "") THEN <<>>
            ELSE <<[title |-> title, href |-> IF linked THEN Resolve(dir, e.href) ELSE NoTarget,
                    children |-> children]>>])

\* The targets of a page list have neither children nor a default.
parsePageListElement(targets, dir) ==
    LET listed == SelectSeq(targets, LAMBDA t : t.href # NoHref /\ t.title # "")
    IN  [i \in DOMAIN listed |->
            [title |-> listed[i].title, href |-> Resolve(dir, listed[i].href), children |-> <<>>]]

\* The collections keep the names of the types the toolkit knows without their
\* vocabulary.
NavName(t) ==
    IF t[1] = "#type" /\ t[2] \in {"toc", "page-list", "landmarks", "lot", "loi", "loa", "lov"}
    THEN <<"", t[2]>> ELSE t

ContentReservedPrefixes == {"msv", "prism"}

\* The lists of a navigation document by type; of two with a type in common the
\* later one counts.
ParseNavDoc(document, path) ==
    LET prefixMap == [p \in ContentReservedPrefixes \union DOMAIN document.prefixes |->
                         IF p \in DOMAIN document.prefixes THEN document.prefixes[p] ELSE p]
        navs == [i \in DOMAIN document.navs |->
                    [types |-> {NavName(resolveProperty(t, prefixMap, "#type")) : t \in document.navs[i].types},
                     links |-> Entries(document.navs[i].entries, Front(path))]]
        of(t) == SelectSeq(navs, LAMBDA n : t \in n.types /\ n.links # <<>>)
    IN  [t \in {u \in UNION {navs[i].types : i \in DOMAIN navs} : of(u) # <<>>} |-> Last(of(t)).links]

ParseNCX(document, path) ==
    LET toc == Entries(document.navMap, Front(path))
        pages == parsePageListElement(document.pageList, Front(path))
    IN  [n \in {m \in {<<"", "toc">>, <<"", "page-list">>} :
                   IF m[2] = "toc" THEN toc # <<>> ELSE pages # <<>>} |->
            IF n[2] = "toc" THEN toc ELSE pages]

\* The navigation data of the first item that has any: the item of the spine's toc
\* or else the first of the right type in EPUB 2, the item marked so in EPUB 3.  A
\* document that cannot be read leaves the publication without.
parseNavigationData(package) ==
    LET items == Items(package)
        toc == SpineTOC(package)
        found == SelectSeq(items, LAMBDA it :
                    CASE package.version >= 3 -> <<"#item", "nav">> \in ToSet(it.properties)
                      [] package.version < 3 /\ toc # "" -> it.id = toc
                      [] OTHER -> it.kind = "ncx")
    IN  CASE found = <<>> -> <<>>
          [] found # <<>> /\ found[1].href \notin DOMAIN package.documents -> <<>>
          [] OTHER -> LET document == package.documents[found[1].href]
                      IN  IF package.version < 3 THEN ParseNCX(document, found[1].href)
                          ELSE ParseNavDoc(document, found[1].href)

-----------------------------------------------------------------------------
(* Encrypted files.                                                        *)

NoEncryption == [algorithm |-> "", compression |-> "", length |-> 0]

\* The first compression that says how; only deflate is told from the rest.
parseEncryptionProperties(properties) ==
    LET saying == SelectSeq(properties, LAMBDA p : p.method # "")
    IN  IF saying = <<>> THEN [compression |-> "", length |-> 0]
        ELSE [compression |-> IF saying[1].method = "8" THEN "deflate" ELSE "none",
              length |-> saying[1].length]

\* By normalised path, the last entry of a path counting; one without a reference
\* is skipped.
ParseEncryption(package) ==
    LET entries == SelectSeq(package.encryption, LAMBDA e : e.href # NoHref)
        of(path) == Last(SelectSeq(entries, LAMBDA e : Clean(e.href) = path))
    IN  [path \in {Clean(entries[i].href) : i \in DOMAIN entries} |->
            [algorithm |-> of(path).algorithm] @@ parseEncryptionProperties(of(path).properties)]

-----------------------------------------------------------------------------
(* Links.                                                                  *)

\* Of two items, or references, with the same identifier the later one counts.
LastWith(seq, has(_)) == Last(SelectSeq(seq, has))

Some(seq, has(_)) == \E i \in DOMAIN seq : has(seq[i])

AddToSet(seq, v) == IF v \in ToSet(seq) THEN seq ELSE Append(seq, v)

Contained == [p \in {"scripted", "mathml", "svg", "xmp-record", "remote-resources"} |->
                 CASE p = "scripted" -> "js" [] p = "xmp-record" -> "xmp" [] OTHER -> p]

\* What the properties of an item say: relations, what it contains, the rest.
parseItemProperties(properties) ==
    LET own == {p[2] : p \in {q \in ToSet(properties) : q[1] = "#item"}}
    IN  [rels |-> FlattenSeq([i \in DOMAIN properties |->
                     CASE properties[i] = <<"#item", "nav">> -> <<"contents">>
                       [] properties[i] = <<"#item", "cover-image">> -> <<"cover">>
                       [] OTHER -> <<>>]),
         contains |-> {Contained[p] : p \in own \intersect DOMAIN Contained},
         others |-> {p \in ToSet(properties) :
                        ~(p[1] = "#item" /\ p[2] \in DOMAIN Contained \union {"nav", "cover-image"})}]

\* The side of the spread; the last property that says so counts.
parseItemrefProperties(properties) ==
    LET Sides == [left |-> {<<"rendition", "page-spread-left">>, <<"#itemref", "page-spread-left">>},
                  right |-> {<<"rendition", "page-spread-right">>, <<"#itemref", "page-spread-right">>},
                  center |-> {<<"rendition", "page-spread-center">>}]
        saying == SelectSeq(properties, LAMBDA p : \E s \in DOMAIN Sides : p \in Sides[s])
    IN  IF saying = <<>> THEN "" ELSE CHOOSE s \in DOMAIN Sides : Last(saying) \in Sides[s]

\* What the factory works from.
Sources(package) ==
    [items |-> Items(package), itemrefs |-> ItemRefs(package),
     metadata |-> ParseMetadata(package), encryption |-> ParseEncryption(package)]

computePropertiesAndRels(src, item) ==
    LET said == parseItemProperties(item.properties)
        own(r) == r.idref = item.id
        page == IF Some(src.itemrefs, own)
                THEN parseItemrefProperties(LastWith(src.itemrefs, own).properties) ELSE ""
        unique == FoldLeft(AddToSet, <<>>, said.rels)
        coverId == FirstValue(src.metadata.global, Meta("cover"))
    IN  [rels |-> IF coverId = item.id THEN AddToSet(unique, "cover") ELSE unique,
         properties |-> [contains |-> said.contains, others |-> said.others, page |-> page,
                         encrypted |-> IF Clean(item.href) \in DOMAIN src.encryption
                                       THEN src.encryption[Clean(item.href)] ELSE NoEncryption]]

\* The link of an item with its alternates: its fallback, unless it is in the chain
\* of fallbacks already, then its media overlay.
RECURSIVE computeLink(_, _, _)
computeLink(src, item, fallbackChain) ==
    LET said == computePropertiesAndRels(src, item)
        named(id) == SelectSeq(src.items, LAMBDA it : it.id = id)
        fallback == IF item.fallback = "" \/ item.fallback \in fallbackChain THEN <<>>
                    ELSE named(item.fallback)
        overlay == IF item.overlay = "" THEN <<>> ELSE named(item.overlay)
        refining == Having(SelectSeq(src.metadata.refine, LAMBDA m : m.refines = item.id),
                           Media("duration"))
    IN  [id |-> item.file, href |-> item.href, kind |-> item.kind, size |-> item.size,
         title |-> "", marks |-> <<>>,
         rels |-> said.rels, cover |-> "cover" \in ToSet(said.rels),
         properties |-> said.properties,
         duration |-> IF refining = <<>> THEN NoValue ELSE ParseClockValue(refining[1].value),
         alternates |->
            (IF fallback = <<>> THEN <<>>
             ELSE <<computeLink(src, Last(fallback), fallbackChain \union {item.fallback})>>)
            \o (IF overlay = <<>> THEN <<>> ELSE <<computeLink(src, Last(overlay), {})>>)]

\* A link of the metadata, with the kinds of record it is.
mapEPUBLink(l) ==
    LET record == <<"#link", "record">> \in ToSet(l.rels)
    IN  [href |-> l.href, kind |-> l.kind, rels |-> l.rels,
         contains |-> {f \in {"onix", "xmp"} : record /\ <<"#link", f>> \in ToSet(l.properties)}]

\* The linear part of the spine is the reading order, every other item a resource.
ReadingOrderIds(src) ==
    LET linear == SelectSeq(src.itemrefs, LAMBDA r : r.linear)
    IN  [i \in DOMAIN linear |-> linear[i].idref]

CreateLinks(src) ==
    LET ids == ReadingOrderIds(src)
        known == SelectSeq(ids, LAMBDA id : Some(src.items, LAMBDA it : it.id = id))
        rest == SelectSeq(src.items, LAMBDA it : it.id \notin ToSet(ids))
    IN  [order |-> [i \in DOMAIN known |->
                       computeLink(src, LastWith(src.items, LAMBDA it : it.id = known[i]), {})],
         resources |-> [i \in DOMAIN rest |-> computeLink(src, rest[i], {})]]

\* PublicationFactory.Create.
Create(package) ==
    LET src == Sources(package)
        metadata == Metadata(package, src.metadata)
        links == CreateLinks(src)
        navigation == parseNavigationData(package)
        toc == <<"", "toc">>
    IN  [profiles |-> {"epub"}, layout |-> metadata.layout,
         order |-> links.order, resources |-> links.resources, hrefs |-> {},
         links |-> [i \in DOMAIN src.metadata.links |-> mapEPUBLink(src.metadata.links[i])],
         toc |-> IF toc \in DOMAIN navigation THEN navigation[toc] ELSE <<>>,
         pageList |-> <<"", "page-list">> \in DOMAIN navigation,
         collections |-> [n \in DOMAIN navigation \ {toc} |-> navigation[n]],
         a11y |-> [k \in DOMAIN NoA11y |-> metadata.accessibility[k]],
         other |-> TRUE, inferred |-> NoA11y, pages |-> 0, metadata |-> metadata]
=============================================================================
