---------------------------- MODULE EPUBMetadata ----------------------------
(***************************************************************************)
(* The metadata of an EPUB package: the elements of <metadata>, the        *)
(* hierarchy their refinements make, and the metadata of the publication   *)
(* (pkg/parser/epub/metadata.go, property_data_type.go).                   *)
(*                                                                         *)
(* A property is written <<prefix, name>>, with "" for no prefix; resolved *)
(* it is <<vocabulary, name>>: "#meta", "#link", "#item", "#itemref" and   *)
(* "#type" are the default vocabularies, the others go by the prefix that  *)
(* is reserved for them.                                                   *)
(*                                                                         *)
(* An element is a record [tag, name, value, lang, id, refines, scheme,    *)
(* fileAs, role, event, rels, properties, href, kind], "" where it has no  *)
(* such attribute.  Its tag is "dc", "meta" (with a property), "name" (the *)
(* form of EPUB 2), "link" or "other".                                     *)
(***************************************************************************)
EXTENDS Parsers

\* A value is a string, read as a number, a list or a clock value where the code
\* reads it so.
Numbers == [s \in {"0", "1", "2", "3"} |->
                CASE s = "0" -> 0 [] s = "1" -> 1 [] s = "2" -> 2 [] s = "3" -> 3]

NoValue == -1

Number(raw) == IF raw \in DOMAIN Numbers THEN Numbers[raw] ELSE NoValue

\* The names of a list, which "," and ";" separate.
Names(raw) == IF raw = "history; war" THEN <<"history", "war">> ELSE <<raw>>

\* The parts of a clock value: the fields that ":" separates, or a count and its
\* metric.  Times are in thousandths of a second.
ClockFields == [s \in {"0:01:30", "01:30"} |->
                   IF s = "0:01:30" THEN <<0, 1, 30>> ELSE <<1, 30>>]
ClockCounts == [s \in {"2h", "5min", "90s", "90", "800ms", "5days"} |->
                   CASE s = "2h" -> <<2, "h">> [] s = "5min" -> <<5, "min">>
                     [] s = "90s" -> <<90, "s">> [] s = "90" -> <<90, "">>
                     [] s = "800ms" -> <<800, "ms">> [] OTHER -> <<5, "days">>]

parseTimecount(value, metric) ==
    CASE metric = "h" -> value * 3600000
      [] metric = "min" -> value * 60000
      [] metric \in {"s", ""} -> value * 1000
      [] metric = "ms" -> value
      [] OTHER -> NoValue

ParseClockValue(raw) ==
    IF raw \in DOMAIN ClockFields
    THEN LET p == Reverse(ClockFields[raw])
         IN  1000 * (p[1] + p[2] * 60 + (IF Len(p) > 2 THEN p[3] * 3600 ELSE 0))
    ELSE IF raw \in DOMAIN ClockCounts
    THEN parseTimecount(ClockCounts[raw][1], ClockCounts[raw][2])
    ELSE NoValue

-----------------------------------------------------------------------------
(* From elements to items.                                                 *)

PackageReservedPrefixes ==
    {"dcterms", "media", "rendition", "a11y", "marc", "onix", "schema", "xsd", "tdm"}

\* What the package declares overrides what is reserved.
PrefixMap(declared) ==
    [p \in PackageReservedPrefixes \union DOMAIN declared |->
        IF p \in DOMAIN declared THEN declared[p] ELSE p]

resolveProperty(property, prefixMap, defaultVocab) ==
    IF property[1] = "" THEN <<defaultVocab, property[2]>>
    ELSE IF property[1] \in DOMAIN prefixMap THEN <<prefixMap[property[1]], property[2]>>
    ELSE property

Resolved(properties, prefixMap, vocab) ==
    [i \in DOMAIN properties |-> resolveProperty(properties[i], prefixMap, vocab)]

DC(name) == <<"dcterms", name>>
Meta(name) == <<"#meta", name>>
Media(name) == <<"media", name>>
A11Y(name) == <<"a11y", name>>
Schema(name) == <<"schema", name>>

\* The language of an element: its own, the package's, or the publication's.
language(package, e) ==
    LET declared == SelectSeq(package.elements, LAMBDA x : x.tag = "dc" /\ x.name[2] = "language")
    IN  CASE e.lang # "" -> e.lang
          [] e.lang = "" /\ package.lang # "" -> package.lang
          [] OTHER -> IF declared = <<>> THEN "" ELSE declared[1].value

Item(package, e, property, value, children) ==
    [property |-> property, value |-> value, lang |-> language(package, e), id |-> e.id,
     refines |-> "", scheme |-> <<"", "">>, children |-> children]

\* <meta>, with a property and what it refines, or with a name and its content.
parseMetaElement(package, e) ==
    LET prefixMap == PrefixMap(package.prefixes)
        item == Item(package, e, resolveProperty(e.name, prefixMap, "#meta"), e.value, <<>>)
    IN  IF e.tag = "name" THEN item
        ELSE [item EXCEPT !.refines = e.refines,
                          !.scheme = IF e.scheme = <<"", "">> THEN e.scheme
                                     ELSE resolveProperty(e.scheme, prefixMap, "#meta")]

\* The attributes of EPUB 2 become refinements of the contributor.
contributorWithLegacyAttr(package, e) ==
    LET child(name, value) ==
            IF value = "" THEN <<>> ELSE <<Item(package, e, Meta(name), value, <<>>)>>
    IN  Item(package, e, DC(e.name[2]), e.value, child("file-as", e.fileAs) \o child("role", e.role))

dateWithLegacyAttr(package, e) ==
    Item(package, e, DC(IF e.event = "modification" THEN "modified" ELSE "date"), e.value, <<>>)

parseDcElement(package, e) ==
    CASE e.name[2] \in {"creator", "contributor", "publisher"} -> contributorWithLegacyAttr(package, e)
      [] e.name[2] = "date" -> dateWithLegacyAttr(package, e)
      [] OTHER -> Item(package, e, DC(e.name[2]), e.value, <<>>)

parseLinkElement(package, e) ==
    LET prefixMap == PrefixMap(package.prefixes)
    IN  [href |-> Resolve(Front(package.path), e.href), kind |-> e.kind, refines |-> e.refines,
         rels |-> Resolved(e.rels, prefixMap, "#link"),
         properties |-> Resolved(e.properties, prefixMap, "#link")]

\* The items and the links, in document order; what has no value, or no href, is
\* skipped.
parseElements(package) ==
    [metas |-> FlattenSeq([i \in DOMAIN package.elements |->
                  LET e == package.elements[i]
                  IN  CASE e.value = "" -> <<>>
                        [] e.value # "" /\ e.tag = "dc" -> <<parseDcElement(package, e)>>
                        [] e.value # "" /\ e.tag \in {"meta", "name"} /\ e.name[2] # "" ->
                              <<parseMetaElement(package, e)>>
                        [] OTHER -> <<>>]),
     links |-> FlattenSeq([i \in DOMAIN package.elements |->
                  LET e == package.elements[i]
                  IN  IF e.tag = "link" /\ e.href # <<>> THEN <<parseLinkElement(package, e)>>
                      ELSE <<>>])]

\* The item with the items that refine it below it.  The chain of identifiers met
\* so far is one map for the whole tree: what one branch has met, the next skips.
RECURSIVE computeMetaItem(_, _, _)
computeMetaItem(expr, metas, chain) ==
    LET refining == IF expr.id = "" THEN <<>>
                    ELSE SelectSeq(metas, LAMBDA m : m.refines = expr.id)
        Step(acc, meta) ==
            IF meta.id \in acc.chain THEN acc
            ELSE LET child == computeMetaItem(meta, metas, acc.chain)
                 IN  [children |-> Append(acc.children, child.item), chain |-> child.chain]
        all == FoldLeft(Step, [children |-> <<>>, chain |-> chain \union ({expr.id} \ {""})],
                        refining)
    IN  [item |-> [expr EXCEPT !.children = @ \o all.children], chain |-> all.chain]

\* The roots are the items that refine nothing, or something that is no item (an
\* item of the manifest).
resolveMetaHierarchy(items) ==
    LET metadataIds == {items[i].id : i \in DOMAIN items} \ {""}
        roots == SelectSeq(items, LAMBDA m : m.refines \notin metadataIds)
    IN  [i \in DOMAIN roots |-> computeMetaItem(roots[i], items, {}).item]

\* MetadataParser.Parse.
ParseMetadata(package) ==
    LET parsed == parseElements(package)
        all == resolveMetaHierarchy(parsed.metas)
    IN  [global |-> SelectSeq(all, LAMBDA m : m.refines = ""),
         refine |-> SelectSeq(all, LAMBDA m : m.refines # ""),
         links |-> parsed.links]

-----------------------------------------------------------------------------
(* What the items say.                                                     *)

Having(items, property) == SelectSeq(items, LAMBDA m : m.property = property)

Values(items) == {items[i].value : i \in DOMAIN items}

FirstValue(items, property) ==
    LET having == Having(items, property) IN IF having = <<>> THEN "" ELSE having[1].value

LinksOf(links, rel) == SelectSeq(links, LAMBDA l : \E i \in DOMAIN l.rels : l.rels[i] = rel)

UndefinedLanguage == "und"

Tag(lang) == IF lang = "" THEN UndefinedLanguage ELSE lang

\* The value by language, in its own script and in others.
LocalizedString(m) ==
    LET scripts == Having(m.children, Meta("alternate-script"))
        Of(lang) == SelectSeq(scripts, LAMBDA c : Tag(c.lang) = lang)
    IN  [lang \in {Tag(m.lang)} \union {Tag(scripts[i].lang) : i \in DOMAIN scripts} |->
            IF Of(lang) = <<>> THEN m.value ELSE Last(Of(lang)).value]

NoString == <<>>

FileAs(m) ==
    LET child == Having(m.children, Meta("file-as"))
    IN  IF child = <<>> \/ child[1].value = "" THEN NoString
        ELSE (Tag(child[1].lang) :> child[1].value)

\* A title and a subject are sorted as it says in a language only.
FileAsInLanguage(m) ==
    LET child == Having(m.children, Meta("file-as"))
    IN  IF child # <<>> /\ child[1].lang = "" THEN NoString ELSE FileAs(m)

ToTitle(m) ==
    [value |-> LocalizedString(m), fileAs |-> FileAsInLanguage(m),
     typ |-> FirstValue(m.children, Meta("title-type")),
     displaySeq |-> Number(FirstValue(m.children, Meta("display-seq")))]

NilOrZero(n) == IF n = NoValue THEN 0 ELSE n

\* The main title is the first that says so, or the first; the subtitle the first
\* in display order.
TitleData(items, fallbackTitle) ==
    LET dc == Having(items, DC("title"))
        titles == [i \in DOMAIN dc |-> ToTitle(dc[i])]
        saysMain == SelectSeq(titles, LAMBDA t : t.typ = "main")
        main == IF saysMain # <<>> THEN saysMain[1] ELSE titles[1]
        subtitles == Sorted(SelectSeq(titles, LAMBDA t : t.typ = "subtitle"),
                            LAMBDA t, u : NilOrZero(t.displaySeq) < NilOrZero(u.displaySeq))
        calibre == FirstValue(items, <<"calibre", "title_sort">>)
    IN  [title |-> IF titles = <<>> THEN (UndefinedLanguage :> fallbackTitle) ELSE main.value,
         subtitle |-> IF subtitles = <<>> THEN NoString ELSE subtitles[1].value,
         sortAs |-> CASE titles # <<>> /\ main.fileAs # NoString -> main.fileAs
                      [] OTHER -> IF calibre = "" THEN NoString
                                  ELSE (UndefinedLanguage :> calibre)]

\* The identifier the package names, or the first; the others are alternatives.
Identifiers(items, uniqueIdentifierID) ==
    LET all == Having(items, DC("identifier"))
        unique == SelectSeq(all, LAMBDA m : m.id = uniqueIdentifierID)
        others == SelectSeq(all, LAMBDA m : m.id # uniqueIdentifierID)
    IN  [identifier |-> CASE all = <<>> -> ""
                          [] unique # <<>> -> Last(unique).value
                          [] OTHER -> all[1].value,
         alternatives |-> [i \in DOMAIN others |-> <<others[i].value, others[i].scheme>>]]

ToSubject(m) ==
    [name |-> LocalizedString(m), sortAs |-> FileAsInLanguage(m),
     scheme |-> FirstValue(m.children, Meta("authority")),
     code |-> FirstValue(m.children, Meta("term"))]

\* A single subject that says nothing but a name may be a list of them.
Subjects(items) ==
    LET all == Having(items, DC("subject"))
        subjects == [i \in DOMAIN all |-> ToSubject(all[i])]
        s == subjects[1]
        lang == CHOOSE l \in DOMAIN s.name : TRUE
    IN  IF /\ Len(subjects) = 1 /\ Cardinality(DOMAIN s.name) = 1
           /\ s.code = "" /\ s.scheme = "" /\ s.sortAs = NoString
        THEN [i \in DOMAIN Names(s.name[lang]) |->
                 [s EXCEPT !.name = (lang :> Names(s.name[lang])[i])]]
        ELSE subjects

-----------------------------------------------------------------------------
(* Contributors and collections.                                           *)

knownRoles == {"aut", "trl", "edt", "pbl", "art", "ill", "clr", "nrt"}

\* Mutant: a role nobody asks for is a list of its own.
ContributorTypeOwn(m, role) ==
    CASE m.property = Meta("belongs-to-collection") -> FirstValue(m.children, Meta("collection-type"))
      [] m.property = DC("creator") -> "aut"
      [] m.property = DC("publisher") -> "pbl"
      [] m.property = Media("narrator") -> "nrt"
      [] OTHER -> role

\* Which list the contributor goes to: what its element says comes before its
\* role, and a role that is not known puts it among the other contributors.
ContributorType(m, role) ==
    CASE m.property = Meta("belongs-to-collection") -> FirstValue(m.children, Meta("collection-type"))
      [] m.property = DC("creator") -> "aut"
      [] m.property = DC("publisher") -> "pbl"
      [] m.property = Media("narrator") -> "nrt"
      [] OTHER -> IF role \in knownRoles THEN role ELSE ""

ToContributor(m) ==
    LET role == FirstValue(m.children, Meta("role"))
        ids == Having(m.children, DC("identifier"))
    IN  [typ |-> ContributorType(m, role),
         name |-> LocalizedString(m),
         sortAs |-> FileAs(m),
         roles |-> {role} \ ({""} \union knownRoles),
         identifier |-> IF ids = <<>> THEN "" ELSE ids[1].value,
         alternatives |-> IF ids = <<>> THEN <<>>
                          ELSE [i \in 1..(Len(ids) - 1) |-> <<ids[i + 1].value, m.scheme>>],
         position |-> Number(FirstValue(m.children, Meta("group-position")))]

ContributorItems(items) ==
    Having(items, DC("creator")) \o Having(items, DC("contributor"))
        \o Having(items, DC("publisher")) \o Having(items, Media("narrator"))

Contributors(items, typ) ==
    LET all == ContributorItems(items)
    IN  SelectSeq([i \in DOMAIN all |-> ToContributor(all[i])], LAMBDA c : c.typ = typ)

\* The series it belongs to, EPUB 2's when it declares none, and the collections.
BelongsTo(items) ==
    LET all == Having(items, Meta("belongs-to-collection"))
        holders == [i \in DOMAIN all |-> ToContributor(all[i])]
        series == SelectSeq(holders, LAMBDA c : c.typ = "series")
        calibre == Having(items, <<"calibre", "series">>)
    IN  [collection |-> SelectSeq(holders, LAMBDA c : c.typ # "series"),
         series |-> CASE series # <<>> -> series
                      [] series = <<>> /\ calibre # <<>> ->
                            <<[typ |-> "series", name |-> (Tag(calibre[1].lang) :> calibre[1].value),
                               sortAs |-> NoString, roles |-> {}, identifier |-> "",
                               alternatives |-> <<>>,
                               position |-> Number(FirstValue(items, <<"calibre", "series_index">>))]>>
                      [] OTHER -> <<>>]

-----------------------------------------------------------------------------
(* Accessibility and the rest.                                             *)

\* The profiles the toolkit knows, by what the package calls them.
a11yProfile == [v \in {"wcag-a", "wcag-aa"} |-> IF v = "wcag-a" THEN "A" ELSE "AA"]

\* Who certified, with what, and where the report is: a certifier with an
\* identifier has refinements of its own, one without takes the package's.
a11yCertification(items, links, certifier) ==
    LET reports == LinksOf(links, A11Y("certifierReport"))
        own == SelectSeq(reports, LAMBDA l : l.refines = certifier.id)
        report(found) == IF found = <<>> THEN <<>> ELSE found[1].href
        named == FirstValue(items, A11Y("certifierReport"))
    IN  [by |-> certifier.value]
        @@ IF certifier.id # ""
           THEN [credential |-> FirstValue(certifier.children, A11Y("certifierCredential")),
                 report |-> report(own)]
           ELSE [credential |-> FirstValue(items, A11Y("certifierCredential")),
                 report |-> IF named # "" THEN <<named>> ELSE report(reports)]

NoCertification == [by |-> "", credential |-> "", report |-> <<>>]

\* What the properties of some items say.
A11yOf(items, certification) ==
    LET of(property) == Values(Having(items, property))
    IN  [conformsTo |-> {}, modes |-> of(Schema("accessMode")),
         sufficient |-> of(Schema("accessModeSufficient")),
         features |-> of(Schema("accessibilityFeature")),
         hazards |-> of(Schema("accessibilityHazard")),
         exemptions |-> of(A11Y("exemption")),
         summary |-> FirstValue(items, Schema("accessibilitySummary")),
         certification |-> certification]

\* Nothing is said; exemptions do not count.
IsEmptyA11y(a) ==
    /\ a.certification = NoCertification /\ a.summary = ""
    /\ \A k \in {"conformsTo", "modes", "sufficient", "features", "hazards"} : a[k] = {}

\* A statement of conformance may be refined; the last that is wins, property by
\* property, and what it says is merged into what the package says.
Accessibility(items, links) ==
    LET certifiers == Having(items, A11Y("certifiedBy"))
        nobody == [id |-> "", value |-> "", children |-> <<>>]
        certifier(some) == IF some = <<>> THEN nobody ELSE some[1]
        stated == SelectSeq(Having(items, DC("conformsTo")),
                            LAMBDA m : m.value \in DOMAIN a11yProfile)
        linked == SelectSeq(LinksOf(links, DC("conformsTo")),
                            LAMBDA l : Last(l.href) \in DOMAIN a11yProfile)
        Refining(property) ==
            LET with == SelectSeq(stated, LAMBDA m : Having(m.children, property) # <<>>)
            IN  IF with = <<>> THEN <<>> ELSE Having(Last(with).children, property)
        refined ==
            A11yOf(Refining(Schema("accessMode")) \o Refining(Schema("accessModeSufficient"))
                   \o Refining(Schema("accessibilityFeature")) \o Refining(Schema("accessibilityHazard"))
                   \o Refining(Schema("accessibilitySummary")),
                   IF Refining(A11Y("certifiedBy")) = <<>> THEN NoCertification
                   ELSE a11yCertification(items, links, Refining(A11Y("certifiedBy"))[1]))
        own == [A11yOf(items, a11yCertification(items, links, certifier(certifiers)))
                  EXCEPT !.conformsTo =
                     {a11yProfile[stated[i].value] : i \in DOMAIN stated}
                     \union {a11yProfile[Last(linked[i].href)] : i \in DOMAIN linked}]
    IN  IF IsEmptyA11y(own) THEN A11yOf(<<>>, NoCertification)
        ELSE IF IsEmptyA11y(refined) THEN own
        ELSE [k \in DOMAIN own |->
                 CASE k = "summary" -> IF refined.summary # "" THEN refined.summary ELSE own.summary
                   [] k = "certification" -> IF refined.certification # NoCertification
                                             THEN refined.certification ELSE own.certification
                   [] k = "exemptions" -> own.exemptions
                   [] OTHER -> own[k] \union refined[k]]

TDM(items) ==
    LET reservation == FirstValue(items, <<"tdm", "reservation">>)
    IN  [policy |-> FirstValue(items, <<"tdm", "policy">>),
         reservation |-> IF reservation \in {"0", "1"} THEN reservation ELSE ""]

\* Before EPUB 3 the layout is in the display options of the vendors.
Layout(package, items) ==
    LET prop == IF package.version < 3
                THEN (IF "fixed-layout" \in DOMAIN package.options
                         /\ package.options["fixed-layout"] = "true"
                      THEN "pre-paginated" ELSE "reflowable")
                ELSE FirstValue(items, <<"rendition", "layout">>)
    IN  CASE prop = "pre-paginated" -> "fixed"
          [] prop = "scrolled" -> "scrolled"
          [] OTHER -> "reflowable"

usedProperties ==
    {Meta("cover"), <<"rendition", "layout">>}
    \union {DC(n) : n \in {"identifier", "language", "title", "date", "modified", "description",
                           "duration", "creator", "publisher", "contributor", "conformsto",
                           "conformsTo"}}
    \union {Media(n) : n \in {"narrator", "duration", "active-class", "playback-active-class"}}
    \union {A11Y(n) : n \in {"certifiedBy", "certifierCredential", "certifierReport"}}
    \union {Schema(n) : n \in {"accessibilitySummary", "accessMode", "accessModeSufficient",
                               "accessibilityFeature", "accessibilityHazard"}}

\* A value and the values of the items that refine it, the last by property.
RECURSIVE ToMap(_)
ToMap(m) ==
    [value |-> m.value,
     of |-> {<<p, ToMap(Last(Having(m.children, p)))>> :
               p \in {m.children[i].property : i \in DOMAIN m.children}}]

\* What is left, by property.
OtherMetadata(items) ==
    [p \in {items[i].property : i \in DOMAIN items} \ usedProperties |->
        [i \in DOMAIN Having(items, p) |-> ToMap(Having(items, p)[i])]]

\* PubMetadataAdapter.Metadata.
Metadata(package, metadata) ==
    LET items == metadata.global
    IN  [ids |-> Identifiers(items, package.uniqueId),
         titles |-> TitleData(items, package.fallbackTitle),
         modified |-> FirstValue(items, DC("modified")),
         published |-> FirstValue(items, DC("date")),
         description |-> FirstValue(items, DC("description")),
         languages |-> [i \in DOMAIN Having(items, DC("language")) |->
                           Having(items, DC("language"))[i].value],
         accessibility |-> Accessibility(items, metadata.links),
         tdm |-> TDM(items),
         duration |-> ParseClockValue(FirstValue(items, Media("duration"))),
         subjects |-> Subjects(items),
         progression |-> package.direction,
         layout |-> Layout(package, items),
         overlay |-> [active |-> FirstValue(items, Media("active-class")),
                      playback |-> FirstValue(items, Media("playback-active-class"))],
         belongsTo |-> BelongsTo(items),
         others |-> OtherMetadata(items),
         contributors |-> [typ \in knownRoles \union {""} |-> Contributors(items, typ)]]
=============================================================================
