------------------------------- MODULE Opening -------------------------------
(***************************************************************************)
(* Opening a publication: Streamer.Open (pkg/streamer/streamer.go), the    *)
(* five parsers it asks in turn, the probes the image and the audio        *)
(* parser run side by side, and the life of the fetchers on the way.       *)
(*                                                                         *)
(* Open makes a fetcher for the asset, gives it to one parser after the    *)
(* other, lets a callback customise what the parser made, builds the       *)
(* services and infers accessibility metadata.  Whoever fails closes the   *)
(* fetcher, or should.  While a parser probes, its goroutines hold handles *)
(* of the fetcher and write the reading order.                             *)
(*                                                                         *)
(* An asset is [type, links, rwpm, dir, package]: its media type, the      *)
(* files its fetcher lists, the manifest of a web publication (see         *)
(* Parsers; of a PDF the library that reads it makes one), the directory   *)
(* of a bare manifest, and the package of an EPUB (see EPUBPackage).       *)
(***************************************************************************)
EXTENDS EPUBServices

CONSTANTS
    Assets,    \* the assets to open
    Configs,   \* [probes, rich, infer, ignorable, selection, exposes, callback, count]
    Playlist,  \* the entries of the playlist file, when there is one: <<id, start>>
    None

OpeningAssumption ==
    \A c \in Configs : c.probes \in Nat

ASSUME OpeningAssumption

VARIABLES
    asset,
    config,
    pc,        \* where Open is
    parser,    \* the parser that is asked
    fetchers,  \* fetchers["asset"], fetchers["relative"]: "none", "open", "closed"
    order,     \* the reading order, as its files have been found so far
    probe,     \* probe[i]: where the probe of order[i] is
    data,      \* data[i]: what it has read
    handles,   \* the open resources: <<fetcher, who>>
    cancelled, \* ctx is done
    builder,   \* what the parser made: [fetcher, manifest, services, exposed, guides]
    result     \* what Open returned

vars == <<asset, config, pc, parser, fetchers, order, probe, data, handles,
          cancelled, builder, result>>

DefaultParsers == <<"epub", "pdf", "webpub", "image", "audio">>

Init ==
    /\ asset \in Assets
    /\ config \in Configs
    /\ pc = "start"
    /\ parser = 1
    /\ fetchers = [f \in {"asset", "relative"} |-> "none"]
    /\ order = <<>>
    /\ probe = <<>>
    /\ data = <<>>
    /\ handles = {}
    /\ cancelled = FALSE
    /\ builder = None
    /\ result = None

\* The caller's context is cancelled.
Cancel ==
    /\ pc = "probing"
    /\ ~cancelled
    /\ cancelled' = TRUE
    /\ UNCHANGED <<asset, config, pc, parser, fetchers, order, probe, data,
                   handles, builder, result>>

Return(what) ==
    /\ pc' = "returned"
    /\ result' = what

\* Mutant: an error of a parser leaves the fetcher open.
FailUnclosed(f) ==
    /\ Return("error")
    /\ UNCHANGED <<fetchers, handles>>

\* fetcher.Close, which releases what was opened through it, and an error.
Fail(f) ==
    /\ fetchers' = [fetchers EXCEPT ![f] = "closed"]
    /\ handles' = {h \in handles : h[1] # f}
    /\ Return("error")

CreateFetcher ==
    /\ pc = "start"
    /\ \/ /\ fetchers' = [fetchers EXCEPT !["asset"] = "open"]
          /\ pc' = "parsing"
          /\ UNCHANGED result
       \/ Return("error") /\ UNCHANGED fetchers
    /\ UNCHANGED <<asset, config, parser, order, probe, data, handles, cancelled, builder>>

-----------------------------------------------------------------------------
(* The parsers.                                                            *)

\* Whether the parser takes the asset.  Only the audio parser takes a listing
\* that fails for a no; the image parser reports it.
Accepts(p) ==
    LET type == asset.type
    IN  \/ p \in {"epub", "pdf"} /\ type = p
        \/ p = "webpub" /\ type \in ReadiumWebPubTypes
        \/ p = "image" /\ (\/ type = "comic"
                           \/ ComicArchiveReadingOrder(asset.links) # <<>>
                           \/ AcceptsImageLinks(asset.links))
        \/ p = "audio" /\ AcceptsAudio(type, asset.links)

\* The comic archives of a directory, or the bitmaps of a comic.
IsComicDirectory ==
    asset.type # "comic" /\ ComicArchiveReadingOrder(asset.links) # <<>>

\* What makes the parser refuse an asset it takes, whatever can be read.
Refused(p) ==
    \/ p = "pdf" /\ OfKind(asset.links, {"pdf"}) = <<>>
    \/ p = "webpub" /\ ~MeetsProfileRequirements(asset.type, asset.rwpm)
    \/ p = "image" /\ IF IsComicDirectory
                      THEN /\ config.selection # None
                           /\ SelectionRefused(ComicArchiveReadingOrder(asset.links), config.selection)
                      ELSE BitmapReadingOrder(asset.links) = <<>>
    \/ p = "audio" /\ AudioReadingOrder(asset.links) = <<>>

NextParser ==
    IF parser < Len(DefaultParsers)
    THEN /\ parser' = parser + 1
         /\ UNCHANGED <<fetchers, handles, pc, result>>
    ELSE Fail("asset") /\ UNCHANGED parser

\* The parser returns nil, and the next one is asked, if there is one.
Decline ==
    /\ pc = "parsing"
    /\ \/ ~Accepts(DefaultParsers[parser])
       \/ DefaultParsers[parser] = "audio" /\ asset.type # "zab"
    /\ NextParser
    /\ UNCHANGED <<asset, config, order, probe, data, cancelled, builder>>

\* The parser returns an error: it cannot list or read what it needs, or
\* refuses what it has read.
ParseFails ==
    /\ pc = "parsing"
    /\ Accepts(DefaultParsers[parser]) \/ DefaultParsers[parser] = "image"
    /\ Fail("asset")
    /\ UNCHANGED <<asset, config, parser, order, probe, data, cancelled, builder>>

NoGuides == [indexes |-> <<>>, smil |-> <<>>]

Made(f, m, services) ==
    builder' = [fetcher |-> f, manifest |-> m, services |-> services, exposed |-> {},
                guides |-> NoGuides]

ParsedBy(p) ==
    /\ pc = "parsing"
    /\ DefaultParsers[parser] = p
    /\ Accepts(p)
    /\ ~Refused(p)

Parsed(f, m, services) ==
    /\ Made(f, m, services)
    /\ pc' = "parsed"
    /\ UNCHANGED <<asset, config, parser, order, probe, data, cancelled, result>>

\* The manifest of a publication that has none of its own.
PlainManifest(profile, ro, toc) ==
    [profiles |-> {profile}, layout |-> "", order |-> ro, resources |-> <<>>, hrefs |-> {},
     toc |-> toc, pageList |-> FALSE, a11y |-> NoA11y, other |-> FALSE, inferred |-> NoA11y,
     pages |-> 0]

\* The XML documents of an EPUB are read through resources nobody closes.
ParseEPUB ==
    /\ ParsedBy("epub")
    /\ handles' = handles \union {<<"asset", "document">>}
    /\ Parsed("asset", Create(asset.package), {"positions", "search", "guidednavigation"})
    /\ UNCHANGED fetchers

\* And so is a PDF.
ParsePDF ==
    /\ ParsedBy("pdf")
    /\ handles' = handles \union {<<"asset", "document">>}
    /\ LET m == PlainManifest("pdf", SubSeq(OfKind(asset.links, {"pdf"}), 1, 1), asset.rwpm.toc)
       IN  Parsed("asset", [m EXCEPT !.pages = asset.rwpm.pages], {"positions"})
    /\ UNCHANGED fetchers

ParsePackage ==
    /\ ParsedBy("webpub")
    /\ ~IsRwpm(asset.type)
    /\ Parsed("asset", asset.rwpm, WebPubServices(asset.rwpm))
    /\ UNCHANGED <<fetchers, handles>>

\* A bare manifest: the resources are found relative to it, through a fetcher of
\* their own, rooted as high as the links climb.
ParseManifest ==
    /\ ParsedBy("webpub")
    /\ IsRwpm(asset.type)
    /\ fetchers' = [fetchers EXCEPT !["relative"] = "open"]
    /\ LET m == asset.rwpm
       IN  Parsed("relative", [m EXCEPT !.hrefs = {Rooted(asset.dir, m.hrefs, p) : p \in m.hrefs}],
                  WebPubServices(m))
    /\ UNCHANGED handles

\* A directory of comic archives: nothing is probed.
ParseComicDirectory ==
    /\ ParsedBy("image")
    /\ IsComicDirectory
    /\ LET found == ComicArchiveReadingOrder(asset.links)
           ro == IF config.selection = None THEN found ELSE config.selection
       IN  Parsed("asset", PlainManifest("divina", ro, ComicArchiveTableOfContents(ro)), {"positions"})
    /\ UNCHANGED <<fetchers, handles>>

\* The reading order is made, and its files are probed.
StartProbing(ro) ==
    /\ order' = ro
    /\ probe' = [i \in DOMAIN ro |-> "waiting"]
    /\ data' = [i \in DOMAIN ro |-> None]
    /\ pc' = "probing"
    /\ UNCHANGED <<asset, config, parser, fetchers, cancelled, builder, result>>

\* Before its file is probed a link has neither title, marks nor size.
Unprobed(ro) == [i \in DOMAIN ro |-> [ro[i] EXCEPT !.title = "", !.marks = <<>>]]

ParseImages ==
    /\ ParsedBy("image")
    /\ ~IsComicDirectory
    /\ StartProbing(Unprobed(BitmapReadingOrder(asset.links)))
    /\ UNCHANGED handles

\* The audio parser takes all the handles before it starts the first probe.
ParseAudio ==
    /\ ParsedBy("audio")
    /\ StartProbing(Unprobed(AudioReadingOrder(asset.links)))
    /\ handles' = IF config.rich
                  THEN handles \union {<<"asset", i>> : i \in DOMAIN AudioReadingOrder(asset.links)}
                  ELSE handles

-----------------------------------------------------------------------------
(* The probes.                                                             *)

Imaging == DefaultParsers[parser] = "image"

DefaultProbeConcurrency == 8

Limit == IF config.probes = 0 /\ ~Imaging THEN DefaultProbeConcurrency ELSE config.probes

Probes == IF Imaging THEN config.probes > 0 ELSE config.rich

Running == {i \in DOMAIN probe : probe[i] \notin {"waiting", "done"}}

HasSlot == Cardinality(Running) < Limit

\* The loop starts the next probe, when the pool has a slot for it.
StartProbe(i) ==
    /\ pc = "probing"
    /\ Probes
    /\ probe[i] = "waiting"
    /\ \A j \in 1..(i - 1) : probe[j] # "waiting"
    /\ HasSlot
    /\ probe' = [probe EXCEPT ![i] = "reading"]
    /\ handles' = handles \union {<<"asset", i>>}
    /\ UNCHANGED <<asset, config, pc, parser, fetchers, order, data, cancelled,
                   builder, result>>

\* Read: what the file is, or nothing when it cannot be read or understood.
ReadFile(i) ==
    /\ probe[i] = "reading"
    /\ probe' = [probe EXCEPT ![i] = "read"]
    /\ \E ok \in BOOLEAN :
          data' = [data EXCEPT ![i] = IF ok THEN order[i].id ELSE None]
    /\ UNCHANGED <<asset, config, pc, parser, fetchers, order, handles, cancelled,
                   builder, result>>

\* Mutant: a probe that has found nothing is tried again.
CloseHandleRetry(i) ==
    /\ probe[i] = "read"
    /\ probe' = [probe EXCEPT ![i] = IF data[i] = None THEN "reading" ELSE "closed"]
    /\ handles' = IF data[i] = None THEN handles ELSE handles \ {<<"asset", i>>}
    /\ UNCHANGED <<asset, config, pc, parser, fetchers, order, data, cancelled,
                   builder, result>>

\* The deferred Close of the probe's resource.
CloseHandle(i) ==
    /\ probe[i] = "read"
    /\ probe' = [probe EXCEPT ![i] = "closed"]
    /\ handles' = handles \ {<<"asset", i>>}
    /\ UNCHANGED <<asset, config, pc, parser, fetchers, order, data, cancelled,
                   builder, result>>

Original(id) == CHOOSE f \in Files(asset.links) : f.id = id

With(f, id) ==
    IF id = None THEN f
    ELSE [f EXCEPT !.title = Original(id).title, !.marks = Original(id).marks]

\* Mutant: the probes share the index of the loop.
StoreAtLast(i) ==
    LET j == CHOOSE k \in DOMAIN order :
                 probe[k] # "waiting" /\ \A l \in (k + 1)..Len(order) : probe[l] = "waiting"
    IN  order' = IF Imaging THEN [order EXCEPT ![j] = With(@, data[i])] ELSE order

\* A probe of the image parser writes the size into its own link; the audio
\* parser leaves what a probe has found to the loop that combines the results.
Store(i) == order' = IF Imaging THEN [order EXCEPT ![i] = With(@, data[i])] ELSE order

\* The end of the probe's goroutine: the result is stored, then the deferred
\* calls release the slot and the wait group.
FinishProbe(i) ==
    /\ probe[i] = "closed"
    /\ Store(i)
    /\ probe' = [probe EXCEPT ![i] = "done"]
    /\ UNCHANGED <<asset, config, pc, parser, fetchers, data, handles, cancelled,
                   builder, result>>

\* Mutant: a cancelled loop returns without waiting.
WaitedUnlessCancelled == cancelled \/ Running = {}

\* wg.Wait, g.Wait.
Waited == Running = {}

\* The pass ends when all the probes have; cancelled, the image parser starts no
\* more of them, but waits for those it has started.
ProbingEnds ==
    \/ ~Probes
    \/ /\ Waited
       /\ \/ \A i \in DOMAIN probe : probe[i] # "waiting"
          \/ Imaging /\ cancelled

\* The links with what the probes have found, combined in reading order.
Combined == [i \in DOMAIN order |-> With(order[i], data[i])]

\* The playlist wins over the chapters in the files, these over a flat listing.
AudioTOC ==
    LET listed == IF OfKind(asset.links, {"playlist"}) # <<>>
                  THEN PlaylistEntriesToTOC(Playlist, Combined) ELSE <<>>
        embedded == CombineFileChapters(Combined)
    IN  IF ~config.rich THEN <<>>
        ELSE IF listed # <<>> THEN listed
        ELSE IF embedded # <<>> THEN embedded
        ELSE PerFileTOC(Combined)

EndProbing ==
    /\ pc = "probing"
    /\ ProbingEnds
    /\ IF Imaging
       THEN Made("asset", PlainManifest("divina", order, <<>>), {"positions"})
       ELSE \E cover \in IF config.rich THEN {{}, {"cover"}} ELSE {{}} :
               Made("asset", PlainManifest("audiobook", Combined, AudioTOC), cover)
    /\ pc' = "parsed"
    /\ UNCHANGED <<asset, config, parser, fetchers, order, probe, data, handles,
                   cancelled, result>>

-----------------------------------------------------------------------------
(* The publication.                                                        *)

\* The calls a callback may make on the services builder.
Customised(b, call) ==
    CASE call = "remove" -> [b EXCEPT !.services = @ \ {"positions"}]
      [] call = "removeAll" -> [b EXCEPT !.services = {}]
      [] call = "hide" -> [b EXCEPT !.exposed = @ \ {"positions"}]
      [] call = "set" -> [b EXCEPT !.services = @ \union {"content"},
                                   !.exposed = @ \union {"content"}]
      [] OTHER -> b

\* Whether the factory of a service makes one for the manifest.
Makes(service, m) ==
    CASE service = "search" -> OfKind(m.order, {"html", "text"}) # <<>>
      [] service = "guidednavigation" -> Guides(m).indexes # <<>>
      [] OTHER -> TRUE

\* Builder.Build: the services are made, and the one for guided navigation puts its
\* links in the place of the media overlays.
Build(b) ==
    LET made == {s \in b.services : Makes(s, b.manifest)}
        guiding == "guidednavigation" \in made
    IN  [b EXCEPT !.services = made,
                  !.guides = IF guiding THEN Guides(b.manifest) ELSE @,
                  !.manifest = IF guiding THEN WithGuides(@) ELSE @]

\* addServicelinks and onCreatePublication, then Build.  The callback's error is the one
\* after which nothing is closed.
Customise ==
    /\ pc = "parsed"
    /\ LET b == IF config.exposes THEN [builder EXCEPT !.exposed = builder.services] ELSE builder
       IN  \/ /\ builder' = Build(Customised(b, config.callback))
              /\ pc' = "built"
              /\ UNCHANGED result
           \/ /\ config.callback # "none"
              /\ builder' = b
              /\ Return("customisation failed")
    /\ UNCHANGED <<asset, config, parser, fetchers, order, probe, data, handles, cancelled>>

\* The manifest with what is inferred: merged into the declared metadata, or kept
\* apart, in the map of other metadata.  The parsers that build a manifest of
\* their own make no such map, and the assignment panics.
Infer ==
    /\ pc = "built"
    /\ LET m == builder.manifest
           found == IF config.infer = "no" THEN NoA11y ELSE InferA11y(m, config.ignorable)
       IN  CASE found = NoA11y -> pc' = "inferred" /\ UNCHANGED builder
             [] found # NoA11y /\ config.infer = "merged" ->
                   /\ builder' = [builder EXCEPT !.manifest.a11y = MergeA11y(m.a11y, found)]
                   /\ pc' = "inferred"
             [] found # NoA11y /\ config.infer = "split" /\ m.other ->
                   /\ builder' = [builder EXCEPT !.manifest.inferred = found]
                   /\ pc' = "inferred"
             [] OTHER -> pc' = "panicked" /\ UNCHANGED builder
    /\ UNCHANGED <<asset, config, parser, fetchers, order, probe, data, handles,
                   cancelled, result>>

\* An image that has to be read to infer the metadata cannot be.
InferFails ==
    /\ pc = "built"
    /\ config.infer # "no"
    /\ ReadsImages(builder.manifest, config.ignorable)
    /\ Fail("asset")
    /\ UNCHANGED <<asset, config, parser, order, probe, data, cancelled, builder>>

\* Publication.PositionsByReadingOrder: the positions of the service the parser chose.
PositionsByReadingOrder(b) ==
    LET m == b.manifest
    IN  CASE "positions" \notin b.services -> <<>>
          [] DefaultParsers[parser] = "epub" -> computePositions(m)
          [] OTHER -> IF ConformsTo(m, "pdf") THEN PDFPositions(m)
                      ELSE IF DefaultParsers[parser] = "webpub" /\ ~ConformsTo(m, "divina")
                           THEN computePositions(m)
                      ELSE PerResourcePositions(m)

\* The pages are counted, when nobody has declared their number, and Open returns
\* the publication.
ReturnPublication ==
    /\ pc = "inferred"
    /\ Return("publication")
    /\ builder' = IF config.count /\ builder.manifest.pages = 0
                  THEN [builder EXCEPT !.manifest.pages =
                           Len(FlattenSeq(PositionsByReadingOrder(builder)))]
                  ELSE builder
    /\ UNCHANGED <<asset, config, parser, fetchers, order, probe, data, handles, cancelled>>

\* Publication.Close: the publication's own fetcher, then its services.
ClosePublication ==
    /\ pc = "returned"
    /\ result = "publication"
    /\ fetchers' = [fetchers EXCEPT ![builder.fetcher] = "closed"]
    /\ handles' = {h \in handles : h[1] # builder.fetcher}
    /\ pc' = "closed"
    /\ UNCHANGED <<asset, config, parser, order, probe, data, cancelled, builder, result>>

Ended == pc \in {"returned", "panicked", "closed"}

Stay == Ended /\ UNCHANGED vars

ProbeStep(i) == ReadFile(i) \/ CloseHandle(i) \/ FinishProbe(i)

Main ==
    \/ CreateFetcher \/ Decline \/ ParseFails
    \/ ParseEPUB \/ ParsePDF \/ ParsePackage \/ ParseManifest
    \/ ParseComicDirectory \/ ParseImages \/ ParseAudio
    \/ \E i \in DOMAIN probe : StartProbe(i)
    \/ EndProbing \/ Customise \/ Infer \/ InferFails \/ ReturnPublication

Next ==
    \/ Main
    \/ \E i \in DOMAIN probe : ProbeStep(i)
    \/ Cancel
    \/ ClosePublication
    \/ Stay

Spec == Init /\ [][Next]_vars

MaxProbes == 8

\* The goroutines are scheduled.
FairSpec ==
    /\ Spec
    /\ WF_vars(Main)
    /\ \A i \in 1..MaxProbes : WF_vars(i \in DOMAIN probe /\ ProbeStep(i))

-----------------------------------------------------------------------------
(* Properties.                                                             *)

\* What the variables hold; the wait group keeps every probe inside the pass,
\* and the pool within its bound.
TypeOK ==
    /\ asset \in Assets
    /\ config \in Configs
    /\ parser \in DOMAIN DefaultParsers
    /\ fetchers \in [{"asset", "relative"} -> {"none", "open", "closed"}]
    /\ Len(order) = Len(probe) /\ Len(order) = Len(data)
    /\ result \in {None, "error", "customisation failed", "publication"}

\* A probe runs only while its parser's Parse does and the fetcher is open: after
\* Parse has returned, also when it was cancelled, nobody reads through the
\* fetcher or writes the reading order; and there are never more probes, nor
\* more handles of theirs at the images, than the pool allows.
ProbesConfined ==
    /\ Running # {} => pc = "probing" /\ fetchers["asset"] = "open"
    /\ Cardinality(Running) <= Limit
    /\ \A i \in DOMAIN probe : probe[i] \in {"reading", "read"} => <<"asset", i>> \in handles

\* Every handle of a probe is closed when its parser returns.  An Open that fails
\* has closed the fetcher of the asset, unless the callback failed; one that
\* succeeds leaves the fetcher the publication reads from open, and closing the
\* publication closes it.  Only the fetcher that read a bare manifest stays open.
HandlesReleased ==
    /\ pc \notin {"parsing", "probing"} =>
          \A i \in DOMAIN probe : <<"asset", i>> \notin handles
    /\ result = "error" => fetchers["asset"] # "open"
    /\ result = "publication" /\ pc = "returned" => fetchers[builder.fetcher] = "open"
    /\ pc = "closed" => \A f \in DOMAIN fetchers :
                           fetchers[f] = "open" => f = "asset" /\ IsRwpm(asset.type)

\* Whatever the order in which the probes end, every link of the reading order
\* has what was found in its own file, if its probe ran and succeeded, and the
\* table of contents goes through the files in reading order, from start to end,
\* skipping none but those that only continue a chapter.
ProbedInOrder ==
    LET m == builder.manifest
        Place(e) == CHOOSE i \in DOMAIN m.order : m.order[i].id = e.file
        Continued(i) ==
            \E k \in DOMAIN m.toc :
                /\ Place(m.toc[k]) < i
                /\ m.order[i].marks # <<>>
                /\ m.toc[k].title = m.order[i].marks[1][1]
    IN  pc \in {"parsed", "built", "inferred"} /\ order # <<>> =>
            /\ \A i \in DOMAIN m.order :
                  m.order[i] = IF data[i] = None THEN Unprobed(order)[i]
                               ELSE Original(order[i].id)
            /\ m.profiles = {"audiobook"} /\ m.toc # <<>>
                  /\ OfKind(asset.links, {"playlist"}) = <<>> =>
                  /\ \A k \in 1..(Len(m.toc) - 1) :
                        \/ Place(m.toc[k]) < Place(m.toc[k + 1])
                        \/ /\ Place(m.toc[k]) = Place(m.toc[k + 1])
                           /\ m.toc[k].start < m.toc[k + 1].start
                  /\ \A i \in DOMAIN m.order :
                        (\E k \in DOMAIN m.toc : Place(m.toc[k]) = i) \/ Continued(i)
                  /\ \A k \in 1..(Len(m.toc) - 1) :
                        /\ Place(m.toc[k]) < Place(m.toc[k + 1])
                        /\ m.toc[k + 1].start = 0
                        => m.toc[k].title # m.toc[k + 1].title \/ m.order[Place(m.toc[k + 1])].marks = <<>>

\* The publication made of a bare manifest links to the same files as the manifest
\* did, by paths that stay below the directory its fetcher is rooted at.
SameTargets ==
    builder # None /\ builder.fetcher = "relative" =>
        LET root == RootOf(asset.dir, asset.rwpm.hrefs)
            links == builder.manifest.hrefs
            Count(p, k, up) == Cardinality({j \in 1..k : (p[j] = "..") = up})
        IN  /\ {Resolve(root, p) : p \in links}
                   = {Resolve(asset.dir, p) : p \in asset.rwpm.hrefs}
            /\ \A p \in links : \A k \in DOMAIN p : Count(p, k, TRUE) <= Count(p, k, FALSE)

\* What refines something, in the end, that is not itself a refinement on a loop.
Anchored(metas) ==
    LET ids == {metas[i].id : i \in DOMAIN metas} \ {""}
        Free(m) == m.refines \notin ids
        Grow(S, k) == S \union {i \in DOMAIN metas : \E j \in S : metas[i].refines = metas[j].id}
    IN  FoldLeft(Grow, {i \in DOMAIN metas : Free(metas[i])}, [k \in DOMAIN metas |-> k])

RECURSIVE Occurrences(_, _)
Occurrences(e, items) ==
    FoldLeft(LAMBDA n, m : n + (IF m.property = e.property /\ m.value = e.value THEN 1 ELSE 0)
                             + Occurrences(e, m.children),
             0, items)

\* The titles that lead somewhere, in document order: as they are written, and as
\* they are listed.
RECURSIVE Written(_), Listed(_)
Written(entries) ==
    FlattenSeq([i \in DOMAIN entries |->
        LET e == entries[i]
        IN  (IF e.tag \in {"a", "navPoint"} /\ e.href # NoHref /\ e.title # ""
             THEN <<e.title>> ELSE <<>>) \o Written(e.entries)])
Listed(links) ==
    FlattenSeq([i \in DOMAIN links |->
        (IF links[i].href # NoTarget /\ links[i].title # "" THEN <<links[i].title>> ELSE <<>>)
        \o Listed(links[i].children)])

\* Nothing a package says is lost or said twice on the way to the manifest.  Each
\* file is linked once for every linear reference to it, or else once among the
\* resources.  Each contributor is in exactly one of the lists.  Each element of the
\* metadata comes once, below what it refines, unless it refines only itself in a
\* loop; with identifiers that are not unique it comes at most once below each root.
\* And the table of contents leads where the document does, in its order, however
\* deep its entries are and whatever entries lead nowhere themselves.
PackageAccounted ==
    LET package == asset.package
        m == builder.manifest
        Times(file, links) == Cardinality({i \in DOMAIN links : links[i].id = file})
        items == Items(package)
        metas == parseElements(package).metas
        ids == SelectSeq(metas, LAMBDA e : e.id # "")
        roots == ParseMetadata(package)
        contributing == ContributorItems(SelectSeq(metas, LAMBDA e : e.refines = ""))
        tocs == UNION {IF "navMap" \in DOMAIN d THEN {d.navMap}
                       ELSE {d.navs[i].entries : i \in {j \in DOMAIN d.navs : <<"", "toc">> \in d.navs[j].types}} :
                          d \in {package.documents[path] : path \in DOMAIN package.documents}}
    IN  pc = "parsed" /\ DefaultParsers[parser] = "epub" =>
            /\ \A i \in DOMAIN items :
                  LET linear == Cardinality({k \in DOMAIN package.itemrefs :
                                   package.itemrefs[k].linear /\ package.itemrefs[k].idref = items[i].id})
                  IN  /\ Times(items[i].file, m.order) = linear
                      /\ Times(items[i].file, m.resources) = IF linear = 0 THEN 1 ELSE 0
            /\ FoldFunction(LAMBDA list, n : n + Len(list), 0, m.metadata.contributors)
                  = Len(contributing)
            /\ IF Len(ids) = Cardinality({ids[i].id : i \in DOMAIN ids})
               THEN \A i \in DOMAIN metas :
                       Occurrences(metas[i], roots.global \o roots.refine)
                           = IF i \in Anchored(metas) THEN 1 ELSE 0
               ELSE \A i \in DOMAIN metas :
                       \A r \in ToSet(roots.global \o roots.refine) :
                          Occurrences(metas[i], <<r>>) <= 1
            /\ m.toc # <<>> => \E entries \in tocs : Listed(m.toc) = Written(entries)

\* The texts a media overlay goes through, and those its guide does, with the part of
\* the sound that goes with each.
RECURSIVE Spoken(_, _), Told(_)
Spoken(nodes, dir) ==
    FlattenSeq([i \in DOMAIN nodes |->
        <<<<Resolve(dir, nodes[i].text), nodes[i].audio # NoHref>>>> \o Spoken(nodes[i].nodes, dir)])
Told(objects) ==
    FlattenSeq([i \in DOMAIN objects |->
        <<<<objects[i].text, objects[i].audio # NoHref>>>> \o Told(objects[i].children)])

\* Wherever a publication has positions, they are numbered from one without a gap,
\* through every resource in reading order, and both progressions ascend, from the
\* start of each resource and from the start of the whole; when nobody says how many
\* pages there are, their number is the number of positions.  Guides lead to each
\* other: from the first, next leads once to every file that has one, in reading
\* order, and prev leads back; and the guide made from a media overlay goes through the
\* same texts in the same order.
PlacesInOrder ==
    LET m == builder.manifest
        groups == PositionsByReadingOrder(builder)
        all == FlattenSeq(groups)
        Before(p, q) == p[1] * q[2] < q[1] * p[2]
        Guide(id) == GuideForResource(builder.guides, asset.package.documents, id)
        guided == builder.guides.indexes
    IN  result = "publication" /\ pc = "returned" =>
            /\ \A k \in DOMAIN all :
                  /\ all[k].position = k
                  /\ k > 1 => Before(all[k - 1].total, all[k].total)
                  /\ all[k].total[1] = k - 1 /\ all[k].total[2] = Len(all)
            /\ groups # <<>> /\ ~ConformsTo(m, "pdf") =>
                  /\ Len(groups) = Len(m.order)
                  /\ \A i \in DOMAIN groups :
                        /\ groups[i] # <<>> /\ groups[i][1].progression[1] = 0
                        /\ \A j \in DOMAIN groups[i] :
                              /\ groups[i][j].file = m.order[i].id
                              /\ j > 1 => Before(groups[i][j - 1].progression, groups[i][j].progression)
            /\ config.count /\ groups # <<>> => m.pages = Len(all)
            /\ "guidednavigation" \in builder.services /\ Cardinality(ToSet(guided)) = Len(guided) =>
                  \A k \in DOMAIN guided :
                     /\ (Guide(guided[k]).next = {}) <=> k = Len(guided)
                     /\ \A id \in Guide(guided[k]).next : Guide(id).prev = {guided[k]}
                     /\ (Guide(guided[k]).prev = {}) <=> k = 1
                     /\ guided[k] \in DOMAIN builder.guides.smil /\ Guide(guided[k]).ok =>
                           LET path == builder.guides.smil[guided[k]]
                           IN  Told(Guide(guided[k]).objects)
                                  = Spoken(asset.package.documents[path].body, Front(path))

\* Open ends: no probe that is stuck in the pool, and no cancellation, keeps it
\* from returning (or from the panic SplitInferred is about).
OpenReturns == <>Ended

\* With the option to split, what is inferred is in the publication, apart from
\* what is declared.
SplitInferred ==
    result = "publication" \/ pc = "panicked" =>
        (config.infer = "split" =>
            /\ pc # "panicked"
            /\ builder.manifest.inferred = InferA11y(builder.manifest, config.ignorable))
=============================================================================
