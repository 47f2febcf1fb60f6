# Verification of go-toolkit

TLA+ models of the parts of the toolkit that decide whether a publication is
opened, read, searched and served right: caches and handles shared by goroutines,
resources that fail half-way, pools and cancellation, and the algorithms that
turn packages and documents into what a reader shows. TLC configurations check
them on small instances, TLAPS proofs establish what matters most for every size.
Everything is translated from the Go code, which is quoted as
`package/file.go:line`, below `src/pkg`.

```
tlc -workers 2 -config MCAudioCache.cfg MCAudioCache   # a run
tlapm AudioCache_proofs.tla                            # the proofs of a module
```

`PROJECT.json` lists the runs, the lines each definition stands for, the
hazards and the theorems. A run marked **(violation)** below shows a disagreement
between the code and what a comment or an interface of the repository says; it
is expected to end with a counterexample.

## 1. Inventory

The toolkit opens a publication (an EPUB, an audiobook, a comic, a PDF, a web
publication) and serves it to clients. One publication is shared by all
goroutines of a server.

| Part | State | Operations | What is hard | What makes it correct |
|---|---|---|---|---|
| **Opening** `streamer/`, `parser/*`, `pub/publication.go` | the fetchers it owns, a pool of probes, what parser, callback and inference have made so far | `Open`, `Parse`, `Close` | five parsers in turn, probes side by side, cancellation, an error at every step | no probe outlives its parser; no fetcher stays open; results in reading order |
| **EPUB packages** `parser/epub` | none that lasts: one chain of identifiers is changed in place | `ParsePackageDocument`, `ParseMetadata`, navigation, `CreateManifest` | refinements of refinements, loops, items used twice, nesting of navigation | nothing is lost and nothing said twice on the way to the manifest |
| **EPUB services** `parser/epub/*_service.go`, positions | cached positions, the files that have guides | `Positions`, `GuideForResource` | resources of no length, one of many pages, files without a guide | numbers without gaps, progressions ascend, guides lead to each other |
| **Fetchers** `fetcher/fetcher_{s3,gcs,http,archive}.go` | the links cached by the first listing, metadata by key | `Links`, `Get`, `Read`, `Stream`, `Length` | pages that fail, callers at once and no lock | a listing is whole or an error; objects are read by their links |
| **Layers and readers** `fetcher/resource.go`, `reader.go`, `fs.go` | an offset, cached bytes, a length that may be unknown | `Seek`, `Read`, `ReadAt`, `Stream` | a file shared by goroutines, failures between look and move, ranges of one byte | the promise of a seekable reader |
| **File fetcher** `fetcher/fetcher_file.go` | weak list of resources, a handle per resource | `Get`, `Close`, `open`, the runtime's cleanups | garbage collection, shutdown and reads at once | no handle stays open after shutdown, none is closed under a read |
| **Block cache** `parser/audio/readcache.go` | map of blocks under a mutex that is taken per look-up | `Read`, `fetch`, `snapshot` | several readers between look-up, fetch and assembly; a length that is only a hint; a failing resource | what is served is exactly the range asked for; nothing cached is wrong or lost |
| **Retained cache** `parser/audio/servecache.go` | the snapshot, immutable | `Read`, `Stream`, `slice`, `prefix` | prefix from memory, rest from the resource; short blocks; the connection breaks | answers as the plain resource would; fetches only what is missing |
| **Deobfuscation** `parser/epub/deobfuscator.go` | a pipe per call | `Read`, `Stream` | a goroutine on each side of a pipe, both may end first | complete and cleared exactly; the goroutine ends |
| **Remote ZIP adapter** `archive/remote.go` | tail or whole archive while opening, then a bounded list of cached ranges | `ReadAt`, `makeReady` | header read-ahead, eviction, concurrent misses, every remote step may fail | cached bytes are right; every response is closed; opens in two requests |
| **ZIP entry** `archive/archive_zip.go` | random access index under a mutex | `Read`, `Stream`, `copyRange` | the index is used after the mutex was released and taken again | nothing is decompressed that was not loaded; the index only grows |
| **Search** `pub/service_search.go`, `search/` | corpus, built once under a mutex; an iterator per search | `Search`, `Next`, `ensureCorpus`; extraction, folding, matching | the builder's client goes away; others wait; three coordinate systems of one text | one build; no hole in the corpus; exactly the places of the phrase; pages in order |
| **Content iterators** `content/iterator` | current resource iterator, position, element | `HasNext`, `HasPrevious`, `Next` | empty and failing resources in between; turning round | a cursor: nothing skipped, nothing repeated |
| **HTML converter** `content/iterator/html_converter.go` | a stack of open blocks, pending text and segments | `Head`, `Tail`, `flush*` | what is flushed when, in any nesting | every text once, in the right element; the right start index |
| **Guided navigation** `guidednavigation/converter` | a stack of objects, claimed ids, suppressed notes | `Do`, `Head`, `Tail`, `flush`, `Result` | notes moved to where they are referred to, also in circles; ids unique over all of it | everything that is not hidden is read once, in order |
| ZIP archive index `archive/archive_zip.go:519-665` | once-built map, map of shared wrappers | `Entry`, `Entries` | concurrent first use | one wrapper for each path |
| Audio containers `parser/audio/mp4.go` and others | none | probing | coalesced concurrent reads of titles | each title from its own bytes |
| Manifest list `streamer/manifest_list.go` | map and order under a lock | `Set`, `Delete`, `Items` | concurrent use | order of first insertion |
| Manifest and its JSON, media types, URLs, analyzer, inspector, protection | none that lasts | conversions | formats | out of scope, see section 7 |

How they interact: the `Streamer` makes a fetcher for an asset, a parser makes a
manifest and services from it, and a `Publication` answers each link through
its services or its fetcher. An archive fetcher reads ZIP entries, whose bytes
come from a file or through the remote adapter. The audio parser probes
resources through a `ReadCache` and leaves its snapshot as a `RetainedCache` on
the publication. The EPUB parser puts the deobfuscation between fetcher and
client. Search, content iteration and guided navigation read every resource of
the reading order through the publication; the iterators and the guides walk the
same documents, each with a converter of its own.

The hazards each part is exposed to are in `PROJECT.json`, at their lines, with
the properties that would catch them.

## 2. Modules

```
ByteRange            runs of bytes, as intervals of offsets
 ├ RangeServer       what a Resource promises: an exact answer or an error
 ├ SeekableReader    what a reader over a resource promises
 ├ ReadCache         ── implements ──> RangeServer
 │  └ AudioCache     the life of a file's blocks: probed, then served
 ├ RetainedCache     ── implements ──> RangeServer      (instance of AudioCache)
 ├ RemoteZip         the remote adapter when the archive is open
 │  └ RemoteArchive  opened, made ready, then read
 └ RemoteOpen        while Go's zip reader opens it     (instance of RemoteArchive)
Fetchers             listings of S3, Google, HTTP and archives
 └ FetchedReader     opened, wrapped, read ── implements ──> SeekableReader
ZipEntry             random access into a deflated entry, streaming
FileFetcher          handles, weak pointers, cleanups, shutdown
Deobfuscator         the pipe
Parsers              what each parser decides
 └ EPUBMetadata      elements of a package to metadata
    └ EPUBPackage    a package to a manifest
       └ EPUBServices    positions, guides from media overlays
          └ Opening  Streamer.Open with everything it calls
SearchService        corpus and pages
 └ PublicationSearch searches texts, then serves        (with TextSearch)
TextSearch           extraction, coordinates, the literal engine
Cursor               what an iterator promises
 └ ContentIterator   ── implements ──> Cursor           (instance of PublicationContent)
HTMLConverter        one document to elements
 ├ PublicationContent   documents converted, publications iterated
 └ GuidedNavigation  one document to a guide
    └ MCPublicationContent  both of the same documents
*_proofs             the theorems of AudioCache (and ReadCache), FileFetcher, ZipEntry,
                     SearchService (and PublicationSearch), Deobfuscator, RemoteArchive,
                     FetchedReader and PublicationContent (and HTMLConverter)
MC*                  instances for TLC
```

An indented module extends the one above it; EPUBMetadata to Opening are one
specification in layers. GuidedNavigation has no state, only operators on a
document; its property is checked of each document that PublicationContent converts.

**Data.** The content of a resource is the identity: the byte at offset *i* is
*i*. Whatever a component hands out is then a set or a sequence of offsets, and
wrong, missing or shifted bytes show as other offsets. Texts of a document are the
numbers of their nodes, files their ids, paths sequences of names. Only
TextSearch looks into texts, as it is about characters.

**Atomicity.** A critical section of a mutex is one action, as is every remote
operation, every write to a client and every step of the runtime (collection,
cleanup, cancellation). Steps of one goroutine between two such points touch
only its own variables and are merged with the step before. What a sequential
algorithm computes from data nobody shares is an operator, evaluated in one
action (the parsing of a package, a guide, a search of the corpus).

### ByteRange, RangeServer
Runs `lo .. hi-1`, with all empty ones equal. `RangeServer` says what
`fetcher.Resource.Read` promises (`resource.go:53`, as `BytesResource`
implements it): a request is answered once, with exactly the clamped range,
with the whole content for (0, 0), or with an error.

### ReadCache, RetainedCache, AudioCache (`parser/audio/readcache.go`, `servecache.go`)
`blocks` is the map, `pc`, `cur`, `last` and the like are the locals of `Read`
and `fetch` for each reader. One action for each look-up (`hasBlock`), remote
read, store, retry and assembly. `Actual` may differ from `Size`, the hint. In
RetainedCache, `Read` and `Stream` with `slice` and `prefix`; the client's
connection and the resource may fail at every byte. `AudioCache` composes them: the
`Snapshot` of whatever blocks the probes left, at a moment when none reads, is
what clients are served from.

### FileFetcher (`fetcher/fetcher_file.go`)
`obj` (live, free), `file` (the handle), `rclosed`, `tracked` (the weak list's
live pointers), `nilRefs` (its cleared ones), `cleanup`, `held`, and the
progress of each goroutine. Collection takes any object that nobody holds;
cleanups run later or never.

### Fetchers, FetchedReader, SeekableReader (`fetcher/`)
`place` is the provider with its objects; `cachedLinks` is filled in place, as
the code does, page by page for Google and in one step per link for S3, by two
callers without a lock. `spoilt` and `overlapped` are history: has a call failed
with the cache in its hands, have two overlapped. What a listing returned is then
opened (`Open`), wrapped or not (`layer`: plain, transforming, transforming with
cached bytes) and read through `ResourceReadSeeker` by one goroutine or
through `fs.File` by two, or streamed. A stream that breaks off has written a beginning
of its range and reports an error; that of a transforming resource always reports
one, having written any beginning or all of it, since what its writer returns is
wrapped whether or not there is an error (`resource.go:500` and `513`).
`ImplementsReader` maps all this onto `SeekableReader`, whose two kinds of reader move
after a read or claim their range before it.

### Deobfuscator (`parser/epub/deobfuscator.go`)
A behaviour is one call: the goroutine that writes into the pipe, the caller
that reads the head, clears it and copies the rest, and the deferred closings.
Bytes travel in order, so that counts stand for them.

### RemoteZip, RemoteOpen, RemoteArchive (`archive/remote.go`)
`RemoteOpen` are the two paths of `ReadAt` before `makeReady`: the whole
archive in memory, or a tail that is fetched again, longer, when the central
directory starts before it; Go's zip reader is external and modelled by the
reads it makes. `RemoteZip` is the third path: header reads that read the
entry's body ahead, exact reads, and the list of cached ranges that evicts its
oldest. The cache keeps a caller's buffer (`remote.go:310`), and the caller may
overwrite it as soon as the call is over (`Call`). One `Read` fetches the header
(`remote.go:161`) and may bring any part of it (`HeaderPieces`): the rest of the
buffer stays blank, is parsed all the same, so that the entry may seem to be none, to
have no size or a smaller one (`told`), and is cached. `CacheTruthful` and `ReadsExact`
are stated with these two exceptions and no other: data in a buffer used again,
and, where a header once came short (`cut`), a beginning of that header
(`Arrived`) and what was read ahead with it, within its own entry (`Reach`,
`CutShort`). `RemoteArchive` lets each archive be opened, and the one with entries
be read.

### ZipEntry (`archive/archive_zip.go:19-392`)
`gi` is the index, `gm` its mutex. `Read` looks a starting point up
(`ReadIndexed`), loads the compressed data from there (`Load`), takes the mutex
again and the index as it is then (`Lock`), decompresses (`Inflate`) and stores
the index (`Unlock`, the deferred calls). If decompression were taken up in front
of what was loaded the reader would get `Garbage`. The library zran is external:
it takes up at its closest point and adds the points it comes past. All
ways an entry can be stored (deflated or not, remote or not, on disk or not) are
initial states.

### Parsers, EPUBMetadata, EPUBPackage, EPUBServices, Opening
`Opening` is `Streamer.Open`: `pc` says where it is, `fetchers` what it owns,
`probe`, `data` and `handles` what the probes of the image and audio parsers are
doing, `builder` what has been made. One action per parser, per step of a probe,
for the callback (`Customise`), the inference and the end; every one that can fail
has its branch. What each parser decides from its files is in `Parsers`:
which assets it takes, reading orders, tables of contents, chapter selections,
profiles, the rooting and rewriting of a bare manifest's links, inferred
accessibility. An EPUB is a package of elements: `EPUBMetadata` resolves
prefixes, builds the tree of refinements and the metadata of the publication from
it, with accessibility, collections, contributors and media overlays;
`EPUBPackage` adds items, spine, both navigation documents, encryption, fallbacks
and display options, and makes the manifest; `EPUBServices` makes positions
and guides from it. Values that the code parses (numbers, lists, clock
values) are tokens looked up in tables; XML is not read.

### SearchService, TextSearch, PublicationSearch (`pub/service_search.go`, `search/`)
`mu`, `corpus`, and for each search its context, its build and its iterator. A
build reads resource after resource, then extracts; both check the context. Each
call of Next has a context of its own, live or dead, whatever became of the one the
search was made with: a refused call may be followed by any number of pages. There
the text of a resource is its number of matches. `TextSearch` is what is behind
that number: the extraction of the plain text from tags and characters, its
normalized and its folded form with the maps between them, the engine's scan with
word boundaries, contexts and progressions. `PublicationSearch` lets the engine
search one publication (`FindTexts`) before the service starts: what it finds
depends on nothing the service does.

### Cursor, ContentIterator (`content/iterator/publication.go`, `html.go`)
The abstract cursor has a place among the elements; the refinement mapping puts
the iterator's resource, index and pending element on such a place.

### HTMLConverter, GuidedNavigation, PublicationContent
(`content/iterator/html_converter.go`, `guidednavigation/converter`) Documents are
all trees of up to `MaxNodes` nodes of six kinds, and what attributes say of their
nodes; an action of HTMLConverter is the `Head`, `Tail` or text step of one node.
Further documents with attributes come as a constant (`Annotated`), trees like the others.
`GuidedNavigation` converts the same documents, by operators: `Guide` is the
children of the object `Result` returns, notes embedded, ids given. What must be in a
guide is said by the property's own terms, not by the converter's set of notes it
leaves out (`Suppressed`): a plain text or medium is read, in the flow or with a
reference that is read (`Heard`), unless it stands in a note that no more than
`MaxNoterefDepth` references from the flow lead to, or one that is dropped because it is
an image, a page break or a reference itself (`Stranded`, `Lone`), or is the text of a
note without a role that has an image in it (`Mixed`). Each of these is what the code
does lose (section 5), and nothing else.
`PublicationContent` converts a document, and then iterates publications with its
elements from the start it found. The properties compare with the document itself,
not with the converters.

## 3. Runs

| Run | Instance | Shows |
|---|---|---|
| `audio_cache` | 2 goroutines probe a file of 5 bytes, known as 7, blocks of 2, any read of the resource may fail; then every range from 0 to the size on is served from every set of blocks that can be left, while resource and client may break off; fair | blocks truthful, what is served from them exact, only missing bytes fetched, every Read returns; both sides implement RangeServer |
| `readcache_race` **(violation)** | 2 readers, a healthy resource of 5 bytes | `fetch` asks `hasBlock` twice; a store in between makes an inverted range, and the Read fails |
| `filefetcher` | 2 resources, 2 goroutines; fair | shutdown releases all handles, the weak list is complete and bounded, no read loses its handle to the collector, dropped handles are closed |
| `deobfuscator` | obfuscated head of 2, fonts of 0, 1, 2 and 5 bytes, ten ranges, valid and invalid keys; fair | a success is complete, exactly the head is cleared, Stream returns and its goroutine ends (valid key) |
| `deobfuscator_boundary` **(violation)** | a font of 5 bytes, the range 0-2 | the last byte of a range that ends just behind the head is dropped, without an error |
| `remote_archive` | archives of 3 to 9 bytes with every place of directory and end record, small or large, with and without faults, are opened; then 2 goroutines read one with 2 entries (read ahead, without a size), whose headers come whole or in part, 2 ranges cached; opening fair | exact answers in at most two requests, every archive whose record and directory the tail can reach opens when nothing fails; cached ranges right and reads exact wherever no header came short, every response closed |
| `zip_entry` | 2 readers, 4 bytes, a point in the middle, every way to store an entry, 5 ranges; fair | delivery is a prefix of the range, a success all of it; the index only grows; every call returns |
| `search` | 2 clients, 3 resources, one unreadable, pages of 2, a maximum of 3 matches; fair. Before, every publication of one resource of up to 5 tokens, of two of up to 2, of three of up to 1, and 11 queries | one build, no hole, pages in order whichever calls of Next were refused before, whoever waits is answered; what is found is exactly where the phrase occurs in the text that is shown |
| `content` | all documents of up to 5 nodes, plain, with a start element or with a language; all with attributes on two of up to 4 nodes; all networks of four notes; notes with and without a role that hold an image, a page break or a reference; all publications of 3 resources of up to 2 elements, some not HTML or failing to parse, every start | nothing lost, elements are runs of text, start index right when an element precedes it; guides complete; a cursor: forward across resources, both ways within one |
| `opening` | every type of asset, listings of up to three files in any order, packages that differ in what the parser tells apart, pools of 1, 2 and 8, failures at every step, cancellation at any moment; fair | probes confined, handles released, results in order, links keep their targets, nothing of a package lost, positions and guides in order, Open ends |
| `opening_split` **(violation)** | images, audio, PDF, with inferred metadata kept apart | the map it goes to was never made: Open panics |
| `fetching` | 2 callers, every provider, listings of up to 4 objects in pages of 2 with failures, names that are no links; objects of 4 and 2 bytes read through every layer and reader by one or two goroutines | a listing without an error is the whole one unless an earlier call failed on the way or two overlapped; readers keep the promise of a seekable reader |

A run asks all that is to be asked of one composition: the parts that work on the
same object are checked in the composition they have in the program, not side by
side. What a type invariant says is proved in ReadCache and FileFetcher; in
ZipEntry, SearchService, Deobfuscator, RemoteArchive, AudioCache, FetchedReader and
PublicationContent it is a part of the inductive invariant.

### Bounds, and why they are enough
Block caches: two blocks and a short one, so that a range can begin and end in,
before and after a cached one, and two readers, as the hazards are between one
look-up and one store of another. Remote cache: two ranges against two headers,
a body and two data reads, so that eviction meets the entry being read; headers of
two bytes, of which one or both arrive, so that a header can be short and still be
one. ZIP entry:
one point inside, so that a better one than the start can appear between look-up
and use, by another reader. Search: two clients, one that builds and dies, one
that waits and takes over; texts of five tokens hold two words with a block, an
excluded element or two spaces between them, and two contexts of two characters.
Fonts: heads of two bytes with ranges in, across and behind them. Documents: five
nodes hold a block in a block with text on both sides and a break; four notes
and a depth of three hold a chain that is cut and every circle shorter than it.
Opening: three files are the fewest that can be ordered wrongly by name and rightly
by rank, and a pool of two meets a third probe. Listings: two pages, with a failure
on either, and a name that is no URL behind one that is. The actual sizes (256 KiB
blocks, 65 KB tails, 2 MiB buffers, 48 characters of context) only scale these
cases. `MaxPos` keeps the readers of FetchedReader from seeking for ever, `MaxSize`
and `MaxNodes` bound publications and documents; no counter of the code had to be
cut off. `builds` in SearchService and `requests` in RemoteOpen are there only to
show that they never pass a bound.

Goroutines are symmetric in `remote_archive` and `fetching`. In the first, `Opens`
is a liveness property; it is about the opening, which has none of them, and its
counterexamples never leave it, so that no two states of one are taken for the same.

`CHECK_DEADLOCK FALSE` stands where a behaviour is one call or one document and
ends (Deobfuscator, RemoteArchive, PublicationContent), and in `fetching`,
where positions are bounded.

### Fairness
Weak fairness for each goroutine that is inside a call: the Go scheduler runs
what can run, and a remote operation ends, successfully or not (HTTP clients
have time-outs; the models let every operation fail). Nothing is assumed of
clients: they need not call, read on or cancel. Strong fairness only for taking
a mutex, since Go's mutexes hand over to a waiter that starves. In FileFetcher
collection is never fair; only the cleanup of what has been collected is. In
Opening the goroutine of Open and each probe are scheduled; that a cancellation
comes is not assumed, nor that the publication is closed. Deobfuscator and
RemoteOpen state fairness of their own steps in `Spec`.

## 4. What is proved

TLAPS checks these for every value of the constants that satisfies the named
assumptions of the modules.

* **ReadCache_proofs**: `TypeCorrect`, `CacheTruthful` (`BlocksTruthful`),
  `ReadsExact` (`ServedExact`), `CacheGrows` (no block is dropped or changed). A
  block is right when it was cut out of a run that was read from its first byte
  on; the invariant therefore carries, for each reader, what the data of its
  running fetch is and which blocks of its range are already cached. Arithmetic
  of blocks is put into lemmas of its own. `CacheImplementsServer` is the
  refinement of RangeServer, step by step: the request is taken by the first step
  of a Read, answered by its last, and every step between is a stutter.
* **AudioCache_proofs**: `LifeInvariance`, `BlocksStayTruthful`, `ProbeReadsExact`,
  `NothingFetchedTwice` (`FetchesOnlyMissing`), `ServingImplementsServer`,
  `ProbeImplementsServer`. While a file is probed the invariant is that of
  ReadCache, from the snapshot on the blocks stay what they are. A byte is in
  memory or not, and the walk over the blocks stops at the first that is not;
  from that follow what a Stream sends and where it asks the resource to go on.
  Two hypotheses say what the code needs: `Size = 1 => Actual <= 1`, as a hint of
  one byte makes the range (0, 0), which asks for everything; and for the serving
  refinement `Actual <= Size`, as a file longer than its hint is cut (section 5).
  That a byte is asked for only when memory has not got it needs the first alone.
* **FileFetcher_proofs**: `TypeCorrect`, `ShutdownReleases`, `TrackingComplete`,
  `WeakListStaysBounded`, `ReadsKeepHandle`. `Inv` adds to the properties that a
  handle and the flags of its resource go together (`HandleInv`) and that the
  list points to reachable objects only (`PointerInv`), without which the bound
  is not inductive.
* **ZipEntry_proofs**: `Invariance`, `DeliversExactly`, `IndexHasOneUser`,
  `GrowingIndex`. The chain: who works on the index holds the mutex and has all
  of it (`Owned`), so storing it never loses a point; so a point that was looked
  up is still there after the mutex was given away (`Loaded`); so decompression
  is taken up there or behind it, and never reads what was not loaded
  (`Delivered`). That a bounded set has a greatest element is derived from the
  well-foundedness of the naturals.
* **SearchService_proofs**: `Invariance`, `OneBuild`, `CorpusWhole`,
  `PagesRead` (`PagesInOrder`) and `MatchesAreExact` (`MatchesExact`). Only `CorpusWhole` assumes anything of reads: that
  they fail for broken resources and dead contexts. `PagesRead` holds for every
  sequence of calls with live and dead contexts: a refused one leaves the iterator where
  it was. `Collected` says what a build
  with a live context has come past; the check of the context before the
  extraction is what keeps the hole of a dead one out. An iterator has returned
  what lies before its position; that what the engine finds is a sequence at all
  is an induction over the resources, done by the least one where it fails.
  What the engine finds is exact for any publication and any query, by way of the
  three texts a resource has. The folded text is the plain one with every run of
  spaces made one and some letters made two (`Spread`, with the number of folded
  characters up to each place), and both maps between them go back to the right place
  (`Mapped`, `Traced`). Each character, break and excluded element that is extracted
  keeps that and adds to the plain text what is shown (`TakenRight`, `PlainIsShown`).
  Folding a part of the plain text that neither starts nor ends with a space gives the
  same part of the folded text (`PhraseOf`), so where the query stands there is where it
  occurs (`StandsAndOccurs`, `MatchPlaces`). The scan finds or comes across every place
  (`Scanned`). The resources kept are in order and start one behind the other
  (`Corpus`), and so are the hits (`Merged`).
* **Deobfuscator_proofs**: `Invariance`, `NothingScrambled` (`ClearedExactly`),
  `CompleteExceptOffByOne` (`CompleteOnSuccess`). No byte is lost in the pipe:
  those the caller has read, those in the pipe and those not yet written are the
  range (`Conserved`). `NoOffByOne`, the hypothesis of the last, excludes the one
  case that the run `deobfuscator_boundary` shows: the theorem says that there is
  no other.
* **RemoteArchive_proofs**: `Exactness` (`AnswersExact`), `CacheBounded`,
  `RangesTruthful` (`CacheTruthful`), `PartsExact` (`ReadsExact`) and
  `NoResponseLeft` (`ResponsesClosed`), of the adapter's whole life. Opening: what
  is kept is the end of the archive, `zipTailSize` bytes of it (`Kept`), so a read is
  exact however often the tail was lengthened. The bound of two requests needs how
  far the zip reader is (`Counted`): the end record is looked for within the first
  tail (`EndBlock2 <= TailSize`, both 65 KB), and the directory is read forward,
  so that a tail which reaches its start is long enough for the rest (`Forward`).
  Reading: what a goroutine holds on its way (`Working`) is what it asked for, and
  so is what it adds to the cache, except for a buffer its caller took back and for
  what comes of a header that was short. Of the latter it is enough to know how
  far it reaches: a half header tells no longer a body than the whole one, or one
  too big to be read ahead (`ToldFacts`), so that what is spoilt ends with its entry
  (`Reach`). `HeaderPieces` is any subset of the lengths from nothing to all.
* **FetchedReader_proofs**: `ListingsTrue` (`LinksTruthful`) and
  `ReadersKeepPromise` (`ImplementsReader`). That only links of the location get
  into a listing (`Founded`) holds even when calls overlap; that the cache is the
  beginning of the true listing (`Ordered`) only while none have. What it is to
  leave out the blanks of a list is proved of a recursive function, once. For the
  readers it is enough that a length they keep is the length and that only files
  have claims: a read through any layer of any provider is then one of the same
  range, or fails, and each of Open, Seek, Read, Claim, Deliver and Stream is a
  step of SeekableReader. Of a stream the promise is that it writes a beginning of its
  range (`NothingSliced`), and all of it when it reports no error.

* **PublicationContent_proofs**: `ContentInvariant`, `NothingIsLost` (`NothingLost`),
  `TextsComeInRuns` (`ElementsAreRuns`), `StartIsFound` (`StartsAtBlock`) and
  `IteratorIsCursor` (`ImplementsCursor`), for documents of any size and shape and
  publications of any number of resources.
  The invariant `Inv` of the converter has three parts. `Proper`: the document is a tree
  in document order. `Walking`: node, depth and phase are those of a walk over it.
  `Good`: with respect to the nodes passed, an interval from the body on (`Passed`), and
  the blocks still open (`OpenBlocks`), the elements are right, as runs of texts that are
  maximal; so is what is pending, when the text of the open segment is counted as a
  segment (`Segs`); between what was flushed and what is pending something separates
  (`Cut`); and the start index splits the elements at the start block (`SplitAt`).
  The walk needs what a tree in document order is: the nodes of a subtree are an
  interval (`Ends`), the next node is the first child, or the next sibling of the
  nearest ancestor that has one, and what is open is the ancestors that are blocks.
  Each of text, break, medium, start and end of a block then keeps `Good` by a lemma
  of its own.
  The iterator: a resource's elements begin at its offset (`OffsetOf`), an iterator is
  at a place (`PlaceOf`) with the same elements in front of it (`Ahead`, `Behind`) as
  the cursor; loading the next resource that has elements does not move it, however
  many are empty or fail, and each question moves it as the cursor's does (`MovesOn`,
  `MovesBack`).

Induction over data is done without an operator for a parameter: over a set of
naturals (`InductionOnNat`), from the least number where a claim fails, or of a
recursive function that is chosen. Trees are within reach of that because a node has a
greater number than its parent.

The theorems are about the components' own specifications, and for AudioCache,
RemoteArchive, FetchedReader and PublicationContent about their compositions.
PublicationSearch takes the steps of SearchService and adds its own: `SearchServes`
says that it implements SearchService, so that what is proved of that
(`SearchesOfPublication`) holds of the search of a publication too. The assumptions
are the named ones of the modules: that counts and sizes are numbers of the right
sign, that what requests and instances name exists, that publications and queries are
sequences of tokens and characters, and what the entries above say.

Only model-checked: liveness (fairness and ENABLED are beyond the prover), and
everything in the modules that no `_proofs` module extends. EPUBMetadata to Opening, and GuidedNavigation, walk trees of unknown
depth with RECURSIVE operators, and stay with TLC for that reason, with their
properties (`GuidesComplete` and the six of Opening).

## 5. Disagreements found

Three have a run of their own; `PROJECT.json` quotes the line each contradicts.

* `parser/audio/readcache.go:124` (`readcache_race`): two look-ups of one block,
  and a failed Read when another reader stores it in between.
* `parser/epub/deobfuscator.go:108` (`deobfuscator_boundary`): one byte short, and
  no error, when a range ends with the first byte behind the portion read.
* `manifest/metadata.go:144` (`opening_split`): inferred accessibility metadata is
  assigned into a map nobody made.

The others were met while modelling. The passing runs are set up so that they
stand beside them; what a run leaves out for that reason is said here.

| Where | What | In the models |
|---|---|---|
| `readcache.go:124` | an error of the cache's own making | an outcome of ReadCache; RangeServer lets a request end with an error |
| `servecache.go:52` | a start behind the end of the file makes a slice of negative capacity and panics | a branch of RetainedCache that no request of the run takes |
| `servecache.go:166` | a range past the end asks the resource again for nothing | modelled; the answer is right |
| `servecache.go:193` | (0, 0) is cut at the probed size when the file has grown | needs `Actual > Size`; the run has a shorter file |
| `deobfuscator.go:126` | a key that cannot be derived leaves the goroutine in the pipe | a branch; `StreamEnds` asks for the goroutine's end for valid keys |
| `deobfuscator.go:244` | an empty key divides by zero | a branch that ends the call |
| `remote.go:161` | a single `Read` takes the first piece of a body for the whole header: `ReadAt` then succeeds with fewer bytes than asked for, or with zeros from the cache, against "implements io.ReaderAt" (line 70), and reads ahead from the wrong place | `HeaderPieces`, `Told`; the exception of `CacheTruthful` and `ReadsExact` |
| `remote.go:303` | a count threshold of 0 panics | excluded by `RemoteZipAssumption` |
| `remote.go:310` | the caller's buffer becomes a cached range | `Call`; the exception of `CacheTruthful` and `ReadsExact` |
| `remote.go:103` | an archive smaller than the tail, above the small-archive threshold, fails to open | `Opens` is stated for archives as long as the tail |
| `remote.go:91` | after a failed fetch the blank buffer is taken for the archive | `Blank`, the exception of `AnswersExact` |
| `archive_zip.go:121` | a range behind the end is `io.EOF`, where other resources return nothing | modelled as the error it is |
| `archive_zip.go:314` | bytes skipped in front of a range count as streamed | modelled; a success counts right |
| `html_converter.go:303` | compares two addresses: a progression of 1 never starts at the end, so HasPrevious finds nothing over the beginning of a resource | `IndexAtProgression`; the reader turns round within one resource only |
| `html_converter.go:458` | start index 0 means "not found" too: a start block that nothing precedes is passed | `StartsAtBlock` is stated for blocks with an element before them |
| `iterator/publication.go:49` | HasNext asked twice skips an element | `HasNext`; Cursor moves with each question, as the code does |
| `search/corpus.go:279` | a self-closed excluded element (`<script/>`) is never left: the rest of the resource is dropped, where line 32 speaks of its subtree | `AddToken`; what is `Shown` is counted the same way |
| `search/corpus.go:43` | `div` and `br` are no block elements: words they separate become one | inline tags do nothing in TextSearch |
| `search/match.go:237` | line ends next to the match are cut from the context in front of it, not only the outer edge (comment at 213) | `ToText`; the exception in `MatchesExact` |
| `service_search.go:293` | a read that fails once, for a reason that goes away, is skipped and its text missing for good | `Transient`, FALSE in the run; `CorpusComplete` and its theorem say so |
| `streamer.go:134` | the callback's error path leaves the fetcher open | `Customise`; the exception of `HandlesReleased` |
| `parser/webpub/parser.go:78` | the fetcher that read a bare manifest is never closed, nor the relative one when the inference fails | the exception of `HandlesReleased` |
| `pub/publication.go:57` | positions in a manifest are asserted to have a type that decoded JSON never has: always empty | no positions from manifests in Opening |
| `epub/media_overlay_service.go:148` | a reading order that lists a file twice makes the chain of guides a loop | `PlacesInOrder` is stated for distinct files |
| `epub/factory.go:202` | the chain that is to detect recursion is empty again for media overlays, which loop if they overlay each other; an alternate without a media type is a nil pointer | no such package in the run |
| `epub/property_data_type.go` | the property `:` indexes an empty slice | no such property in the run |
| `epub/positions_service.go:166` | the strategy by original length has another signature and takes the smaller where the larger is meant; nobody uses it | not modelled |
| `epub/metadata.go` | without a unique identifier the first one is also an alternative; subjects and collections come in the other metadata too | modelled; `PackageAccounted` speaks of refinements, links, contributors and contents |
| `fetcher/resource.go:54` | S3, Google and HTTP refuse a range at or behind the end (416) where the interface says it is clamped; `BytesResource.Stream` does not clamp | modelled as they are; the readers stop at the length they know |
| `fetcher/resource.go:500` | a transforming resource returns `Other(nerr)` from Stream, an error even when the writer had none (513 too), which no caller can tell from a failure | `Stream`; SeekableReader lets a stream that is whole report an error |
| `fetcher/resource.go:117` | CodeBadRequest is 502, "equivalent to a 400" | no property depends on it |
| `fetcher/resource.go` | a transforming resource with cached bytes has length 0 before its first read | `known`, in the promise of SeekableReader |
| `fetcher/fetcher_s3.go:70` | empty objects leave blank links; only the first page of a listing is read | modelled; `LinksTruthful` names the blanks |
| `fetcher/fetcher_{s3,gcs}.go` | a listing that failed is returned as whole by the next call, as is one another call is still filling | `spoilt` and `overlapped`, the exceptions of `LinksTruthful` |
| `fetcher/fs.go:63` | `ReadAt` returns a short read without an error, which io.ReaderAt excludes; `Seek` accepts a negative offset | reads in the model go through Read; positions are naturals |
| `guidednavigation/converter/html.go:551` | a note without a role that holds an image or a page break has its text moved into the root, of which only the children are returned: the text is dropped | `Hoist`, `Mixed`; the exception of `GuidesComplete` for these texts |
| `guidednavigation/converter/html.go:478` | notes that only refer to each other, that are referred to where nothing is read, or that are more than three references away are taken out of the flow and embedded nowhere, although "its content would be lost" is what line 478 avoids | `Suppressed`, `Stranded`; the exception of `GuidesComplete` |
| `guidednavigation/converter/html.go:876` | a note that is an image, a video, a page break or a reference itself is taken out of the flow, and its placeholder never turned into an object: it is dropped | `Lone`; the exception of `GuidesComplete` |
| `guidednavigation/converter/html.go` | media in a noteref are dropped; a noteref without text takes its note's text over | modelled; `GuidesComplete` is stated for noterefs with a text |

## 6. Plan

Done, the most shared and most concurrent parts first: ReadCache and its proof,
FileFetcher and its proof, Deobfuscator, RetainedCache, RemoteZip and RemoteOpen,
SearchService and its proof, content iteration, ZipEntry and its proof; then the
compositions AudioCache, RemoteArchive, PublicationContent; Opening with the five
parsers; EPUB packages and services; the fetchers with their layers and readers;
guided navigation; the text search.

Next:

1. Proofs: Opening, and the guides of GuidedNavigation, once their trees are walked
   by recursive functions.
2. **ZipIndex**: shared wrappers of entries; the exploded archive as a second
   implementation of the same promise.
3. **ChapterTitles**: sample offsets and coalesced runs in `mp4.go`, checked
   against a reference definition and composed with ReadCache.
4. The titles and hrefs of search locators, and which service answers a link.

A new part gets one run, or a place in the run of the composition it belongs to;
a property gives way to a deeper one, so that the whole stays small enough to be
run and read in one go.

## 7. Not modelled, and why

Formats and their conversion (manifest JSON, the XML of packages and navigation
documents, tags, playlists, container layouts, media type sniffing, URLs and URI
templates) are functions from data to data without state; small instances of
strings and XML say little about them. Image hashing, PDF metadata, zran and the
SDKs of cloud providers are libraries. Logging, wording of errors and HTTP headers
are left out. Unicode normalization in the search, white space, SSML, MathML and SVG
in guides, the white space and the roles in content elements are left out too.
Hidden states of the ZIP archive's index, the manifest list and the chapter titles
of MP4 files (`mp4.go:301`, read in concurrent runs) are plan, not model. A file
that changes while it is open is covered where the code has a hint for a length
(ReadCache, RetainedCache), and not in ZipEntry.
