------------------------------ MODULE RemoteZip ------------------------------
(***************************************************************************)
(* Reading a ZIP archive over the network through a cache of byte ranges:  *)
(* remoteZIPAdapter.ReadAt of pkg/archive/remote.go, once the archive has  *)
(* been opened (zipReady).                                                 *)
(*                                                                         *)
(* Requests are served concurrently by goroutines that share the adapter.  *)
(* A read as long as a local file header is taken for one: the header is   *)
(* fetched with an open-ended request, and the entry's body is read ahead  *)
(* from the same response and cached.  Any other read is looked up in the  *)
(* cached ranges and fetched exactly.  The cache evicts its oldest range.  *)
(* The mutex is held for each look-up and each store, and released in      *)
(* between; each of these is an action here, as is each remote operation.  *)
(*                                                                         *)
(* Bytes are runs of offsets of the archive (ByteRange).                   *)
(***************************************************************************)
EXTENDS ByteRange, Sequences, FiniteSets

CONSTANTS
    Procs,           \* goroutines reading the archive
    Size,            \* bytes of the archive
    HeaderLen,       \* length of a local file header (30)
    HeaderPieces,    \* how many bytes of it one Read can bring (0 to 30)
    Entries,         \* the archive's entries, see EntrySet
    Requests,        \* the reads [off, len] the goroutines make
    CountThreshold,  \* cacheCountThreshold (with 0 the first small read panics)
    SizeThreshold,   \* cacheSizeThreshold
    None             \* no entry

\* at: offset of the local header; extra: length of its name and extra field;
\* body: length of the body; sized: does the header tell it?
EntrySet == [at : Nat, extra : Nat, body : Nat, sized : BOOLEAN]

ASSUME RemoteZipAssumption ==
    /\ Size \in Nat
    /\ HeaderLen \in Nat \ {0}
    /\ HeaderPieces \subseteq 0 .. HeaderLen
    /\ CountThreshold \in Nat \ {0}
    /\ SizeThreshold \in Nat
    /\ Entries \subseteq EntrySet
    /\ \A e \in Entries : e.at + HeaderLen + e.extra + e.body <= Size
    /\ \A e, f \in Entries : e.at = f.at => e = f
    /\ None \notin EntrySet
    /\ Requests \subseteq [off : Nat, len : Nat \ {0}]
    /\ \A q \in Requests : q.off + q.len <= Size

VARIABLES
    cachedRanges,  \* the cache, oldest range first
    pc,            \* pc[p]: where p is in ReadAt
    req,           \* req[p]: the read p makes
    head,          \* head[p]: fileHeaderBuf, as the run it holds
    told,          \* told[p]: the entry as its header tells it, or None
    opened,        \* opened[p]: does p hold a remote response?
    got,           \* got[p]: the bytes the last read of p returned
    outcome,       \* outcome[p]: how the last read of p ended
    cut            \* history: the offsets whose header once came short

vars == <<cachedRanges, pc, req, head, told, opened, got, outcome, cut>>

Ranges == {cachedRanges[i] : i \in 1 .. Len(cachedRanges)}

\* The contents of a buffer its owner has written to since it was cached.
Overwritten == [lo |-> -4, hi |-> -4]

\* readRange; HeaderOffset is -1 for a range without header, owner the
\* goroutine whose buffer Data is, if it is not the adapter's own.
HeaderRange(off, run) ==
    [headerOffset |-> off, offset |-> 0, size |-> 0, header |-> run,
     data |-> NoBytes, owner |-> None]

\* Mutant: the name and the extra field are not trimmed off.
BodyRangeUntrimmed(e, run) ==
    [headerOffset |-> e.at, offset |-> e.at + HeaderLen + e.extra, size |-> e.body,
     header |-> run, data |-> Run(run.hi, run.hi + e.body), owner |-> None]

\* The body read ahead, without the name and the extra field before it.  The
\* response goes on where the header broke off.
BodyRange(e, run) ==
    [headerOffset |-> e.at, offset |-> e.at + HeaderLen + e.extra, size |-> e.body,
     header |-> run, data |-> Run(run.hi + e.extra, run.hi + e.extra + e.body),
     owner |-> None]

ChunkRange(p) ==
    [headerOffset |-> -1, offset |-> req[p].off, size |-> req[p].len,
     header |-> NoBytes, data |-> got[p], owner |-> p]

Wanted(p) == Run(req[p].off, req[p].off + req[p].len)

\* size == 30 && cacheCountThreshold > 0 && cacheSizeThreshold > 0
IsHeaderRead(p) == req[p].len = HeaderLen /\ SizeThreshold > 0

\* The entry whose header is at off.
EntryAt(off) ==
    IF \E e \in Entries : e.at = off THEN CHOOSE e \in Entries : e.at = off ELSE None

\* The longest body a header can tell that came short: no longer than it is, or
\* any (beyond SizeThreshold they are alike) when the size is over 32 bits.
MostBody(e) == IF e.sized THEN e.body ELSE SizeThreshold + 1

\* What the code may take fileHeaderBuf for when n bytes of the header at off are
\* in it and zeros behind: without all of the signature for none, and with zeros
\* in its little-endian lengths for one of a smaller entry or one without a size.
Told(off, n) ==
    LET e == EntryAt(off)
    IN  IF e = None \/ n = 0 THEN {None}
        ELSE IF n = HeaderLen THEN {e}
        ELSE {None, [e EXCEPT !.sized = FALSE]} \union
             [at : {off}, extra : 0 .. e.extra, body : 0 .. MostBody(e), sized : {TRUE}]

\* The cache with rng appended, the oldest range dropped when it is full.
Added(rng) ==
    IF Len(cachedRanges) >= CountThreshold
    THEN Append(Tail(cachedRanges), rng)
    ELSE Append(cachedRanges, rng)

\* hasSameRange
HasSame(off, size) == \E rng \in Ranges : rng.offset = off /\ rng.size = size

-----------------------------------------------------------------------------
Init ==
    /\ cachedRanges = <<>>
    /\ pc = [p \in Procs |-> "idle"]
    /\ req = [p \in Procs |-> [off |-> 0, len |-> 1]]
    /\ head = [p \in Procs |-> NoBytes]
    /\ told = [p \in Procs |-> None]
    /\ opened = [p \in Procs |-> FALSE]
    /\ got = [p \in Procs |-> NoBytes]
    /\ outcome = [p \in Procs |-> "none"]
    /\ cut = {}

\* A goroutine calls ReadAt.  It may read into the buffer of its last calls, as
\* a buffered reader does: what was cached of that buffer is overwritten.
Call(p) ==
    /\ pc[p] = "idle"
    /\ \E q \in Requests : req' = [req EXCEPT ![p] = q]
    /\ pc' = [pc EXCEPT ![p] = "lookup"]
    /\ got' = [got EXCEPT ![p] = NoBytes]
    /\ outcome' = [outcome EXCEPT ![p] = "none"]
    /\ \/ UNCHANGED cachedRanges
       \/ cachedRanges' =
             [i \in 1 .. Len(cachedRanges) |->
                IF cachedRanges[i].owner = p
                THEN [cachedRanges[i] EXCEPT !.data = Overwritten]
                ELSE cachedRanges[i]]
    /\ UNCHANGED <<head, told, opened, cut>>

Return(p, how, run) ==
    /\ pc' = [pc EXCEPT ![p] = "idle"]
    /\ outcome' = [outcome EXCEPT ![p] = how]
    /\ got' = [got EXCEPT ![p] = run]

Goto(p, next) == pc' = [pc EXCEPT ![p] = next] /\ UNCHANGED outcome

\* Mutant: the entry before the one asked for is as good.
HeaderHitsAny(p) == {i \in 1 .. Len(cachedRanges) : cachedRanges[i].headerOffset <= req[p].off
                                                   /\ cachedRanges[i].headerOffset # -1}

HeaderHits(p) == {i \in 1 .. Len(cachedRanges) : cachedRanges[i].headerOffset = req[p].off}

\* The header is looked up, under the read lock; the first match wins.
HeaderLookup(p) ==
    /\ pc[p] = "lookup"
    /\ IsHeaderRead(p)
    /\ IF HeaderHits(p) = {}
       THEN Goto(p, "header") /\ UNCHANGED got
       ELSE \E i \in HeaderHits(p) :
               /\ \A j \in HeaderHits(p) : i <= j
               /\ Return(p, "ok", cachedRanges[i].header)
    /\ UNCHANGED <<cachedRanges, req, head, told, opened, cut>>

\* ReadRange(ctx, off, -1)
OpenHeader(p) ==
    /\ pc[p] = "header"
    /\ ~opened[p]
    /\ \/ /\ opened' = [opened EXCEPT ![p] = TRUE]
          /\ UNCHANGED <<pc, outcome, got>>
       \/ /\ Return(p, "error", NoBytes)
          /\ UNCHANGED opened
    /\ UNCHANGED <<cachedRanges, req, head, told, cut>>

\* A single rdr.Read: n bytes of the header come, which is no error if they are
\* not all of it.  The run is what came; the rest of fileHeaderBuf is zero.
ReadHeader(p) ==
    /\ pc[p] = "header"
    /\ opened[p]
    /\ \/ /\ \E n \in HeaderPieces :
                /\ head' = [head EXCEPT ![p] = Run(req[p].off, req[p].off + n)]
                /\ \E e \in Told(req[p].off, n) : told' = [told EXCEPT ![p] = e]
                /\ cut' = IF n < HeaderLen THEN cut \union {req[p].off} ELSE cut
          /\ Goto(p, "parse")
          /\ UNCHANGED <<opened, got>>
       \/ /\ opened' = [opened EXCEPT ![p] = FALSE]
          /\ Return(p, "error", NoBytes)
          /\ UNCHANGED <<head, told, cut>>
    /\ UNCHANGED <<cachedRanges, req>>

\* No ZIP header: the bytes are passed on.
ParseOther(p) ==
    /\ pc[p] = "parse"
    /\ told[p] = None
    /\ Goto(p, "finish")
    /\ UNCHANGED <<cachedRanges, req, head, told, opened, got, cut>>

\* cacheHeader: the size is not given, or the body is too big to be cached.
CacheHeader(p) ==
    /\ pc[p] = "parse"
    /\ told[p] # None
    /\ ~told[p].sized \/ told[p].body > SizeThreshold
    /\ cachedRanges' = Added(HeaderRange(req[p].off, head[p]))
    /\ Goto(p, "finish")
    /\ UNCHANGED <<req, head, told, opened, got, cut>>

\* Is the body cached already?  Looked up under the read lock.
LookupBody(p) ==
    /\ pc[p] = "parse"
    /\ told[p] # None
    /\ told[p].sized /\ told[p].body <= SizeThreshold
    /\ LET e == told[p]
       IN  Goto(p, IF HasSame(e.at + HeaderLen + e.extra, e.body) THEN "finish" ELSE "body")
    /\ UNCHANGED <<cachedRanges, req, head, told, opened, got, cut>>

\* Does the archive go on for as long as the name, the extra field and the body?
BodyComes(p) == head[p].hi + told[p].extra + told[p].body <= Size

\* Mutant: the response is left open when the body cannot be read.
ReadBodyLeaky(p) ==
    /\ pc[p] = "body"
    /\ \/ /\ BodyComes(p)
          /\ Goto(p, "store")
          /\ UNCHANGED <<head, told, opened, got>>
       \/ /\ head' = [head EXCEPT ![p] = NoBytes]
          /\ told' = [told EXCEPT ![p] = None]
          /\ UNCHANGED opened
          /\ Return(p, "error", NoBytes)
    /\ UNCHANGED <<cachedRanges, req, cut>>

\* io.ReadAtLeast(rdr, rest, len(rest))
ReadBody(p) ==
    /\ pc[p] = "body"
    /\ \/ /\ BodyComes(p)
          /\ Goto(p, "store")
          /\ UNCHANGED <<head, told, opened, got>>
       \/ /\ head' = [head EXCEPT ![p] = NoBytes]
          /\ told' = [told EXCEPT ![p] = None]
          /\ opened' = [opened EXCEPT ![p] = FALSE]
          /\ Return(p, "error", NoBytes)
    /\ UNCHANGED <<cachedRanges, req, cut>>

StoreBody(p) ==
    /\ pc[p] = "store"
    /\ cachedRanges' = Added(BodyRange(told[p], head[p]))
    /\ Goto(p, "finish")
    /\ UNCHANGED <<req, head, told, opened, got, cut>>

\* The header is copied to the caller and the response closed.
FinishHeader(p) ==
    /\ pc[p] = "finish"
    /\ got' = [got EXCEPT ![p] = head[p]]
    /\ head' = [head EXCEPT ![p] = NoBytes]
    /\ told' = [told EXCEPT ![p] = None]
    /\ opened' = [opened EXCEPT ![p] = FALSE]
    /\ Goto(p, "remember")
    /\ UNCHANGED <<cachedRanges, req, cut>>

-----------------------------------------------------------------------------
(* Any other read.                                                         *)

\* The cached ranges that contain the read.
ChunkHits(p) ==
    {i \in 1 .. Len(cachedRanges) :
        /\ req[p].off >= cachedRanges[i].offset
        /\ req[p].off < cachedRanges[i].offset + cachedRanges[i].size
        /\ req[p].off + req[p].len <= cachedRanges[i].offset + cachedRanges[i].size}

\* rng.Data[off-rng.Offset : off-rng.Offset+size]
Part(rng, p) ==
    IF rng.data = Overwritten
    THEN Overwritten
    ELSE Run(rng.data.lo + req[p].off - rng.offset,
             MinOf(rng.data.lo + req[p].off - rng.offset + req[p].len, rng.data.hi))

ChunkLookup(p) ==
    /\ pc[p] = "lookup"
    /\ ~IsHeaderRead(p)
    /\ IF ChunkHits(p) = {}
       THEN Goto(p, "chunk") /\ UNCHANGED got
       ELSE \E i \in ChunkHits(p) :
               /\ \A j \in ChunkHits(p) : i <= j
               /\ Return(p, "ok", Part(cachedRanges[i], p))
    /\ UNCHANGED <<cachedRanges, req, head, told, opened, cut>>

\* ReadRange(ctx, off, size)
OpenChunk(p) ==
    /\ pc[p] = "chunk"
    /\ ~opened[p]
    /\ \/ /\ opened' = [opened EXCEPT ![p] = TRUE]
          /\ UNCHANGED <<pc, outcome, got>>
       \/ /\ Return(p, "error", NoBytes)
          /\ UNCHANGED opened
    /\ UNCHANGED <<cachedRanges, req, head, told, cut>>

\* io.ReadFull(rdr, p): it succeeds with all the bytes or fails with some of
\* them; what is too big to be cached is returned at once.  A response stays
\* open until ReadAt returns.
ReadChunk(p) ==
    /\ pc[p] = "chunk"
    /\ opened[p]
    /\ \/ /\ req[p].len <= SizeThreshold
          /\ got' = [got EXCEPT ![p] = Wanted(p)]
          /\ Goto(p, "remember")
          /\ UNCHANGED opened
       \/ /\ req[p].len > SizeThreshold
          /\ Return(p, "ok", Wanted(p))
          /\ opened' = [opened EXCEPT ![p] = FALSE]
       \/ /\ \E n \in 0 .. req[p].len - 1 :
                Return(p, "error", Run(req[p].off, req[p].off + n))
          /\ opened' = [opened EXCEPT ![p] = FALSE]
    /\ UNCHANGED <<cachedRanges, req, head, told, cut>>

\* What was read is cached as it is, unless the same range is cached by now.
Remember(p) ==
    /\ pc[p] = "remember"
    /\ opened' = [opened EXCEPT ![p] = FALSE]
    /\ cachedRanges' = IF HasSame(req[p].off, req[p].len)
                       THEN cachedRanges
                       ELSE Added(ChunkRange(p))
    /\ Return(p, "ok", got[p])
    /\ UNCHANGED <<req, head, told, cut>>

Step(p) ==
    \/ HeaderLookup(p)
    \/ OpenHeader(p)
    \/ ReadHeader(p)
    \/ ParseOther(p)
    \/ CacheHeader(p)
    \/ LookupBody(p)
    \/ ReadBody(p)
    \/ StoreBody(p)
    \/ FinishHeader(p)
    \/ ChunkLookup(p)
    \/ OpenChunk(p)
    \/ ReadChunk(p)
    \/ Remember(p)

Next == \E p \in Procs : Call(p) \/ Step(p)

Spec == Init /\ [][Next]_vars

-----------------------------------------------------------------------------
(* Properties.                                                             *)

Locations == {"idle", "lookup", "header", "parse", "body", "store", "finish",
              "chunk", "remember"}

Outcomes == {"none", "ok", "error"}

Bytes == Runs(Size) \union {Overwritten}

RangeSet ==
    [headerOffset : Nat \union {-1}, offset : Nat, size : Nat,
     header : Runs(Size), data : Bytes, owner : Procs \union {None}]

\* Every variable has its type; the cache is within its bound.
TypeOK ==
    /\ cachedRanges \in Seq(RangeSet)
    /\ Len(cachedRanges) <= CountThreshold
    /\ pc \in [Procs -> Locations]
    /\ req \in [Procs -> [off : Nat, len : Nat \ {0}]]
    /\ head \in [Procs -> Runs(Size)]
    /\ told \in [Procs -> EntrySet \union {None}]
    /\ opened \in [Procs -> BOOLEAN]
    /\ got \in [Procs -> Bytes]
    /\ outcome \in [Procs -> Outcomes]
    /\ cut \subseteq Nat

\* run is the header at off, or the beginning of one that came short.
Arrived(off, run) ==
    \E n \in 0 .. HeaderLen :
        /\ run = Run(off, off + n)
        /\ n < HeaderLen => off \in cut

\* Where the bytes end that a header at off that came short may spoil: those of
\* its own entry, as far as they can be read ahead.
Reach(off) ==
    off + HeaderLen + (IF EntryAt(off) = None THEN 0
                       ELSE EntryAt(off).extra + MinOf(MostBody(EntryAt(off)), SizeThreshold))

\* rng was made of a header that came short: what was read ahead with it, or the
\* buffer it was read into.
CutShort(rng) ==
    \E off \in cut :
        \/ /\ off = rng.headerOffset
           /\ RunLen(rng.header) < HeaderLen
           /\ off + HeaderLen <= rng.offset
           /\ rng.offset + rng.size <= Reach(off)
        \/ /\ off = rng.offset
           /\ rng.headerOffset = -1
           /\ rng.size = HeaderLen
           /\ Arrived(off, rng.data)

\* "Cached byte ranges of the ZIP file": whatever was read, by whom and in which
\* order, a cached header is the header at its offset, and cached data is the
\* archive's data at its offset, unless it lies in a buffer of a reader that has
\* used it again.  A header that came short spoils what is made of it and no
\* more: its own copies are beginnings of it, and what was read ahead with it is
\* wrong within its entry.
CacheTruthful ==
    \A rng \in Ranges :
        /\ rng.headerOffset # -1 => Arrived(rng.headerOffset, rng.header)
        /\ \/ rng.data = Run(rng.offset, rng.offset + rng.size)
           \/ rng.data = Overwritten /\ rng.owner \in Procs
           \/ CutShort(rng)

\* A read that succeeds has returned the bytes it was asked for, with two
\* exceptions: a hit on data overwritten by the reader that had it cached, which
\* no header is, and reads within an entry whose header came short once (a read
\* of that header then returns a beginning of it).
ReadsExact ==
    \A p \in Procs :
        outcome[p] = "ok" =>
            \/ got[p] = Wanted(p)
            \/ IsHeaderRead(p) /\ Arrived(req[p].off, got[p])
            \/ /\ ~IsHeaderRead(p)
               /\ \/ got[p] = Overwritten
                  \/ \E off \in cut : /\ off <= req[p].off
                                      /\ req[p].off + req[p].len <= Reach(off)

\* No return, successful or not, leaves a response of the remote server open.
ResponsesClosed == \A p \in Procs : pc[p] = "idle" => ~opened[p]

=============================================================================
