------------------------------ MODULE FetchedReader ------------------------------
(***************************************************************************)
(* Reading what a fetcher has listed: a link is opened, its resource maybe *)
(* wrapped in one that transforms its bytes, and read through an           *)
(* io.ReadSeeker by one goroutine, through an fs.File by several, or       *)
(* streamed by itself.                                                     *)
(***************************************************************************)
EXTENDS Fetchers, ByteRange

CONSTANTS
    Lens,      \* lengths of the readers' buffers
    Offsets,   \* offsets they seek by
    MaxPos     \* bound: no position behind this one

ASSUME FetchedReaderAssumption ==
    /\ Lens \subseteq Nat \ {0}
    /\ Offsets \subseteq Int

VARIABLES
    reader,    \* the reader, its resource and what they keep
    claimed,   \* claimed[t]: the range t's read of a file has claimed
    answer,    \* what the last read delivered
    sizes      \* the ids whose metadata the fetcher has

readVars == <<reader, claimed, answer, sizes>>
vars == <<place, listVars, readVars>>

Layers == {"plain", "transforming", "cached"}

NoClaim == [at |-> 0, k |-> 0]
Answer(run, outcome) == [run |-> run, outcome |-> outcome]

Closed == [kind |-> "none", id |-> Blank, size |-> 0, layer |-> "plain", offset |-> 0,
           length |-> 0, loaded |-> FALSE]

Init ==
    /\ InitListing
    /\ reader = Closed
    /\ claimed = [t \in Threads |-> NoClaim]
    /\ answer = Answer(NoBytes, "none")
    /\ sizes = {}

\* NewResourceReadSeeker, ToFSFile: a link of the listing is opened, by a fetcher made for it.
Open ==
    /\ reader = Closed
    /\ \A t \in Threads : call[t] = Idle
    /\ \E id \in ToSet(Named(links.list)), kind \in {"seeker", "file", "resource"}, layer \in Layers :
          reader' = [Closed EXCEPT !.kind = kind, !.id = id, !.layer = layer,
                                   !.size = Object(id).size]
    /\ cachedLinks' = <<>> /\ links' = NoLinks /\ spoilt' = FALSE /\ overlapped' = FALSE
    /\ UNCHANGED <<place, call, claimed, answer, sizes>>

-----------------------------------------------------------------------------
(* Resources. *)

Result(run, error) == [run |-> run, error |-> error]
Failed == Result(NoBytes, "error")

Whole == Result(Run(0, reader.size), "none")

\* What a server has of a range; it refuses one that begins where nothing is.
Served(start, count) ==
    IF start >= reader.size THEN Failed
    ELSE Result(Run(start, MinOf(start + count, reader.size)), "none")

ReadS3(start, end) ==
    IF end < start THEN Failed
    ELSE IF start = 0 /\ end = 0 THEN Whole
    ELSE Served(start, end + 1 - start)

\* Mutant: the last byte of a range is not asked for.
ReadGCSShort(start, end) ==
    IF end < start THEN Failed
    ELSE IF start = 0 /\ end = 0 THEN Whole
    ELSE Served(start, end - start)

ReadGCS(start, end) ==
    IF end < start THEN Failed
    ELSE IF start = 0 /\ end = 0 THEN Whole
    ELSE Served(start, end - start + 1)

\* A server that answers a range with everything is refused.
ReadHTTP(start, end) ==
    IF end < start THEN Failed
    ELSE IF start = 0 /\ end = 0 THEN Whole
    ELSE IF ~place.ranges THEN Failed
    ELSE Served(start, end + 1 - start)

\* An entry tells its end, with io.EOF for a cause.
ReadEntry(start, end) ==
    IF end < start THEN Failed
    ELSE IF start = 0 /\ end = 0 THEN Whole
    ELSE IF start >= reader.size THEN Result(NoBytes, "eof")
    ELSE Served(start, end + 1 - start)

ReadStored(start, end) ==
    CASE place.provider = "s3" -> ReadS3(start, end)
      [] place.provider = "gcs" -> ReadGCS(start, end)
      [] place.provider = "http" -> ReadHTTP(start, end)
      [] place.provider = "archive" -> ReadEntry(start, end)

\* A range of the transformed bytes, which keep their length here; it is clamped.
ReadTransformed(start, end) ==
    IF reader.size = 0 THEN Failed
    ELSE IF start = 0 /\ end = 0 THEN Whole
    ELSE Result(Run(MinOf(start, reader.size), MinOf(end, reader.size - 1) + 1), "none")

\* What a read may come to.  The storage can fail, unless the bytes have been kept.
Results(start, end) ==
    (IF reader.loaded THEN {} ELSE {Failed})
    \union (IF ~Reachable(reader.id) THEN {}
            ELSE {IF reader.layer = "plain" THEN ReadStored(start, end)
                  ELSE ReadTransformed(start, end)})

\* The bytes are kept by the cached layer once they have been transformed.
Loads(result) == reader.loaded \/ (reader.layer = "cached" /\ result # Failed)

\* Do the metadata of an object, asked for once, tell its length?
HeadS3 == reader.id \in sizes \/ Reachable(reader.id)
AttrsGCS == reader.id \in sizes \/ Reachable(reader.id)
SizeHTTP == reader.id \in sizes \/ (Reachable(reader.id) /\ place.ranges)

TellsLength ==
    \/ reader.layer = "cached"
    \/ place.provider = "s3" /\ HeadS3
    \/ place.provider = "gcs" /\ AttrsGCS
    \/ place.provider = "http" /\ SizeHTTP
    \/ place.provider = "archive" /\ Reachable(reader.id)

\* The transformed bytes are counted, before there are any, too.
Length == IF reader.layer = "cached" /\ ~reader.loaded THEN 0 ELSE reader.size

\* The fetcher keeps the answer for the resources it makes of the object.
Remembered ==
    IF reader.layer = "cached" \/ place.provider = "archive" THEN sizes ELSE sizes \union {reader.id}

-----------------------------------------------------------------------------
(* Readers. *)

Bounded(p) == 0 <= p /\ p <= MaxPos

SeekStart ==
    /\ \E d \in Offsets : Bounded(d) /\ reader' = [reader EXCEPT !.offset = d]
    /\ UNCHANGED sizes

SeekCurrent ==
    /\ \E d \in Offsets :
          /\ Bounded(reader.offset + d)
          /\ reader' = [reader EXCEPT !.offset = @ + d]
    /\ UNCHANGED sizes

\* ResourceReadSeeker keeps a length that is not 0, fs.File asks each time.
SeekEnd ==
    LET kept == reader.kind = "seeker" /\ reader.length # 0
        length == IF kept THEN reader.length ELSE Length
    IN  \E d \in Offsets :
          /\ kept \/ TellsLength
          /\ Bounded(length + d)
          /\ reader' = [reader EXCEPT !.offset = length + d,
                            !.length = IF reader.kind = "seeker" THEN length ELSE 0]
          /\ sizes' = IF kept THEN sizes ELSE Remembered

Seek ==
    /\ reader.kind \in {"seeker", "file"}
    /\ SeekStart \/ SeekCurrent \/ SeekEnd
    /\ UNCHANGED <<place, listVars, claimed, answer>>

\* ResourceReadSeeker.Read: the position moves by what has been read.
ReadSeeker ==
    /\ reader.kind = "seeker"
    /\ \E k \in Lens : \E result \in Results(reader.offset, reader.offset + k - 1) :
          LET n == MinOf(k, RunLen(result.run))
          IN  /\ reader' = [reader EXCEPT !.offset = @ + n, !.loaded = Loads(result)]
              /\ answer' = IF result.error # "none" THEN Answer(NoBytes, "error")
                           ELSE Answer(Slice(result.run, 0, n), IF n = 0 THEN "eof" ELSE "more")
    /\ UNCHANGED <<place, listVars, claimed, sizes>>

\* fsResource.Read moves the position first, ...
Claim(t) ==
    /\ reader.kind = "file"
    /\ claimed[t] = NoClaim
    /\ \E k \in Lens :
          /\ Bounded(reader.offset + k)
          /\ claimed' = [claimed EXCEPT ![t] = [at |-> reader.offset, k |-> k]]
          /\ reader' = [reader EXCEPT !.offset = @ + k]
    /\ UNCHANGED <<place, listVars, answer, sizes>>

\* ... then reads, and takes a short result for the end.
Deliver(t) ==
    LET at == claimed[t].at
        k == claimed[t].k
    IN  /\ claimed[t] # NoClaim
        /\ \E result \in Results(at, at + k - 1) :
              LET n == MinOf(k, RunLen(result.run))
              IN  /\ reader' = [reader EXCEPT !.loaded = Loads(result)]
                  /\ answer' = IF result.error = "error" THEN Answer(NoBytes, "error")
                               ELSE Answer(Slice(result.run, 0, n), IF n < k THEN "eof" ELSE "more")
        /\ claimed' = [claimed EXCEPT ![t] = NoClaim]
        /\ UNCHANGED <<place, listVars, sizes>>

\* Stream writes a range as it comes, until the storage or the writer fails.  A
\* transforming resource wraps what its writer returns into an error, also when that
\* is nil: it never streams with success.
Stream ==
    /\ reader.kind = "resource"
    /\ \E start \in 0 .. reader.size, k \in Lens :
       \E result \in Results(start, start + k - 1) :
          LET run == result.run
          IN  /\ reader' = [reader EXCEPT !.loaded = Loads(result)]
              /\ \/ /\ result.error = "none" /\ reader.layer = "plain"
                    /\ answer' = Answer(run, "more")
                 \/ \E n \in 0 .. RunLen(run) : answer' = Answer(Slice(run, 0, n), "error")
    /\ UNCHANGED <<place, listVars, claimed, sizes>>

Next ==
    \/ reader = Closed /\ ListNext /\ UNCHANGED readVars
    \/ Open \/ Seek \/ ReadSeeker \/ Stream
    \/ \E t \in Threads : Claim(t) \/ Deliver(t)

Spec == Init /\ [][Next]_vars

-----------------------------------------------------------------------------
(* Properties. *)

Promise == INSTANCE SeekableReader WITH
    length <- IF reader = Closed THEN -1 ELSE reader.size,
    eager  <- reader.kind = "file",
    known  <- reader.kind # "none" /\ (reader.layer # "cached" \/ reader.loaded),
    pos    <- reader.offset

\* Whatever the storage, the layers and the reader: a read delivers the bytes at the
\* position, all of them that were asked for and are there; the end is told at the
\* end only, so that nothing is cut off; concurrent reads of one file never share a
\* byte; a reader that is not shared has not moved when a read fails; what is
\* streamed is the beginning of the range, and all of it when no error is reported,
\* which a layer that transforms does not manage: it reports one when all is written,
\* too.  A seek from the end is right once the length is known.
ImplementsReader == Promise!Spec
=============================================================================
