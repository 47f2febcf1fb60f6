------------------------------ MODULE RemoteOpen ------------------------------
(***************************************************************************)
(* Opening a ZIP archive over the network: the two paths of                *)
(* remoteZIPAdapter.ReadAt (pkg/archive/remote.go) that serve Go's zip     *)
(* reader until makeReady is called.                                       *)
(*                                                                         *)
(* A small archive is fetched as a whole into completeBytes.  Otherwise    *)
(* the tail of the archive is fetched and kept, as the zip reader looks    *)
(* for the end-of-directory record there, and a longer tail is fetched     *)
(* when it asks for a central directory that starts before it.             *)
(*                                                                         *)
(* The zip reader is external: it reads the last EndBlock1 bytes, the last *)
(* EndBlock2 bytes if the record is not among them, and then the directory *)
(* from its start, forward.  It opens an archive alone, in one goroutine.  *)
(***************************************************************************)
EXTENDS ByteRange

CONSTANTS
    Archives,     \* the archives opened, see ArchiveSet
    TailSize,     \* the initial zipTailSize (65 KB)
    EndBlock1,    \* 1 KB
    EndBlock2,    \* 65 KB
    Chunk         \* the zip reader's buffer (4 KB)

\* dir: where the central directory starts; end: where the end record is; whole:
\* is the archive at most cacheAllThreshold long; faults: may requests fail?
ArchiveSet ==
    [size : Nat \ {0}, dir : Nat, end : Nat, whole : BOOLEAN, faults : BOOLEAN]

\* Assumed of the constants by whoever instantiates this module.
RemoteOpenAssumption ==
    /\ Archives \subseteq ArchiveSet
    /\ \A a \in Archives : a.dir < a.end /\ a.end < a.size
    /\ {TailSize, EndBlock1, EndBlock2, Chunk} \subseteq Nat \ {0}
    /\ EndBlock1 < EndBlock2
    /\ EndBlock2 <= TailSize

VARIABLES
    archive,        \* the archive being opened
    stage,          \* the zip reader: "end1", "end2", "dir", "open", "failed"
    pos,            \* how far it has read the directory
    zipTail,        \* the cached tail
    zipTailSize,
    completeBytes,  \* the complete copy: "none", "blank" (not filled) or "full"
    requests,       \* remote requests made
    answer          \* the last ReadAt call and how it ended

vars == <<archive, stage, pos, zipTail, zipTailSize, completeBytes, requests, answer>>

Blank == [lo |-> -5, hi |-> -5]      \* zero bytes of a buffer never filled
NoTail == [lo |-> -6, hi |-> -6]     \* zipTail == nil

NoAnswer == [off |-> 0, len |-> 0, run |-> NoBytes, err |-> "none"]

Length == archive.size

Init ==
    /\ archive \in Archives
    /\ stage = "end1"
    /\ pos = archive.dir
    /\ zipTail = NoTail
    /\ zipTailSize = TailSize
    /\ completeBytes = "none"
    /\ requests = 0
    /\ answer = NoAnswer

-----------------------------------------------------------------------------
(* ReadAt(p, off) for len(p) = len, with result and error: "ok", "eof" or  *)
(* "error".                                                                *)

Answer(off, len, run, err, result, error) ==
    /\ run = result
    /\ err = error
    /\ answer' = [off |-> off, len |-> len, run |-> run, err |-> err]

\* Mutant: every read starts at the beginning of the copy.
FromCompleteStart(off, len, run, err) ==
    /\ archive.whole
    /\ completeBytes # "none"
    /\ Answer(off, len, run, err,
              IF completeBytes = "full" THEN Run(0, len) ELSE Blank, "ok")
    /\ UNCHANGED <<zipTail, zipTailSize, completeBytes, requests>>

\* The complete copy is there, or taken to be there: its length is what is
\* tested, and it has its length before it is filled.
FromComplete(off, len, run, err) ==
    /\ archive.whole
    /\ completeBytes # "none"
    /\ Answer(off, len, run, err,
              IF completeBytes = "full" THEN Run(off, off + len) ELSE Blank, "ok")
    /\ UNCHANGED <<zipTail, zipTailSize, completeBytes, requests>>

\* The first read fetches the archive, into a buffer that is the copy already.
FetchComplete(off, len, run, err) ==
    /\ archive.whole
    /\ completeBytes = "none"
    /\ requests' = requests + 1
    /\ \/ /\ completeBytes' = "full"
          /\ Answer(off, len, run, err, Run(off, off + len), "ok")
       \/ /\ archive.faults                          \* no response
          /\ completeBytes' = "none"
          /\ Answer(off, len, run, err, NoBytes, "error")
       \/ /\ archive.faults                          \* an empty or a partial one
          /\ completeBytes' = "blank"
          /\ \E e \in {"eof", "error"} : Answer(off, len, run, err, NoBytes, e)
    /\ UNCHANGED <<zipTail, zipTailSize>>

\* Mutant: the tail is extended but the old one is kept.
TailForKeep(off) ==
    [tail |-> zipTail,
     size |-> IF off < Length - zipTailSize THEN Length - off ELSE zipTailSize]

\* The tail to be used for offset off: when it starts behind off it is dropped
\* and made longer.
TailFor(off) ==
    IF off < Length - zipTailSize
    THEN [tail |-> NoTail, size |-> Length - off]
    ELSE [tail |-> zipTail, size |-> zipTailSize]

\* r.zipTail[newOff : newOff+len(p)]
OfTail(tail, size, off, len) ==
    Run(tail.lo + off - (Length - size), tail.lo + off - (Length - size) + len)

FromTail(off, len, run, err) ==
    /\ ~archive.whole
    /\ TailFor(off).tail # NoTail
    /\ zipTail' = TailFor(off).tail
    /\ zipTailSize' = TailFor(off).size
    /\ Answer(off, len, run, err, OfTail(zipTail', zipTailSize', off, len), "ok")
    /\ UNCHANGED <<completeBytes, requests>>

\* A request that starts before the archive is answered with io.EOF.
FetchTail(off, len, run, err) ==
    LET size == TailFor(off).size
        start == Length - size
    IN  /\ ~archive.whole
        /\ TailFor(off).tail = NoTail
        /\ zipTailSize' = size
        /\ requests' = requests + 1
        /\ \/ /\ start >= 0
              /\ zipTail' = Run(start, Length)
              /\ Answer(off, len, run, err, OfTail(zipTail', size, off, len), "ok")
           \/ /\ start < 0 \/ archive.faults
              /\ zipTail' = NoTail
              /\ \E e \in (IF start < 0 THEN {"eof"} ELSE {"eof", "error"}) :
                    Answer(off, len, run, err, NoBytes, e)
        /\ UNCHANGED completeBytes

ReadAt(off, len, run, err) ==
    \/ FromComplete(off, len, run, err)
    \/ FetchComplete(off, len, run, err)
    \/ FromTail(off, len, run, err)
    \/ FetchTail(off, len, run, err)

-----------------------------------------------------------------------------
(* The zip reader.                                                         *)

Results == Runs(Length) \union {Blank, NoBytes}
Errors == {"ok", "eof", "error"}

\* The end record is looked for in the last block bytes; io.EOF is no error.
FindEnd(block, next) ==
    LET len == MinOf(block, Length)
        off == Length - len
    IN  \E run \in Results, err \in Errors :
          /\ ReadAt(off, len, run, err)
          /\ stage' = IF err = "error" THEN "failed"
                      ELSE IF run = Run(off, Length) /\ archive.end >= off THEN "dir"
                      ELSE IF len = Length THEN "failed" ELSE next
          /\ UNCHANGED <<archive, pos>>

FindEnd1 == stage = "end1" /\ FindEnd(EndBlock1, "end2")
FindEnd2 == stage = "end2" /\ FindEnd(EndBlock2, "failed")

ReadDirectory ==
    /\ stage = "dir"
    /\ LET len == MinOf(Chunk, Length - pos)
       IN  \E run \in Results, err \in Errors :
             /\ ReadAt(pos, len, run, err)
             /\ pos' = IF err = "ok" THEN pos + len ELSE pos
             /\ stage' = IF err # "ok" THEN "failed"
                         ELSE IF pos + len >= archive.end THEN "open" ELSE "dir"
             /\ UNCHANGED archive

Next == FindEnd1 \/ FindEnd2 \/ ReadDirectory

\* The zip reader goes on as long as it is answered.
Spec == Init /\ [][Next]_vars /\ WF_vars(Next)

-----------------------------------------------------------------------------
(* Properties.                                                             *)

\* Every ReadAt that succeeds returns the archive's bytes at its offset, whether
\* or not the tail was extended in between.  The one exception is a complete copy
\* whose first fetch broke off: the next read is served from the unfilled buffer.
\* However long the central directory is, opening an archive on a healthy server
\* costs two requests at most.
AnswersExact ==
    /\ answer.err = "ok" =>
           \/ answer.run = Run(answer.off, answer.off + answer.len)
           \/ archive.whole /\ archive.faults /\ answer.run = Blank
    /\ ~archive.faults => requests <= 2

\* On a healthy server an archive opens if it is fetched as a whole or no shorter
\* than the tail asked for first (a shorter one is refused for ever).
Opens ==
    ~archive.faults /\ (archive.whole \/ Length >= TailSize) ~> stage = "open"
=============================================================================
