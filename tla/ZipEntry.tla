------------------------------- MODULE ZipEntry -------------------------------
(***************************************************************************)
(* Reading and streaming an entry of a ZIP archive: gozipArchiveEntry of   *)
(* pkg/archive/archive_zip.go.                                             *)
(*                                                                         *)
(* The entry is shared by all goroutines that read it.  A large deflated   *)
(* entry of a remote archive keeps an index (gi) of the points at which    *)
(* decompression can be taken up.  A read looks up the best point for its  *)
(* range under the mutex, loads the compressed data from that point on     *)
(* without it, and decompresses under the mutex again, with the index as   *)
(* it is then.  The data in front of the point is never loaded: to be      *)
(* taken up there would decompress zeros.                                  *)
(*                                                                         *)
(* Bytes are their offsets, 0 .. Size - 1.  A point is named by its offset *)
(* in the uncompressed data; the compressed offsets ascend with it.        *)
(***************************************************************************)
EXTENDS Integers, Sequences

CONSTANTS
    Readers,     \* goroutines
    Size,        \* uncompressed size
    Interval,    \* distance of the points
    Large,       \* is the size at least ZRandCutoff?
    Chunk,       \* bytes copyRange reads at once
    Kinds,       \* how the entry is stored, and where
    Requests,    \* the ranges asked for, <<start, end>>
    None

AllKinds == [deflated : BOOLEAN, minimize : BOOLEAN, onDisk : BOOLEAN]

ASSUME ZipEntryAssumption ==
    /\ Size \in Nat
    /\ Interval \in Nat \ {0}
    /\ Chunk \in Nat \ {0}
    /\ Large \in BOOLEAN
    /\ Kinds \subseteq AllKinds
    /\ Requests \subseteq Nat \X Nat
    /\ None \notin Readers

VARIABLES
    kind,    \* how this entry is stored
    gi,      \* e.gi: the points known
    gm,      \* the holder of e.gm, or None
    pc,      \* pc[r]: where r is in Read or Stream
    req,     \* req[r]: the range r asks for
    from,    \* from[r]: the point r has loaded the compressed data from
    index,   \* index[r]: the index of r's decompressor
    at,      \* at[r]: the position of r's stream in the entry
    out,     \* out[r]: the bytes r has been given, or its writer has taken
    ans      \* ans[r]: the count and the error of r's last call

vars == <<kind, gi, gm, pc, req, from, index, at, out, ans>>

Offsets == 0 .. Size - 1
Points == {p \in Offsets : p > 0 /\ p % Interval = 0}

Lesser(a, b) == IF a < b THEN a ELSE b

\* The largest of a finite set of offsets.
Greatest(S) == CHOOSE m \in S : \A n \in S : n <= m

Whole(q) == q = <<0, 0>>

\* The first and the last byte of a range, clamped.
First(q) == q[1]

Last(q) == IF Whole(q) THEN Size - 1 ELSE Lesser(q[2], Size - 1)

\* n bytes from offset a on.
Bytes(a, n) == [i \in 1 .. n |-> a + i - 1]

\* What a range asks for: nothing if it starts behind the end.
Content(q) == IF First(q) > Last(q) THEN <<>> ELSE Bytes(First(q), Last(q) - First(q) + 1)

\* What comes of decompressing zeros.
Garbage(q) == [i \in DOMAIN Content(q) |-> -1]

Answer(n, err) == [n |-> n, err |-> err]

Init ==
    /\ kind \in Kinds
    /\ gi = {}
    /\ gm = None
    /\ pc = [r \in Readers |-> "idle"]
    /\ req = [r \in Readers |-> <<0, 0>>]
    /\ from = [r \in Readers |-> 0]
    /\ index = [r \in Readers |-> {}]
    /\ at = [r \in Readers |-> 0]
    /\ out = [r \in Readers |-> <<>>]
    /\ ans = [r \in Readers |-> Answer(0, "none")]

Goto(r, label) == pc' = [pc EXCEPT ![r] = label]
Deliver(r, data) == out' = [out EXCEPT ![r] = data]
Say(r, n, err) == ans' = [ans EXCEPT ![r] = Answer(n, err)]
Return(r, n, err) == Goto(r, "idle") /\ Say(r, n, err)

\* couldMinimizeReads
CouldMinimize == kind.minimize /\ kind.deflated

\* A read that uses the index: of a large entry, and not of all of it.
UsesIndex(q) ==
    /\ CouldMinimize
    /\ Large
    /\ ~(First(q) = 0 /\ Last(q) \in {0, Size - 1})

\* Mutant: the best point is the last one.
StartingPointLast(start) == Greatest({0} \union gi)

\* The point the compressed data is loaded from.
StartingPoint(start) == Greatest({0} \union {p \in gi : p <= start})

\* A read that is answered without the index.
ReadPlain(r, q) ==
    /\ UNCHANGED from
    /\ \/ /\ q[2] < q[1]
          /\ Deliver(r, <<>>) /\ Return(r, 0, "range")
       \/ /\ q[2] >= q[1] /\ ~Whole(q) /\ q[1] >= Size
          /\ Deliver(r, <<>>) /\ Return(r, 0, "eof")
       \/ /\ q[2] >= q[1] /\ (Whole(q) \/ q[1] < Size) /\ ~UsesIndex(q)
          /\ \/ Deliver(r, Content(q)) /\ Return(r, Len(Content(q)), "ok")
             \/ Deliver(r, <<>>) /\ Return(r, 0, "failed")

\* A read that uses the index looks the starting point up.
ReadIndexed(r, q) ==
    /\ q[2] >= q[1] /\ ~Whole(q) /\ q[1] < Size /\ UsesIndex(q)
    /\ gm = None
    /\ from' = [from EXCEPT ![r] = StartingPoint(q[1])]
    /\ Deliver(r, <<>>)
    /\ Goto(r, "load")
    /\ UNCHANGED ans

Read(r, q) ==
    /\ pc[r] = "idle"
    /\ req' = [req EXCEPT ![r] = q]
    /\ ReadPlain(r, q) \/ ReadIndexed(r, q)
    /\ UNCHANGED <<kind, gi, gm, index, at>>

\* The compressed data is loaded, from the starting point to its end.
Load(r) ==
    /\ pc[r] = "load"
    /\ \/ Goto(r, "lock") /\ UNCHANGED <<from, ans>>
       \/ Return(r, 0, "failed") /\ from' = [from EXCEPT ![r] = 0]
    /\ UNCHANGED <<kind, gi, gm, req, index, at, out>>

\* Mutant: the decompressor does not take the index over.
LockFresh(r) ==
    /\ pc[r] = "lock"
    /\ gm = None
    /\ gm' = r
    /\ index' = [index EXCEPT ![r] = {}]
    /\ Goto(r, "inflate")
    /\ UNCHANGED <<kind, gi, req, from, at, out, ans>>

\* The mutex again; the decompressor takes the index over.
Lock(r) ==
    /\ pc[r] = "lock"
    /\ gm = None
    /\ gm' = r
    /\ index' = [index EXCEPT ![r] = gi]
    /\ Goto(r, "inflate")
    /\ UNCHANGED <<kind, gi, req, from, at, out, ans>>

\* External: zran takes decompression up at the closest point of its index.
TakenUpAt(r) == Greatest({0} \union {p \in index[r] : p <= First(req[r])})

\* External: it adds the points it comes past, up to an offset.
Extended(r, last) == index[r] \union {p \in Points : p <= last}

\* Mutant: a decompression that fails returns with the mutex held.
InflateLocked(r) ==
    /\ pc[r] = "inflate"
    /\ \/ /\ index' = [index EXCEPT ![r] = Extended(r, Last(req[r]))]
          /\ Deliver(r, Content(req[r]))
          /\ Say(r, Len(Content(req[r])), "ok")
          /\ Goto(r, "unlock")
       \/ UNCHANGED <<index, out>> /\ Return(r, 0, "failed")
    /\ UNCHANGED <<kind, gi, gm, req, from, at>>

\* Seek to the start and read, which damaged data make fail at any offset.
Inflate(r) ==
    /\ pc[r] = "inflate"
    /\ \/ /\ index' = [index EXCEPT ![r] = Extended(r, Last(req[r]))]
          /\ Deliver(r, IF TakenUpAt(r) >= from[r] THEN Content(req[r]) ELSE Garbage(req[r]))
          /\ Say(r, Len(Content(req[r])), "ok")
       \/ /\ \E last \in {p \in Offsets : p <= Last(req[r])} :
                index' = [index EXCEPT ![r] = Extended(r, last)]
          /\ Say(r, 0, "failed")
          /\ UNCHANGED out
    /\ Goto(r, "unlock")
    /\ UNCHANGED <<kind, gi, gm, req, from, at>>

\* The deferred calls: the index is stored, the mutex released; the locals end
\* with the call.
Unlock(r) ==
    /\ pc[r] = "unlock"
    /\ gi' = index[r]
    /\ gm' = None
    /\ from' = [from EXCEPT ![r] = 0]
    /\ index' = [index EXCEPT ![r] = {}]
    /\ Goto(r, "idle")
    /\ UNCHANGED <<kind, req, at, out, ans>>

\* Stored entries are streamed from the archive file itself, if there is one.
RawFile == ~kind.deflated /\ kind.onDisk

\* Bytes of the range that the writer has not taken.
Left(r) == Last(req[r]) - (First(req[r]) + Len(out[r])) + 1

\* Stream is called.  A stored entry is opened at the start of the range; the
\* bytes of a deflated one are discarded up to there, and the number of those
\* is what a failure to get there returns.
Stream(r, q) ==
    /\ pc[r] = "idle"
    /\ req' = [req EXCEPT ![r] = q]
    /\ Deliver(r, <<>>)
    /\ \/ /\ q[2] < q[1]
          /\ Return(r, -1, "range") /\ UNCHANGED at
       \/ /\ q[2] >= q[1]
          /\ Return(r, -1, "failed") /\ UNCHANGED at
       \/ /\ q[2] >= q[1] /\ kind.deflated /\ q[1] > 0
          /\ \E n \in 0 .. Lesser(q[1], Size) :
                Return(r, n, IF n = Size /\ q[1] > Size THEN "eof" ELSE "failed")
          /\ UNCHANGED at
       \/ /\ q[2] >= q[1] /\ (kind.deflated => q[1] <= Size)
          /\ at' = [at EXCEPT ![r] = q[1]]
          /\ Goto(r, "copy") /\ UNCHANGED ans
    /\ UNCHANGED <<kind, gi, gm, from, index>>

\* copyRange: a chunk is read and written.  The read may fail, and the writer
\* may take less: both end the stream.
Copy(r) ==
    /\ pc[r] = "copy"
    /\ Left(r) > 0
    /\ LET chunk == Lesser(Chunk, Left(r))
       IN  \/ /\ Deliver(r, out[r] \o Bytes(at[r], chunk))
              /\ at' = [at EXCEPT ![r] = @ + chunk]
              /\ UNCHANGED <<pc, ans>>
           \/ /\ \E n \in 0 .. chunk :
                    /\ Deliver(r, out[r] \o Bytes(at[r], n))
                    /\ Return(r, Len(out[r]) + n, "failed")
              /\ at' = [at EXCEPT ![r] = 0]
    /\ UNCHANGED <<kind, gi, gm, req, from, index>>

\* The end of the range, or of the data.  The latter is an error only when
\* nothing was written, and not even that for an archive file.
CopyDone(r) ==
    /\ pc[r] = "copy"
    /\ Left(r) <= 0
    /\ Return(r, Len(out[r]), IF Whole(req[r]) \/ out[r] # <<>> \/ RawFile THEN "ok" ELSE "eof")
    /\ at' = [at EXCEPT ![r] = 0]
    /\ UNCHANGED <<kind, gi, gm, req, from, index, out>>

Step(r) == Load(r) \/ Lock(r) \/ Inflate(r) \/ Unlock(r) \/ Copy(r) \/ CopyDone(r)

Next ==
    \E r \in Readers :
        \/ \E q \in Requests : Read(r, q) \/ Stream(r, q)
        \/ Step(r)

Spec == Init /\ [][Next]_vars

\* A goroutine that can go on does; a mutex of Go does not starve who waits.
FairSpec == Spec /\ \A r \in Readers : WF_vars(Step(r)) /\ SF_vars(Lock(r))

-----------------------------------------------------------------------------
(* Properties.                                                             *)

\* What a call delivers is the beginning of its range, without a gap and never
\* from data that was not loaded; a call that succeeds delivers all of it and
\* counts it right.
ReadsExact ==
    \A r \in Readers :
        /\ out[r] = SubSeq(Content(req[r]), 1, Len(out[r]))
        /\ ans[r].err = "ok" /\ pc[r] = "idle" =>
              out[r] = Content(req[r]) /\ ans[r].n = Len(out[r])

\* Who has looked a starting point up finds it again when it comes back with
\* the data, whatever other readers did: the index only grows.
IndexGrows == [][gi \subseteq gi']_vars

\* One decompressor at a time works on the index, and works on all of it.
IndexOwned ==
    \A r \in Readers : pc[r] \in {"inflate", "unlock"} => gm = r /\ gi \subseteq index[r]

\* Every call returns.
CallsReturn == \A r \in Readers : pc[r] # "idle" ~> pc[r] = "idle"
=============================================================================
