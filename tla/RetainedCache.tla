---------------------------- MODULE RetainedCache ----------------------------
(***************************************************************************)
(* Serving an audio file with the blocks its probe left in memory:         *)
(* retainedCache and cachedResource of pkg/parser/audio/servecache.go.     *)
(*                                                                         *)
(* The snapshot of a ReadCache stays attached to the publication.  A Read  *)
(* whose range is covered is answered from it, a Stream is answered from   *)
(* it as far as the cached run of bytes reaches and from the resource      *)
(* below for the rest.  The blocks never change any more, so requests do   *)
(* not disturb each other, and one client that asks again and again stands *)
(* for all of them.  The resource below and the client's connection may    *)
(* fail at any byte.                                                       *)
(*                                                                         *)
(* A snapshot has at least one block and a positive size (snapshot in      *)
(* readcache.go); what a block holds is what ReadCache's BlocksTruthful    *)
(* says of it.                                                             *)
(***************************************************************************)
EXTENDS ByteRange, Sequences, FiniteSets

CONSTANTS
    Requests,    \* the inclusive ranges <<start, end>> asked for
    Size,        \* retainedCache.size, a hint
    Actual,      \* bytes the resource below holds
    BlockSize    \* retainedCache.blockSize

\* Assumed of the constants by whoever instantiates this module.
RetainedCacheAssumption ==
    /\ Size \in Nat \ {0}
    /\ Actual \in Nat
    /\ BlockSize \in Nat \ {0}
    /\ Requests \subseteq Nat \X Nat

VARIABLES
    cache,   \* retainedCache.blocks
    pc,      \* "idle", or the operation: "read", "stream", "rest"
    req,     \* the range asked for
    sent,    \* bytes returned by Read, or written to the client by Stream
    below,   \* requests made of the resource below during the call: the
             \* operation and the offset it starts at
    ret      \* how the call ended: "none", "ok", "error", "panic"

vars == <<cache, pc, req, sent, below, ret>>

Base(b) == b * BlockSize
Blocks == 0 .. (Size - 1) \div BlockSize

\* What block b can hold.
BlockContents(b) ==
    {Run(Base(b), hi) :
        hi \in MinOf(MinOf(Base(b) + BlockSize, Actual), Size)
               .. MaxOf(Base(b), MinOf(Base(b) + BlockSize, Actual))}

Snapshots ==
    {c \in UNION {[D -> UNION {BlockContents(b) : b \in D}] : D \in SUBSET Blocks \ {{}}} :
        \A b \in DOMAIN c : c[b] \in BlockContents(b)}

\* normalize: (0, 0) is the whole resource, up to the known size.
Normalize(q) == IF q[1] = 0 /\ q[2] = 0 THEN <<0, Size - 1>> ELSE q

Clamped(e) == MinOf(e, Size - 1)

\* len(c.blocks[b]), nothing being cached counting as an empty block.
Held(b) == IF b \in DOMAIN cache THEN RunLen(cache[b]) ELSE 0

\* slice finds every block of the range, and enough bytes in it.
Covers(s, e) ==
    /\ e >= s
    /\ \A b \in s \div BlockSize .. Clamped(e) \div BlockSize :
          /\ b \in DOMAIN cache
          /\ Held(b) > MinOf(Clamped(e) - Base(b), BlockSize - 1)

\* Mutant: the inclusive end is taken for an exclusive one.
CopiedShort(s, e) ==
    Joined([b \in s \div BlockSize .. e \div BlockSize |->
              Slice(cache[b], MaxOf(s - Base(b), 0), MinOf(e - Base(b), Held(b)))])

\* The bytes s .. e copied out of the blocks.
Copied(s, e) ==
    Joined([b \in s \div BlockSize .. e \div BlockSize |->
              Slice(cache[b], MaxOf(s - Base(b), 0), MinOf(e - Base(b) + 1, Held(b)))])

\* prefix: the end of the cached run of bytes that begins at s < Size.
PrefixEnd(s, e) ==
    LET limit == Clamped(e)
        walk[pos \in 0 .. Size] ==
            LET b == pos \div BlockSize
                hi == MinOf(limit - Base(b) + 1, Held(b))
            IN  IF pos > limit \/ b \notin DOMAIN cache \/ pos - Base(b) >= hi
                THEN pos
                ELSE IF hi < Held(b) \/ Base(b) + hi > limit
                     THEN Base(b) + hi
                     ELSE walk[Base(b) + hi]
    IN  walk[s]

Prefix(s, e) ==
    IF e < s \/ s >= Size \/ PrefixEnd(s, e) = s
    THEN NoBytes
    ELSE Copied(s, PrefixEnd(s, e) - 1)

\* What the resource below has for a range: the whole content for (0, 0), else
\* the range clamped to the bytes there are.
RawData(q) ==
    IF q[1] = 0 /\ q[2] = 0
    THEN Run(0, Actual)
    ELSE Run(MinOf(q[1], Actual), MinOf(q[2] + 1, Actual))

Inverted(q) == q[2] < q[1]

\* The runs a stream of run can be cut off at.
CutOff(run) == {Run(run.lo, hi) : hi \in run.lo .. run.hi}

-----------------------------------------------------------------------------
Init ==
    /\ cache \in Snapshots
    /\ pc = "idle"
    /\ req = <<0, 0>>
    /\ sent = NoBytes
    /\ below = <<>>
    /\ ret = "none"

Call ==
    /\ pc = "idle"
    /\ req' \in Requests
    /\ pc' \in {"read", "stream"}
    /\ sent' = NoBytes
    /\ below' = <<>>
    /\ ret' = "none"
    /\ UNCHANGED cache

Return(how) == pc' = "idle" /\ ret' = how

Lo == Normalize(req)[1]
Hi == Normalize(req)[2]

\* Read from memory; make([]byte, 0, end-start+1) has a negative capacity when
\* the range starts behind the end.
ReadCached ==
    /\ pc = "read"
    /\ Covers(Lo, Hi)
    /\ IF Lo > Size
       THEN sent' = sent /\ Return("panic")
       ELSE /\ sent' = IF Lo = Size THEN NoBytes ELSE Copied(Lo, Clamped(Hi))
            /\ Return("ok")
    /\ UNCHANGED <<cache, req, below>>

\* Read of the resource below, with the range as it was asked for.
ReadBelow ==
    /\ pc = "read"
    /\ ~Covers(Lo, Hi)
    /\ below' = Append(below, [op |-> "read", start |-> req[1]])
    /\ \/ ~Inverted(req) /\ sent' = RawData(req) /\ Return("ok")
       \/ sent' = sent /\ Return("error")
    /\ UNCHANGED <<cache, req>>

\* Stream writes the cached prefix; the client may be gone.
StreamPrefix ==
    /\ pc = "stream"
    /\ Prefix(Lo, Hi) # NoBytes
    /\ \/ /\ sent' = Prefix(Lo, Hi)
          /\ IF Lo + RunLen(sent') > Hi
             THEN Return("ok")
             ELSE pc' = "rest" /\ UNCHANGED ret
       \/ /\ sent' \in CutOff(Prefix(Lo, Hi))
          /\ Return("error")
    /\ UNCHANGED <<cache, req, below>>

\* A Stream of the resource below: all of it, or cut off.
Below(q) ==
    /\ below' = Append(below, [op |-> "stream", start |-> q[1]])
    /\ \/ ~Inverted(q) /\ sent' = Appended(sent, RawData(q)) /\ Return("ok")
       \/ /\ \E run \in CutOff(RawData(q)) : sent' = Appended(sent, run)
          /\ Return("error")
    /\ UNCHANGED <<cache, req>>

\* Nothing of the range is cached: it is passed on as it was asked for.
StreamBelow ==
    /\ pc = "stream"
    /\ Prefix(Lo, Hi) = NoBytes
    /\ Below(req)

\* Mutant: the remainder starts where the range starts.
StreamRestAgain ==
    /\ pc = "rest"
    /\ Below(<<Lo, Hi>>)

\* The remainder.
StreamRest ==
    /\ pc = "rest"
    /\ Below(<<Lo + RunLen(sent), Hi>>)

Step == ReadCached \/ ReadBelow \/ StreamPrefix \/ StreamBelow \/ StreamRest

Next == Call \/ Step

Spec == Init /\ [][Next]_vars

-----------------------------------------------------------------------------
(* Properties.                                                             *)

\* Byte i is in memory.
Cached(i) == i - Base(i \div BlockSize) < Held(i \div BlockSize)

\* The resource below is asked once at most: by a Read that memory cannot answer
\* as a whole, by a Stream from the first byte on that memory does not hold.
FetchesOnlyMissing ==
    /\ Len(below) <= 1
    /\ ~Inverted(req) /\ Lo < Size =>
          \A i \in 1 .. Len(below) :
             IF below[i].op = "read"
             THEN \E k \in Lo .. Clamped(Hi) : ~Cached(k)
             ELSE ~Cached(below[i].start)

\* Read and Stream with the cache in front answer as the plain resource does.
Abstract == INSTANCE RangeServer WITH
    Readers <- {"client"},
    Whole <- Actual,
    Visible <- Actual,
    asked <- [r \in {"client"} |-> IF pc = "idle" THEN <<>> ELSE req],
    answer <- [r \in {"client"} |->
                 CASE ret = "none" -> [lo |-> -2, hi |-> -2]
                   [] ret = "error" -> [lo |-> -1, hi |-> -1]
                   [] ret \in {"ok", "panic"} -> sent]

ImplementsRangeServer == Abstract!RSSpec
=============================================================================
