------------------------------ MODULE ReadCache ------------------------------
(***************************************************************************)
(* The block cache an audio file is probed through: readCache of           *)
(* pkg/parser/audio/readcache.go.                                          *)
(*                                                                         *)
(* Several goroutines call Read (chapter-title runs are fetched in         *)
(* parallel).  The mutex guards each look-up and each store of the block   *)
(* map, never a whole Read: between hasBlock, the remote read, the store   *)
(* and the assembly other readers move.  Each of these is one action here. *)
(*                                                                         *)
(* The resource below holds Actual bytes.  Size is the length the cache    *)
(* was built with, a hint that may differ from Actual (resource.go, the    *)
(* comment of Length).  A read below may also fail, when Faults.           *)
(***************************************************************************)
EXTENDS ByteRange

CONSTANTS
    Readers,     \* goroutines calling Read
    Requests,    \* the inclusive ranges <<start, end>> they call it with
    Size,        \* readCache.size
    Actual,      \* bytes the wrapped resource holds
    BlockSize,   \* readCache.blockSize
    Faults       \* may the wrapped resource fail a read?

ASSUME ReadCacheAssumption ==
    /\ Size \in Nat
    /\ Actual \in Nat
    /\ BlockSize \in Nat \ {0}
    /\ Faults \in BOOLEAN
    /\ Requests \subseteq Nat \X Nat

VARIABLES
    blocks,   \* readCache.blocks: from the cached block numbers to their bytes
    pc,       \* pc[r]: where r is in Read
    req,      \* req[r]: the range r asked for
    last,     \* last[r]: lastBlock
    cur,      \* cur[r]: the loop variable b of fetch
    run,      \* run[r]: runStart of the run being fetched
    got,      \* got[r]: data, what the wrapped resource returned
    outcome,  \* outcome[r]: how the last Read of r ended
    pieces    \* pieces[r]: what the assembly copied out of each block

vars == <<blocks, pc, req, last, cur, run, got, outcome, pieces>>

-----------------------------------------------------------------------------
(* Blocks and the wrapped resource.                                        *)

Blocks == 0 .. (Size - 1) \div BlockSize

Base(b) == b * BlockSize

Start(r) == req[r][1]

\* The end of the range, clamped to the known size.
End(r) == MinOf(req[r][2], Size - 1)

FirstBlock(r) == Start(r) \div BlockSize

LastBlock(r) == End(r) \div BlockSize

\* Mutant: the (0, 0) convention is forgotten.
BypassesNoWhole(r) == Size = 0 \/ req[r][2] < req[r][1]

\* Whole-resource reads, inverted ranges and resources of unknown or no length
\* are not served from blocks.
Bypasses(r) ==
    \/ req[r][1] = 0 /\ req[r][2] = 0
    \/ Size = 0
    \/ req[r][2] < req[r][1]

\* What Resource.Read(lo, hi) can return without an error: nothing for an
\* inverted range, the whole content for (0, 0), else the range clamped to the
\* bytes there are.
RawData(lo, hi) ==
    IF hi < lo
    THEN {}
    ELSE IF lo = 0 /\ hi = 0
         THEN {Run(0, Actual)}
         ELSE {Run(MinOf(lo, Actual), MinOf(hi + 1, Actual))}

RawMayFail(lo, hi) == Faults \/ hi < lo

\* endOff of the run run[r] .. cur[r] - 1.
RunEnd(r) == MinOf(Base(cur[r]) - 1, Size - 1)

-----------------------------------------------------------------------------
Init ==
    /\ blocks = [b \in {} |-> NoBytes]
    /\ pc = [r \in Readers |-> "idle"]
    /\ req = [r \in Readers |-> <<0, 0>>]
    /\ last = [r \in Readers |-> 0]
    /\ cur = [r \in Readers |-> 0]
    /\ run = [r \in Readers |-> 0]
    /\ got = [r \in Readers |-> NoBytes]
    /\ outcome = [r \in Readers |-> "none"]
    /\ pieces = [r \in Readers |-> [b \in {} |-> NoBytes]]

\* A goroutine calls Read.
Call(r) ==
    /\ pc[r] = "idle"
    /\ \E q \in Requests : req' = [req EXCEPT ![r] = q]
    /\ pc' = [pc EXCEPT ![r] = "called"]
    /\ outcome' = [outcome EXCEPT ![r] = "none"]
    /\ pieces' = [pieces EXCEPT ![r] = [b \in {} |-> NoBytes]]
    /\ got' = [got EXCEPT ![r] = NoBytes]
    /\ UNCHANGED <<blocks, last, cur, run>>

Return(r, how) ==
    /\ pc' = [pc EXCEPT ![r] = "idle"]
    /\ outcome' = [outcome EXCEPT ![r] = how]

\* return c.Resource.Read(ctx, start, end)
Bypass(r) ==
    /\ pc[r] = "called"
    /\ Bypasses(r)
    /\ \/ \E data \in RawData(req[r][1], req[r][2]) :
            /\ got' = [got EXCEPT ![r] = data]
            /\ Return(r, "whole")
       \/ /\ RawMayFail(req[r][1], req[r][2])
          /\ got' = got
          /\ Return(r, "error")
    /\ UNCHANGED <<blocks, req, last, cur, run, pieces>>

\* A range that starts past the end is empty.
PastEnd(r) ==
    /\ pc[r] = "called"
    /\ ~Bypasses(r)
    /\ Start(r) >= Size
    /\ Return(r, "pieces")
    /\ UNCHANGED <<blocks, req, last, cur, run, got, pieces>>

Enter(r) ==
    /\ pc[r] = "called"
    /\ ~Bypasses(r)
    /\ Start(r) < Size
    /\ last' = [last EXCEPT ![r] = LastBlock(r)]
    /\ cur' = [cur EXCEPT ![r] = FirstBlock(r)]
    /\ pc' = [pc EXCEPT ![r] = "scan"]
    /\ UNCHANGED <<blocks, req, run, got, outcome, pieces>>

\* Mutant: b++ is missing for a cached block.
ScanStuck(r) ==
    /\ pc[r] = "scan"
    /\ IF cur[r] > last[r]
       THEN pc' = [pc EXCEPT ![r] = "assemble"] /\ UNCHANGED run
       ELSE IF cur[r] \in DOMAIN blocks
            THEN UNCHANGED <<pc, run>>
            ELSE run' = [run EXCEPT ![r] = cur[r]] /\ pc' = [pc EXCEPT ![r] = "extend"]
    /\ UNCHANGED <<blocks, req, last, cur, got, outcome, pieces>>

\* The outer loop of fetch: skip a cached block, start a run at a missing one.
Scan(r) ==
    /\ pc[r] = "scan"
    /\ \/ /\ cur[r] > last[r]
          /\ pc' = [pc EXCEPT ![r] = "assemble"]
          /\ UNCHANGED <<cur, run>>
       \/ /\ cur[r] <= last[r]
          /\ cur[r] \in DOMAIN blocks
          /\ cur' = [cur EXCEPT ![r] = cur[r] + 1]
          /\ UNCHANGED <<pc, run>>
       \/ /\ cur[r] <= last[r]
          /\ cur[r] \notin DOMAIN blocks
          /\ run' = [run EXCEPT ![r] = cur[r]]
          /\ pc' = [pc EXCEPT ![r] = "extend"]
          /\ UNCHANGED cur
    /\ UNCHANGED <<blocks, req, last, got, outcome, pieces>>

\* The inner loop: it asks hasBlock again, from the first block of the run on.
Extend(r) ==
    /\ pc[r] = "extend"
    /\ IF cur[r] <= last[r] /\ cur[r] \notin DOMAIN blocks
       THEN cur' = [cur EXCEPT ![r] = cur[r] + 1] /\ UNCHANGED pc
       ELSE pc' = [pc EXCEPT ![r] = "read"] /\ UNCHANGED cur
    /\ UNCHANGED <<blocks, req, last, run, got, outcome, pieces>>

\* data, err := c.Resource.Read(ctx, off, endOff), without the lock.
ReadRun(r) ==
    /\ pc[r] = "read"
    /\ \/ \E data \in RawData(Base(run[r]), RunEnd(r)) :
            /\ got' = [got EXCEPT ![r] = data]
            /\ pc' = [pc EXCEPT ![r] = "store"]
            /\ UNCHANGED outcome
       \/ /\ RawMayFail(Base(run[r]), RunEnd(r))
          /\ Return(r, "error")
          /\ UNCHANGED got
    /\ UNCHANGED <<blocks, req, last, cur, run, pieces>>

\* Mutant: the offset is taken from the resource, not from the run.
CutAbsolute(data, first, b) ==
    Slice(data, Base(b), MinOf(Base(b) + BlockSize, RunLen(data)))

\* The bytes of block b within the data of a run that starts at block first.
Cut(data, first, b) ==
    LET lo == Base(b - first)
    IN  IF lo >= RunLen(data)
        THEN NoBytes
        ELSE Slice(data, lo, MinOf(lo + BlockSize, RunLen(data)))

StoreRun(r) ==
    /\ pc[r] = "store"
    /\ LET stored == run[r] .. cur[r] - 1
       IN  blocks' = [b \in DOMAIN blocks \union stored |->
                         IF b \in stored THEN Cut(got[r], run[r], b)
                                         ELSE blocks[b]]
    /\ pc' = [pc EXCEPT ![r] = "scan"]
    /\ UNCHANGED <<req, last, cur, run, got, outcome, pieces>>

\* Mutant: the inclusive end is taken for an exclusive one.
PieceShort(r, b) ==
    LET blk == IF b \in DOMAIN blocks THEN blocks[b] ELSE NoBytes
        lo == MaxOf(Start(r) - Base(b), 0)
        hi == MinOf(End(r) - Base(b), RunLen(blk))
    IN  Slice(blk, lo, hi)

\* blk[lo:hi] of block b, clipped to the range of r; a block missing from the
\* map contributes nothing.
Piece(r, b) ==
    LET blk == IF b \in DOMAIN blocks THEN blocks[b] ELSE NoBytes
        lo == MaxOf(Start(r) - Base(b), 0)
        hi == MinOf(End(r) - Base(b) + 1, RunLen(blk))
    IN  Slice(blk, lo, hi)

\* The copy loop of Read, under the read lock.
Assemble(r) ==
    /\ pc[r] = "assemble"
    /\ pieces' = [pieces EXCEPT ![r] =
                    [b \in FirstBlock(r) .. last[r] |-> Piece(r, b)]]
    /\ Return(r, "pieces")
    /\ UNCHANGED <<blocks, req, last, cur, run, got>>

Step(r) ==
    \/ Bypass(r)
    \/ PastEnd(r)
    \/ Enter(r)
    \/ Scan(r)
    \/ Extend(r)
    \/ ReadRun(r)
    \/ StoreRun(r)
    \/ Assemble(r)

Next == \E r \in Readers : Call(r) \/ Step(r)

Spec == Init /\ [][Next]_vars

\* A goroutine inside Read is scheduled until it returns.
FairSpec == Spec /\ \A r \in Readers : WF_vars(Step(r))

-----------------------------------------------------------------------------
(* Properties.                                                             *)

Locations == {"idle", "called", "scan", "extend", "read", "store", "assemble"}

Outcomes == {"none", "error", "whole", "pieces"}

\* Every variable has its type; blocks is a partial map of the block numbers.
TypeOK ==
    /\ DOMAIN blocks \subseteq Blocks
    /\ \A b \in DOMAIN blocks : blocks[b] \in Runs(Actual)
    /\ pc \in [Readers -> Locations]
    /\ req \in [Readers -> Nat \X Nat]
    /\ last \in [Readers -> Nat]
    /\ cur \in [Readers -> Nat]
    /\ run \in [Readers -> Nat]
    /\ got \in [Readers -> Runs(Actual)]
    /\ outcome \in [Readers -> Outcomes]
    /\ DOMAIN pieces = Readers

\* The end of the bytes block b can hold.
BlockLimit(b) == MinOf(Base(b) + BlockSize, Actual)

\* Whoever stored a block, in whatever run it was fetched, it holds the bytes of
\* its own offsets, from its first one on, and none is missing up to Size.
BlocksTruthful ==
    \A b \in DOMAIN blocks :
        IF Base(b) < Actual
        THEN /\ blocks[b].lo = Base(b)
             /\ MinOf(BlockLimit(b), Size) <= blocks[b].hi
             /\ blocks[b].hi <= BlockLimit(b)
        ELSE blocks[b] = NoBytes

\* What Read(r) owes for block b of its range.
DuePiece(r, b) ==
    Run(MaxOf(Start(r), Base(b)), MinOf(End(r) + 1, BlockLimit(b)))

\* A Read that was not delegated returns from each block exactly the bytes of
\* the range that lie in it: the blocks it saw cached before it waited for the
\* network are still there, and still right, when it copies them.
ServedExact ==
    \A r \in Readers :
        outcome[r] = "pieces" /\ Start(r) < Size =>
            pieces[r] = [b \in FirstBlock(r) .. LastBlock(r) |-> DuePiece(r, b)]

\* A cached block is never dropped or replaced by other bytes, which is what
\* makes it safe to look it up now and copy it after the lock was released, and
\* to share the map with the publication (snapshot).
BlocksStay ==
    [][\A b \in DOMAIN blocks :
          b \in DOMAIN blocks' /\ blocks'[b] = blocks[b]]_vars

\* "that is harmless": a valid Read fails only when the resource below failed.
FailsOnlyFromBelow ==
    \A r \in Readers :
        outcome[r] = "error" => Faults \/ req[r][2] < req[r][1]

\* Every Read returns: the loops of fetch end, whatever the others store.
ReadReturns == \A r \in Readers : pc[r] = "called" ~> pc[r] = "idle"

-----------------------------------------------------------------------------
(* Read implements the abstract range server.                              *)

Abstract == INSTANCE RangeServer WITH
    Whole <- Actual,
    Visible <- IF Size = 0 THEN Actual ELSE MinOf(Size, Actual),
    asked <- [r \in Readers |-> IF pc[r] = "idle" THEN <<>> ELSE req[r]],
    answer <- [r \in Readers |->
                 CASE outcome[r] = "none" -> [lo |-> -2, hi |-> -2]
                   [] outcome[r] = "error" -> [lo |-> -1, hi |-> -1]
                   [] outcome[r] = "whole" -> got[r]
                   [] outcome[r] = "pieces" -> Joined(pieces[r])]

\* Every answer a Read gives is one the plain in-memory resource could give.
ImplementsRangeServer == Abstract!RSSpec
=============================================================================
