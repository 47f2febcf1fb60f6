--------------------------- MODULE AudioCache_proofs ---------------------------
(***************************************************************************)
(* What the probe of an audio file leaves in memory and what the           *)
(* publication serves from it, for every number of readers, every file,    *)
(* size, block size and set of requests.                                   *)
(*                                                                         *)
(* First the cache that probes fill (ReadCache): the cached blocks are     *)
(* truthful and a Read serves exactly what it owes, so that the cache      *)
(* implements the plain range server: each Read is answered like one of    *)
(* the resource itself (CacheImplementsServer).                            *)
(*                                                                         *)
(* Then the life of its blocks (AudioCache).  While the file is probed the *)
(* invariant is that of ReadCache; from the snapshot on the blocks stay    *)
(* what they are.  A byte is in memory or not (Cached), and the walk over  *)
(* the blocks stops at the first byte that is not (PrefixEndIs): from that *)
(* follow both what a Stream sends and where it asks the resource below to *)
(* go on.                                                                  *)
(***************************************************************************)
EXTENDS AudioCache, Sequences, WellFoundedInduction, TLAPS

-----------------------------------------------------------------------------
(* Arithmetic of blocks.  Each fact is stated once, so that the proofs      *)
(* below never meet a product or a quotient.                                *)

\* The block of an offset starts at or before it and ends after it.
LEMMA DivBounds ==
    ASSUME NEW x \in Nat
    PROVE  /\ x \div BlockSize \in Nat
           /\ Base(x \div BlockSize) <= x
           /\ x < Base(x \div BlockSize) + BlockSize
  BY ReadCacheAssumption, SMT DEF Base

\* Blocks do not overlap.
LEMMA BaseStep ==
    ASSUME NEW a \in Nat, NEW b \in Nat, a < b
    PROVE  Base(a) + BlockSize <= Base(b)
  BY ReadCacheAssumption, SMT DEF Base

\* The first byte of a block.
LEMMA BaseNat ==
    ASSUME NEW a \in Nat
    PROVE  Base(a) \in Nat
  BY ReadCacheAssumption, SMT DEF Base

\* The offset of a block within a run.
LEMMA BaseMinus ==
    ASSUME NEW a \in Nat, NEW b \in Nat, a <= b
    PROVE  Base(b - a) = Base(b) - Base(a)
  BY ReadCacheAssumption, SMT DEF Base

\* A block number is one whose first byte lies below the known size.
LEMMA InBlocks ==
    ASSUME NEW b \in Nat
    PROVE  b \in Blocks <=> Base(b) < Size
  BY ReadCacheAssumption, SMT DEF Base, Blocks

-----------------------------------------------------------------------------
(* The inductive invariant.                                                *)

\* r is past the early returns of Read, with its range fixed.
Inside(r) ==
    /\ ~Bypasses(r)
    /\ Start(r) < Size
    /\ last[r] = LastBlock(r)
    /\ FirstBlock(r) <= cur[r]

\* The blocks first .. n-1 of the range of r are cached.
CachedUpTo(r, n) == \A b \in Nat : FirstBlock(r) <= b /\ b < n => b \in DOMAIN blocks

\* The data of the run that starts at block a and ends before block c.
RunData(a, c) ==
    IF a = 0 /\ MinOf(Base(c) - 1, Size - 1) = 0
    THEN Run(0, Actual)
    ELSE Run(MinOf(Base(a), Actual), MinOf(MinOf(Base(c) - 1, Size - 1) + 1, Actual))

\* Where r is, what it relies on: everything before its cursor, or before the
\* run it is fetching, is cached, and the run's data is the resource's.
ReaderInv(r) ==
    /\ pc[r] \in {"scan", "extend", "read", "store", "assemble"} => Inside(r)
    /\ pc[r] = "scan" => CachedUpTo(r, cur[r])
    /\ pc[r] \in {"extend", "read", "store"} =>
          /\ FirstBlock(r) <= run[r]
          /\ run[r] <= cur[r]
          /\ cur[r] <= last[r] + 1
          /\ run[r] <= last[r]
          /\ CachedUpTo(r, run[r])
    /\ pc[r] = "store" => run[r] < cur[r] /\ got[r] = RunData(run[r], cur[r])
    /\ pc[r] = "assemble" => CachedUpTo(r, last[r] + 1)
    /\ pc[r] # "idle" => outcome[r] = "none"

\* Where the bytes of a cached block end.  (A resource of one byte is fetched
\* with the range (0, 0), which returns the whole content, however long.)
BlockEnd(b) == IF Size = 1 THEN BlockLimit(b) ELSE MinOf(BlockLimit(b), Size)

\* The content of a cached block is determined by its number: BlocksTruthful,
\* made precise enough for a block that is stored twice to stay the same.
TheBlock(b) ==
    IF Base(b) < Actual THEN [lo |-> Base(b), hi |-> BlockEnd(b)] ELSE NoBytes

BlocksDetermined == \A b \in DOMAIN blocks : blocks[b] = TheBlock(b)

Inv ==
    /\ TypeOK
    /\ BlocksDetermined
    /\ \A r \in Readers : ReaderInv(r)
    /\ ServedExact

-----------------------------------------------------------------------------
(* Runs of bytes.                                                          *)

\* A run within the first n bytes.
LEMMA RunType ==
    ASSUME NEW n \in Nat, NEW a \in 0 .. n, NEW b \in 0 .. n
    PROVE  Run(a, b) \in Runs(n)
  BY SMT DEF Run, Runs, NoBytes

\* Cutting block b out of the data of its run yields the bytes of block b.
LEMMA CutTruthful ==
    ASSUME NEW a \in Nat, NEW c \in Nat, NEW b \in Nat,
           a <= b, b < c, Base(b) < Size
    PROVE  LET blk == Cut(RunData(a, c), a, b)
           IN  blk \in Runs(Actual) /\ blk = TheBlock(b)
  <1> DEFINE A == Base(a)  B == Base(b)  C == Base(c)
  <1>1. /\ A \in Nat /\ B \in Nat /\ C \in Nat
        /\ A <= B /\ B + BlockSize <= C
        /\ Base(b - a) = B - A
        /\ a = 0 <=> A = 0
    BY BaseNat, BaseStep, BaseMinus, ReadCacheAssumption, SMT DEF Base
  <1>2. a < b => A + BlockSize <= B
    BY BaseStep
  <1>3. a = b => A = B
    OBVIOUS
  <1>4. BlockSize \in Nat \ {0} /\ Size \in Nat /\ Actual \in Nat
    BY ReadCacheAssumption
  <1> HIDE DEF A, B, C
  <1>5. RunData(a, c) = IF a = 0 /\ MinOf(C - 1, Size - 1) = 0
                        THEN Run(0, Actual)
                        ELSE Run(MinOf(A, Actual), MinOf(MinOf(C - 1, Size - 1) + 1, Actual))
    BY DEF RunData, A, C
  <1>6. Cut(RunData(a, c), a, b) =
            IF B - A >= RunLen(RunData(a, c))
            THEN NoBytes
            ELSE Slice(RunData(a, c), B - A, MinOf(B - A + BlockSize, RunLen(RunData(a, c))))
    BY <1>1 DEF Cut
  <1>7. BlockLimit(b) = MinOf(B + BlockSize, Actual)
    BY DEF BlockLimit, B
  <1>8. B < Size
    BY DEF B
  <1>11. TheBlock(b) =
            IF B < Actual
            THEN [lo |-> B, hi |-> IF Size = 1 THEN MinOf(B + BlockSize, Actual)
                                   ELSE MinOf(MinOf(B + BlockSize, Actual), Size)]
            ELSE NoBytes
    BY <1>7 DEF TheBlock, BlockEnd, B
  <1>9. CASE a = 0 /\ MinOf(C - 1, Size - 1) = 0
    <2>1. A = 0 /\ B = 0
      BY <1>1, <1>2, <1>3, <1>4, <1>8, <1>9, SMT DEF MinOf
    <2> QED
      BY <1>1, <1>4, <1>5, <1>6, <1>8, <1>9, <1>11, <2>1, SMT
      DEF MinOf, Run, Runs, RunLen, Slice, NoBytes
  <1>10. CASE ~(a = 0 /\ MinOf(C - 1, Size - 1) = 0)
    <2>3. Size # 1
      BY <1>1, <1>4, <1>8, <1>10, SMT DEF MinOf
    <2>4. RunData(a, c) = Run(MinOf(A, Actual), MinOf(MinOf(C - 1, Size - 1) + 1, Actual))
      BY <1>5, <1>10
    <2>5. TheBlock(b) = IF B < Actual
                        THEN [lo |-> B, hi |-> MinOf(MinOf(B + BlockSize, Actual), Size)]
                        ELSE NoBytes
      BY <1>11, <2>3
    <2>1. CASE A >= Actual
      BY <1>1, <1>2, <1>3, <1>4, <1>6, <1>8, <2>4, <2>5, <2>1, SMT
      DEF MinOf, Run, Runs, RunLen, Slice, NoBytes
    <2>2. CASE A < Actual
      BY <1>1, <1>2, <1>3, <1>4, <1>6, <1>8, <2>4, <2>5, <2>2, SMT
      DEF MinOf, Run, Runs, RunLen, Slice, NoBytes
    <2> QED
      BY <1>1, <1>4, <2>1, <2>2, SMT
  <1> QED
    BY <1>9, <1>10

-----------------------------------------------------------------------------
(* The invariant is inductive.                                             *)

\* It holds at the start.
LEMMA InitInv == Init => Inv
  <1> SUFFICES ASSUME Init PROVE Inv
    OBVIOUS
  <1>1. TypeOK
    BY ReadCacheAssumption, SMT
    DEF Init, TypeOK, Locations, Outcomes, Runs, NoBytes, Blocks
  <1>2. BlocksDetermined /\ ServedExact
    BY DEF Init, BlocksDetermined, ServedExact
  <1>3. \A r \in Readers : ReaderInv(r)
    BY DEF Init, ReaderInv
  <1> QED
    BY <1>1, <1>2, <1>3 DEF Inv

\* The range of r and its first and last block, once the early returns are
\* behind it.
LEMMA RangeFacts ==
    ASSUME NEW r \in Readers, TypeOK, ~Bypasses(r), Start(r) < Size
    PROVE  /\ Start(r) \in Nat
           /\ End(r) \in Nat
           /\ Start(r) <= End(r)
           /\ End(r) < Size
           /\ FirstBlock(r) \in Nat
           /\ LastBlock(r) \in Nat
           /\ FirstBlock(r) <= LastBlock(r)
           /\ LastBlock(r) \in Blocks
  <1>1. req[r] \in Nat \X Nat /\ req[r][1] \in Nat /\ req[r][2] \in Nat
    BY DEF TypeOK
  <1>2. /\ Start(r) \in Nat /\ End(r) \in Nat
        /\ Start(r) <= End(r) /\ End(r) < Size
    BY <1>1, ReadCacheAssumption, SMT DEF Start, End, MinOf, Bypasses
  <1>3. /\ FirstBlock(r) \in Nat /\ LastBlock(r) \in Nat
        /\ Base(FirstBlock(r)) <= Start(r)
        /\ Base(LastBlock(r)) <= End(r)
        /\ End(r) < Base(LastBlock(r)) + BlockSize
    BY <1>2, DivBounds DEF FirstBlock, LastBlock
  <1>4. LastBlock(r) \in Blocks
    <2>1. Base(LastBlock(r)) < Size
      BY <1>2, <1>3, BaseNat, ReadCacheAssumption, SMT
    <2> QED
      BY <2>1, <1>3, InBlocks
  <1>5. FirstBlock(r) <= LastBlock(r)
    <2> SUFFICES ASSUME LastBlock(r) < FirstBlock(r) PROVE FALSE
      BY <1>3, SMT
    <2>1. Base(LastBlock(r)) + BlockSize <= Base(FirstBlock(r))
      BY <1>3, BaseStep
    <2> QED
      BY <1>2, <1>3, <2>1, BaseNat, ReadCacheAssumption, SMT
  <1> QED
    BY <1>2, <1>3, <1>4, <1>5

\* A step of one reader that leaves the blocks alone leaves the others alone.
LEMMA OthersUnmoved ==
    ASSUME Inv, NEW r \in Readers, NEW q \in Readers, q # r,
           blocks' = blocks,
           pc'[q] = pc[q], req'[q] = req[q], last'[q] = last[q], cur'[q] = cur[q],
           run'[q] = run[q], got'[q] = got[q], outcome'[q] = outcome[q]
    PROVE  ReaderInv(q)'
  BY DEF Inv, ReaderInv, Inside, CachedUpTo, Bypasses, Start, End, FirstBlock,
         LastBlock, RunData

ServedTo(r) ==
    outcome[r] = "pieces" /\ Start(r) < Size =>
        pieces[r] = [b \in FirstBlock(r) .. LastBlock(r) |-> DuePiece(r, b)]

\* The variables of r, for a reader q that does not move.
Unmoved(q) ==
    /\ pc'[q] = pc[q] /\ req'[q] = req[q] /\ last'[q] = last[q]
    /\ cur'[q] = cur[q] /\ run'[q] = run[q] /\ got'[q] = got[q]
    /\ outcome'[q] = outcome[q] /\ pieces'[q] = pieces[q]

\* What a reader was served stays right while it does not move.
LEMMA ServedUnmoved ==
    ASSUME Inv, NEW q \in Readers, Unmoved(q)
    PROVE  ServedTo(q)'
  BY DEF Inv, Unmoved, ServedExact, ServedTo, Start, End, FirstBlock, LastBlock,
         DuePiece, BlockLimit

\* What is left to show of a step that does not store blocks.
LEMMA Frame ==
    ASSUME Inv, NEW r \in Readers, blocks' = blocks,
           \A q \in Readers \ {r} : Unmoved(q),
           TypeOK', ReaderInv(r)', ServedTo(r)'
    PROVE  Inv'
  <1>1. BlocksDetermined'
    BY DEF Inv, BlocksDetermined, TheBlock, BlockEnd, BlockLimit
  <1>2. \A q \in Readers : ReaderInv(q)'
    BY OthersUnmoved DEF Unmoved
  <1>3. \A q \in Readers : ServedTo(q)'
    BY ServedUnmoved
  <1>4. ServedExact'
    BY <1>3 DEF ServedExact, ServedTo
  <1> QED
    BY <1>1, <1>2, <1>4 DEF Inv

\* A call starts without a cursor.
LEMMA CallInv ==
    ASSUME Inv, NEW r \in Readers, Call(r)
    PROVE  Inv'
  <1>1. TypeOK'
    BY ReadCacheAssumption, SMTT(40) DEF Inv, TypeOK, Call, Locations, Outcomes, Runs, NoBytes
  <1>2. ReaderInv(r)' /\ ServedTo(r)'
    BY DEF Inv, TypeOK, Call, ReaderInv, ServedTo
  <1>3. \A q \in Readers \ {r} : Unmoved(q)
    BY DEF Inv, TypeOK, Call, Unmoved
  <1> QED
    BY <1>1, <1>2, <1>3, Frame DEF Call

\* Whatever the resource returns are runs of its bytes.
LEMMA RawDataType ==
    ASSUME NEW lo \in Int, NEW hi \in Int, lo >= 0, NEW data \in RawData(lo, hi)
    PROVE  data \in Runs(Actual)
  BY ReadCacheAssumption, SMT DEF RawData, Run, Runs, NoBytes, MinOf

\* A Read that is passed on touches no block.
LEMMA BypassInv ==
    ASSUME Inv, NEW r \in Readers, Bypass(r)
    PROVE  Inv'
  <1>1. req[r][1] \in Nat /\ req[r][2] \in Nat
    BY DEF Inv, TypeOK
  <1>2. TypeOK'
    <2>1. got' \in [Readers -> Runs(Actual)]
      <3>1. got \in [Readers -> Runs(Actual)]
        BY DEF Inv, TypeOK
      <3>2. CASE \E data \in RawData(req[r][1], req[r][2]) :
                     got' = [got EXCEPT ![r] = data]
        <4>1. PICK data \in RawData(req[r][1], req[r][2]) :
                     got' = [got EXCEPT ![r] = data]
          BY <3>2
        <4>2. data \in Runs(Actual)
          <5> DEFINE lo == req[r][1]  hi == req[r][2]
          <5>1. lo \in Int /\ hi \in Int /\ lo >= 0 /\ data \in RawData(lo, hi)
            BY <1>1, <4>1, SMT
          <5> QED
            BY <5>1, RawDataType
        <4> QED
          BY <3>1, <4>1, <4>2
      <3>3. CASE got' = got
        BY <3>1, <3>3
      <3> QED
        BY <3>2, <3>3 DEF Bypass
    <2>2. /\ pc' \in [Readers -> Locations]
          /\ outcome' \in [Readers -> Outcomes]
      BY DEF Inv, TypeOK, Bypass, Return, Locations, Outcomes
    <2> QED
      BY <2>1, <2>2 DEF Inv, TypeOK, Bypass
  <1>3. ReaderInv(r)' /\ ServedTo(r)'
    BY DEF Inv, TypeOK, Bypass, Return, ReaderInv, ServedTo
  <1>4. \A q \in Readers \ {r} : Unmoved(q)
    BY DEF Inv, TypeOK, Bypass, Return, Unmoved
  <1> QED
    BY <1>2, <1>3, <1>4, Frame DEF Bypass

\* An empty Read touches no block.
LEMMA PastEndInv ==
    ASSUME Inv, NEW r \in Readers, PastEnd(r)
    PROVE  Inv'
  <1>1. TypeOK'
    BY SMT DEF Inv, TypeOK, PastEnd, Return, Locations, Outcomes
  <1>2. ReaderInv(r)'
    BY DEF Inv, TypeOK, PastEnd, Return, ReaderInv
  <1>3. ~(Start(r) < Size)' /\ ServedTo(r)'
    <2>1. Start(r)' = Start(r) /\ Start(r) \in Nat
      BY DEF Inv, TypeOK, PastEnd, Start
    <2>2. ~(Start(r)' < Size)
      BY <2>1, ReadCacheAssumption, SMT DEF PastEnd
    <2> QED
      BY <2>2 DEF ServedTo
  <1>4. \A q \in Readers \ {r} : Unmoved(q)
    BY DEF Inv, TypeOK, PastEnd, Return, Unmoved
  <1> QED
    BY <1>1, <1>2, <1>3, <1>4, Frame DEF PastEnd

\* The cursor starts at the first block of the range.
LEMMA EnterInv ==
    ASSUME Inv, NEW r \in Readers, Enter(r)
    PROVE  Inv'
  <1>1. /\ FirstBlock(r) \in Nat /\ LastBlock(r) \in Nat
        /\ FirstBlock(r) <= LastBlock(r)
    BY RangeFacts DEF Inv, Enter
  <1>2. TypeOK'
    BY <1>1, SMT DEF Inv, TypeOK, Enter, Locations
  <1>3. /\ FirstBlock(r)' = FirstBlock(r) /\ LastBlock(r)' = LastBlock(r)
        /\ Start(r)' = Start(r) /\ Bypasses(r)' = Bypasses(r)
    BY DEF Enter, FirstBlock, LastBlock, Start, End, Bypasses
  <1>4. /\ pc'[r] = "scan" /\ cur'[r] = FirstBlock(r) /\ last'[r] = LastBlock(r)
        /\ outcome'[r] = "none"
    BY DEF Inv, TypeOK, Enter, ReaderInv
  <1>5. Inside(r)'
    BY <1>1, <1>3, <1>4, SMT DEF Inside, Enter
  <1>6. CachedUpTo(r, cur[r])'
    BY <1>1, <1>3, <1>4, SMT DEF CachedUpTo
  <1>7. ReaderInv(r)' /\ ServedTo(r)'
    BY <1>4, <1>5, <1>6 DEF ReaderInv, ServedTo
  <1>8. \A q \in Readers \ {r} : Unmoved(q)
    BY DEF Inv, TypeOK, Enter, Unmoved
  <1> QED
    BY <1>2, <1>7, <1>8, Frame DEF Enter

\* The cursor moves over a cached block, or a run starts there.
LEMMA ScanInv ==
    ASSUME Inv, NEW r \in Readers, Scan(r)
    PROVE  Inv'
  <1>1. /\ cur[r] \in Nat /\ last[r] \in Nat /\ run[r] \in Nat
        /\ Inside(r) /\ CachedUpTo(r, cur[r]) /\ outcome[r] = "none"
    BY DEF Inv, TypeOK, Scan, ReaderInv
  <1>2. FirstBlock(r) \in Nat
    BY <1>1, RangeFacts DEF Inv, Inside
  <1>3. TypeOK'
    <2>1. /\ cur[r] + 1 \in Nat
          /\ {"assemble", "extend"} \subseteq Locations
      BY <1>1, SMT DEF Locations
    <2>2. /\ pc' \in [Readers -> Locations]
          /\ cur' \in [Readers -> Nat]
          /\ run' \in [Readers -> Nat]
      <3>1. CASE cur[r] > last[r]
        BY <1>1, <2>1, <3>1 DEF Inv, TypeOK, Scan
      <3>2. CASE cur[r] <= last[r] /\ cur[r] \in DOMAIN blocks
        BY <1>1, <2>1, <3>2 DEF Inv, TypeOK, Scan
      <3>3. CASE cur[r] <= last[r] /\ cur[r] \notin DOMAIN blocks
        BY <1>1, <2>1, <3>3 DEF Inv, TypeOK, Scan
      <3> QED
        BY <3>1, <3>2, <3>3 DEF Scan
    <2> QED
      BY <2>2 DEF Inv, TypeOK, Scan
  <1>4. /\ FirstBlock(r)' = FirstBlock(r) /\ LastBlock(r)' = LastBlock(r)
        /\ Start(r)' = Start(r) /\ Bypasses(r)' = Bypasses(r)
        /\ last' = last /\ blocks' = blocks /\ outcome' = outcome
    BY DEF Scan, FirstBlock, LastBlock, Start, End, Bypasses
  <1>5. ReaderInv(r)'
    <2>1. CASE cur[r] > last[r] /\ pc' = [pc EXCEPT ![r] = "assemble"] /\ cur' = cur
      <3>1. CachedUpTo(r, last[r] + 1)'
        BY <1>1, <1>2, <1>4, <2>1, SMT DEF CachedUpTo
      <3> QED
        BY <1>1, <1>4, <2>1, <3>1 DEF Inv, TypeOK, ReaderInv, Inside
    <2>2. CASE /\ cur[r] <= last[r] /\ cur[r] \in DOMAIN blocks
               /\ cur' = [cur EXCEPT ![r] = cur[r] + 1] /\ pc' = pc
      <3>1. cur'[r] = cur[r] + 1 /\ pc'[r] = "scan"
        BY <2>2 DEF Inv, TypeOK, Scan
      <3>2. CachedUpTo(r, cur[r])'
        <4>1. SUFFICES ASSUME NEW b \in Nat, FirstBlock(r) <= b, b < cur[r] + 1
                       PROVE  b \in DOMAIN blocks
          BY <1>4, <3>1 DEF CachedUpTo
        <4>2. CASE b = cur[r]
          BY <2>2, <4>2
        <4>3. CASE b < cur[r]
          BY <1>1, <4>1, <4>3 DEF CachedUpTo
        <4> QED
          BY <1>1, <4>1, <4>2, <4>3, SMT
      <3>3. FirstBlock(r) <= cur[r] + 1
        BY <1>1, <1>2, SMT DEF Inside
      <3> QED
        BY <1>1, <1>4, <3>1, <3>2, <3>3 DEF ReaderInv, Inside
    <2>3. CASE /\ cur[r] <= last[r] /\ run' = [run EXCEPT ![r] = cur[r]]
               /\ pc' = [pc EXCEPT ![r] = "extend"] /\ cur' = cur
      <3>1. run'[r] = cur[r] /\ pc'[r] = "extend"
        BY <2>3 DEF Inv, TypeOK
      <3>2. cur[r] <= last[r] + 1 /\ cur[r] <= cur[r]
        BY <1>1, <2>3, SMT
      <3>3. CachedUpTo(r, run[r])'
        BY <1>1, <1>4, <3>1 DEF CachedUpTo
      <3> QED
        BY <1>1, <1>4, <2>3, <3>1, <3>2, <3>3 DEF ReaderInv, Inside
    <2> QED
      BY <2>1, <2>2, <2>3 DEF Scan
  <1>6. ServedTo(r)'
    BY <1>1, <1>4 DEF ServedTo
  <1>7. \A q \in Readers \ {r} : Unmoved(q)
    BY DEF Inv, TypeOK, Scan, Unmoved
  <1> QED
    BY <1>3, <1>4, <1>5, <1>6, <1>7, Frame

\* A run stays within the range.
LEMMA ExtendInv ==
    ASSUME Inv, NEW r \in Readers, Extend(r)
    PROVE  Inv'
  <1>1. /\ cur[r] \in Nat /\ last[r] \in Nat /\ run[r] \in Nat
        /\ Inside(r) /\ CachedUpTo(r, run[r]) /\ outcome[r] = "none"
        /\ FirstBlock(r) <= run[r] /\ run[r] <= cur[r]
        /\ run[r] <= last[r] /\ cur[r] <= last[r] + 1
    BY DEF Inv, TypeOK, Extend, ReaderInv
  <1>2. FirstBlock(r) \in Nat
    BY <1>1, RangeFacts DEF Inv, Inside
  <1>3. TypeOK'
    <2>1. CASE cur' = [cur EXCEPT ![r] = cur[r] + 1] /\ pc' = pc
      BY <1>1, <2>1, SMT DEF Inv, TypeOK, Extend
    <2>2. CASE cur' = cur /\ pc' = [pc EXCEPT ![r] = "read"]
      BY <2>2 DEF Inv, TypeOK, Extend, Locations
    <2> QED
      BY <2>1, <2>2 DEF Extend
  <1>4. /\ FirstBlock(r)' = FirstBlock(r) /\ LastBlock(r)' = LastBlock(r)
        /\ Start(r)' = Start(r) /\ Bypasses(r)' = Bypasses(r)
        /\ last' = last /\ run' = run /\ blocks' = blocks /\ outcome' = outcome
    BY DEF Extend, FirstBlock, LastBlock, Start, End, Bypasses
  <1>5. CachedUpTo(r, run[r])'
    BY <1>1, <1>4 DEF CachedUpTo
  <1>6. /\ FirstBlock(r) <= cur'[r] /\ run[r] <= cur'[r]
        /\ cur'[r] <= last[r] + 1
        /\ pc'[r] \in {"extend", "read"}
    <2>1. \/ cur[r] <= last[r] /\ cur'[r] = cur[r] + 1 /\ pc'[r] = "extend"
          \/ cur'[r] = cur[r] /\ pc'[r] = "read"
      BY DEF Inv, TypeOK, Extend
    <2> QED
      BY <1>1, <1>2, <2>1, SMT
  <1>7. ReaderInv(r)' /\ ServedTo(r)'
    BY <1>1, <1>4, <1>5, <1>6 DEF ReaderInv, Inside, ServedTo
  <1>8. \A q \in Readers \ {r} : Unmoved(q)
    BY DEF Inv, TypeOK, Extend, Unmoved
  <1> QED
    BY <1>3, <1>4, <1>7, <1>8, Frame

\* A successful read of a run returns the run's bytes, and the run is not empty.
LEMMA ReadReturnsRun ==
    ASSUME NEW a \in Nat, NEW c \in Nat, a <= c,
           NEW data \in RawData(Base(a), MinOf(Base(c) - 1, Size - 1))
    PROVE  a < c /\ data = RunData(a, c)
  <1>1. /\ Base(a) \in Nat /\ Base(c) \in Nat
        /\ Base(a) = 0 <=> a = 0
        /\ a = c => Base(a) = Base(c)
    BY BaseNat, ReadCacheAssumption, SMT DEF Base
  <1> DEFINE E == MinOf(Base(c) - 1, Size - 1)
  <1>2. E \in Int /\ E <= Base(c) - 1
    BY <1>1, ReadCacheAssumption, SMT DEF MinOf
  <1>3. ~(E < Base(a))
    BY DEF RawData
  <1>4. a < c
    BY <1>1, <1>2, <1>3, SMT
  <1>5. data = RunData(a, c)
    BY <1>1, <1>3 DEF RawData, RunData
  <1> QED
    BY <1>4, <1>5

\* The data of a run is the resource's.
LEMMA ReadRunInv ==
    ASSUME Inv, NEW r \in Readers, ReadRun(r)
    PROVE  Inv'
  <1>1. /\ cur[r] \in Nat /\ run[r] \in Nat /\ run[r] <= cur[r]
        /\ got \in [Readers -> Runs(Actual)]
        /\ outcome[r] = "none"
    BY DEF Inv, TypeOK, ReadRun, ReaderInv
  <1>2. /\ FirstBlock(r)' = FirstBlock(r) /\ LastBlock(r)' = LastBlock(r)
        /\ Start(r)' = Start(r) /\ Bypasses(r)' = Bypasses(r)
        /\ last' = last /\ run' = run /\ cur' = cur /\ blocks' = blocks
    BY DEF ReadRun, FirstBlock, LastBlock, Start, End, Bypasses
  <1>3. CASE /\ \E data \in RawData(Base(run[r]), RunEnd(r)) :
                    got' = [got EXCEPT ![r] = data]
             /\ pc' = [pc EXCEPT ![r] = "store"] /\ outcome' = outcome
    <2>1. PICK data \in RawData(Base(run[r]), RunEnd(r)) :
                 got' = [got EXCEPT ![r] = data]
      BY <1>3
    <2>2. run[r] < cur[r] /\ data = RunData(run[r], cur[r])
      BY <1>1, <2>1, ReadReturnsRun DEF RunEnd
    <2>3. data \in Runs(Actual)
      <3>1. RunEnd(r) \in Int /\ Base(run[r]) \in Int /\ Base(run[r]) >= 0
        BY <1>1, BaseNat, ReadCacheAssumption, SMT DEF RunEnd, MinOf
      <3> QED
        BY <2>1, <3>1, RawDataType
    <2>4. TypeOK'
      <3>1. got' \in [Readers -> Runs(Actual)]
        BY <1>1, <2>1, <2>3
      <3>2. pc' \in [Readers -> Locations]
        BY <1>3 DEF Inv, TypeOK, Locations
      <3> QED
        BY <3>1, <3>2, <1>3 DEF Inv, TypeOK, ReadRun
    <2>5. got'[r] = RunData(run[r], cur[r]) /\ pc'[r] = "store"
      BY <1>1, <1>3, <2>1, <2>2 DEF Inv, TypeOK
    <2>6. ReaderInv(r)' /\ ServedTo(r)'
      <3>1. RunData(run[r], cur[r])' = RunData(run[r], cur[r])
        BY <1>2 DEF RunData
      <3> QED
        BY <1>1, <1>2, <1>3, <2>2, <2>5, <3>1
        DEF Inv, ReadRun, ReaderInv, Inside, CachedUpTo, ServedTo
    <2>7. \A q \in Readers \ {r} : Unmoved(q)
      BY <1>3, <2>1 DEF Inv, TypeOK, ReadRun, Unmoved
    <2> QED
      BY <1>2, <2>4, <2>6, <2>7, Frame
  <1>4. CASE Return(r, "error") /\ got' = got
    <2>1. TypeOK'
      BY <1>4 DEF Inv, TypeOK, ReadRun, Return, Locations, Outcomes
    <2>2. ReaderInv(r)' /\ ServedTo(r)'
      BY <1>4 DEF Inv, TypeOK, ReadRun, Return, ReaderInv, ServedTo
    <2>3. \A q \in Readers \ {r} : Unmoved(q)
      BY <1>4 DEF Inv, TypeOK, ReadRun, Return, Unmoved
    <2> QED
      BY <1>2, <2>1, <2>2, <2>3, Frame
  <1> QED
    BY <1>3, <1>4 DEF ReadRun

\* Storing only adds blocks, so what the readers rely on stays.
LEMMA StoreGrows ==
    ASSUME Inv, NEW r \in Readers, StoreRun(r), NEW q \in Readers, q # r
    PROVE  ReaderInv(q)'
  <1>1. DOMAIN blocks \subseteq DOMAIN blocks'
    BY DEF StoreRun
  <1>2. /\ pc'[q] = pc[q] /\ req' = req /\ last' = last /\ cur' = cur
        /\ run' = run /\ got' = got /\ outcome' = outcome
    BY DEF Inv, TypeOK, StoreRun
  <1>3. \A n : CachedUpTo(q, n) =>
            \A b \in Nat : FirstBlock(q) <= b /\ b < n => b \in DOMAIN blocks'
    BY <1>1 DEF CachedUpTo
  <1>4. FirstBlock(q)' = FirstBlock(q) /\ LastBlock(q)' = LastBlock(q) /\ Start(q)' = Start(q)
        /\ Bypasses(q)' = Bypasses(q)
    BY <1>2 DEF FirstBlock, LastBlock, Start, End, Bypasses
  <1>5. RunData(run[q], cur[q])' = RunData(run[q], cur[q])
    BY <1>2 DEF RunData
  <1> QED
    BY <1>2, <1>3, <1>4, <1>5 DEF Inv, ReaderInv, Inside, CachedUpTo

\* What is stored is truthful, also over a block another reader has stored.
LEMMA StoreRunInv ==
    ASSUME Inv, NEW r \in Readers, StoreRun(r)
    PROVE  Inv'
  <1> DEFINE stored == run[r] .. cur[r] - 1
  <1>1. /\ cur[r] \in Nat /\ run[r] \in Nat /\ last[r] \in Nat
        /\ Inside(r) /\ CachedUpTo(r, run[r])
        /\ FirstBlock(r) <= run[r] /\ run[r] <= last[r]
        /\ cur[r] <= last[r] + 1
        /\ run[r] < cur[r] /\ got[r] = RunData(run[r], cur[r])
        /\ outcome[r] = "none"
    BY DEF Inv, TypeOK, StoreRun, ReaderInv
  <1>2. FirstBlock(r) \in Nat /\ last[r] \in Blocks
    BY <1>1, RangeFacts DEF Inv, Inside
  <1>3. stored \subseteq Blocks /\ stored \subseteq Nat
    <2> DEFINE top == (Size - 1) \div BlockSize
    <2>1. Size > 0
      BY <1>1, ReadCacheAssumption, SMT DEF Inside, Bypasses
    <2>2. top \in Int /\ last[r] \in 0 .. top
      BY <1>2, <2>1, ReadCacheAssumption, SMT DEF Blocks
    <2> HIDE DEF top
    <2>3. stored \subseteq 0 .. top /\ stored \subseteq Nat
      BY <1>1, <2>2, SMT
    <2> QED
      BY <2>3 DEF Blocks, top
  <1>4. \A b \in stored :
          LET blk == Cut(got[r], run[r], b)
          IN  blk \in Runs(Actual) /\ blk = TheBlock(b)
    <2> TAKE b \in stored
    <2>1. b \in Nat /\ run[r] <= b /\ b < cur[r]
      BY <1>1, SMT
    <2>2. Base(b) < Size
      BY <1>3, <2>1, InBlocks
    <2> QED
      BY <1>1, <2>1, <2>2, CutTruthful
  <1> DEFINE new == [b \in DOMAIN blocks \union stored |->
                       IF b \in stored THEN Cut(got[r], run[r], b) ELSE blocks[b]]
  <1>5. blocks' = new /\ DOMAIN blocks' = DOMAIN blocks \union stored
    BY DEF StoreRun
  <1>6. \A b \in DOMAIN blocks' :
          blocks'[b] = IF b \in stored THEN Cut(got[r], run[r], b) ELSE blocks[b]
    BY <1>5
  <1> HIDE DEF new
  <1>7. TypeOK'
    <2>1. DOMAIN blocks' \subseteq Blocks
      BY <1>3, <1>5 DEF Inv, TypeOK
    <2>2. \A b \in DOMAIN blocks' : blocks'[b] \in Runs(Actual)
      BY <1>4, <1>5, <1>6 DEF Inv, TypeOK
    <2>3. pc' \in [Readers -> Locations]
      BY DEF Inv, TypeOK, StoreRun, Locations
    <2> QED
      BY <2>1, <2>2, <2>3 DEF Inv, TypeOK, StoreRun
  <1>8. BlocksDetermined'
    <2>1. \A b \in DOMAIN blocks' : blocks'[b] = TheBlock(b)
      BY <1>4, <1>5, <1>6 DEF Inv, BlocksDetermined
    <2> QED
      BY <2>1 DEF BlocksDetermined, TheBlock, BlockEnd, BlockLimit
  <1>9. ReaderInv(r)'
    <2>1. /\ FirstBlock(r)' = FirstBlock(r) /\ LastBlock(r)' = LastBlock(r)
          /\ Start(r)' = Start(r) /\ Bypasses(r)' = Bypasses(r)
          /\ last' = last /\ cur' = cur /\ outcome' = outcome /\ pc'[r] = "scan"
      BY DEF Inv, TypeOK, StoreRun, FirstBlock, LastBlock, Start, End, Bypasses
    <2>2. CachedUpTo(r, cur[r])'
      <3> SUFFICES ASSUME NEW b \in Nat, FirstBlock(r) <= b, b < cur[r]
                   PROVE  b \in DOMAIN blocks'
        BY <2>1 DEF CachedUpTo
      <3>1. CASE b < run[r]
        BY <1>1, <1>5, <3>1 DEF CachedUpTo
      <3>2. CASE b >= run[r]
        <4>1. b \in stored
          BY <1>1, <3>2, SMT
        <4> QED
          BY <1>5, <4>1
      <3> QED
        BY <1>1, <3>1, <3>2, SMT
    <2> QED
      BY <1>1, <2>1, <2>2 DEF ReaderInv, Inside
  <1>10. ServedExact'
    <2>1. \A q \in Readers :
            /\ Start(q)' = Start(q) /\ FirstBlock(q)' = FirstBlock(q)
            /\ LastBlock(q)' = LastBlock(q)
            /\ \A b : DuePiece(q, b)' = DuePiece(q, b)
      BY DEF StoreRun, Start, End, FirstBlock, LastBlock, DuePiece, BlockLimit
    <2>2. outcome' = outcome /\ pieces' = pieces
      BY DEF StoreRun
    <2> QED
      BY <2>1, <2>2 DEF Inv, ServedExact
  <1>11. \A q \in Readers : ReaderInv(q)'
    BY <1>9, StoreGrows
  <1> QED
    BY <1>7, <1>8, <1>10, <1>11 DEF Inv

\* A cached block yields exactly its share of the range.
LEMMA PieceDue ==
    ASSUME Inv, NEW r \in Readers, ~Bypasses(r), Start(r) < Size,
           NEW b \in Nat, b \in DOMAIN blocks
    PROVE  Piece(r, b) = DuePiece(r, b)
  <1> DEFINE B == Base(b)  S == Start(r)  E == End(r)
  <1>1. S \in Nat /\ E \in Nat /\ S <= E /\ E < Size
    BY RangeFacts DEF Inv
  <1>2. B \in Nat
    BY BaseNat
  <1>3. blocks[b] = TheBlock(b)
    BY DEF Inv, BlocksDetermined
  <1>4. BlockSize \in Nat \ {0} /\ Size \in Nat /\ Actual \in Nat
    BY ReadCacheAssumption
  <1>5. Piece(r, b) = Slice(blocks[b], MaxOf(S - B, 0), MinOf(E - B + 1, RunLen(blocks[b])))
    BY DEF Piece
  <1>6. DuePiece(r, b) = Run(MaxOf(S, B), MinOf(E + 1, MinOf(B + BlockSize, Actual)))
    BY DEF DuePiece, BlockLimit
  <1>7. TheBlock(b) =
            IF B < Actual
            THEN [lo |-> B, hi |-> IF Size = 1 THEN MinOf(B + BlockSize, Actual)
                                   ELSE MinOf(MinOf(B + BlockSize, Actual), Size)]
            ELSE NoBytes
    BY DEF TheBlock, BlockEnd, BlockLimit
  <1> HIDE DEF B, S, E
  <1>8. CASE B < Actual
    BY <1>1, <1>2, <1>3, <1>4, <1>5, <1>6, <1>7, <1>8, SMT
    DEF Slice, Run, RunLen, MinOf, MaxOf, NoBytes
  <1>9. CASE ~(B < Actual)
    BY <1>1, <1>2, <1>3, <1>4, <1>5, <1>6, <1>7, <1>9, SMT
    DEF Slice, Run, RunLen, MinOf, MaxOf, NoBytes
  <1> QED
    BY <1>8, <1>9

\* The pieces are those that are due.
LEMMA AssembleInv ==
    ASSUME Inv, NEW r \in Readers, Assemble(r)
    PROVE  Inv'
  <1>1. Inside(r) /\ CachedUpTo(r, last[r] + 1)
    BY DEF Inv, Assemble, ReaderInv
  <1>2. /\ FirstBlock(r) \in Nat /\ LastBlock(r) \in Nat
        /\ last[r] = LastBlock(r) /\ ~Bypasses(r) /\ Start(r) < Size
    BY <1>1, RangeFacts DEF Inv, Inside
  <1>3. \A b \in FirstBlock(r) .. LastBlock(r) : Piece(r, b) = DuePiece(r, b)
    <2> TAKE b \in FirstBlock(r) .. LastBlock(r)
    <2>1. b \in Nat /\ FirstBlock(r) <= b /\ b < last[r] + 1
      BY <1>2, SMT
    <2>2. b \in DOMAIN blocks
      BY <1>1, <2>1 DEF CachedUpTo
    <2> QED
      BY <1>2, <2>1, <2>2, PieceDue
  <1>4. TypeOK'
    BY DEF Inv, TypeOK, Assemble, Return, Locations, Outcomes
  <1>5. /\ FirstBlock(r)' = FirstBlock(r) /\ LastBlock(r)' = LastBlock(r)
        /\ \A b : DuePiece(r, b)' = DuePiece(r, b)
    BY DEF Assemble, FirstBlock, LastBlock, Start, End, DuePiece, BlockLimit
  <1>6. ServedExact'
    <2>1. \A q \in Readers : ServedTo(q)'
      <3> TAKE q \in Readers
      <3>1. CASE q = r
        <4>1. pieces'[r] = [b \in FirstBlock(r) .. LastBlock(r) |-> Piece(r, b)]
          BY <1>2, <3>1 DEF Inv, TypeOK, Assemble
        <4>2. pieces'[r] = [b \in FirstBlock(r) .. LastBlock(r) |-> DuePiece(r, b)]
          BY <1>3, <4>1
        <4> QED
          BY <1>5, <3>1, <4>2 DEF ServedTo
      <3>2. CASE q # r
        <4>1. Unmoved(q)
          BY <3>2 DEF Inv, TypeOK, Assemble, Return, Unmoved
        <4> QED
          BY <4>1, ServedUnmoved
      <3> QED
        BY <3>1, <3>2
    <2> QED
      BY <2>1 DEF ServedExact, ServedTo
  <1>7. ReaderInv(r)'
    BY DEF Inv, TypeOK, Assemble, Return, ReaderInv
  <1>8. blocks' = blocks /\ \A q \in Readers \ {r} : Unmoved(q)
    BY DEF Inv, TypeOK, Assemble, Return, Unmoved
  <1>9. ServedTo(r)'
    BY <1>6 DEF ServedExact, ServedTo
  <1> QED
    BY <1>4, <1>7, <1>8, <1>9, Frame

\* A step of somebody else changes nothing.
LEMMA StutterInv ==
    ASSUME Inv, UNCHANGED vars
    PROVE  Inv'
  <1>1. BlocksDetermined' /\ TypeOK'
    BY DEF Inv, vars, TypeOK, BlocksDetermined, TheBlock, BlockEnd, BlockLimit
  <1>2. \A q \in Readers : ReaderInv(q)'
    BY DEF Inv, vars, ReaderInv, Inside, CachedUpTo, Bypasses, Start, End,
           FirstBlock, LastBlock, RunData
  <1>3. ServedExact'
    <2>1. \A q \in Readers : ServedTo(q)'
      BY ServedUnmoved DEF Unmoved, vars
    <2> QED
      BY <2>1 DEF ServedExact, ServedTo
  <1> QED
    BY <1>1, <1>2, <1>3 DEF Inv

\* No step breaks the invariant.
LEMMA NextInv ==
    ASSUME Inv, [Next]_vars
    PROVE  Inv'
  <1>1. CASE UNCHANGED vars
    BY <1>1, StutterInv
  <1>2. CASE Next
    <2>1. PICK r \in Readers : Call(r) \/ Step(r)
      BY <1>2 DEF Next
    <2>2. CASE Call(r)
      BY <2>2, CallInv
    <2>3. CASE Bypass(r)
      BY <2>3, BypassInv
    <2>4. CASE PastEnd(r)
      BY <2>4, PastEndInv
    <2>5. CASE Enter(r)
      BY <2>5, EnterInv
    <2>6. CASE Scan(r)
      BY <2>6, ScanInv
    <2>7. CASE Extend(r)
      BY <2>7, ExtendInv
    <2>8. CASE ReadRun(r)
      BY <2>8, ReadRunInv
    <2>9. CASE StoreRun(r)
      BY <2>9, StoreRunInv
    <2>10. CASE Assemble(r)
      BY <2>10, AssembleInv
    <2> QED
      BY <2>1, <2>2, <2>3, <2>4, <2>5, <2>6, <2>7, <2>8, <2>9, <2>10 DEF Step
  <1> QED
    BY <1>1, <1>2

\* The invariant holds throughout.
THEOREM Invariance == Spec => []Inv
  <1>1. Init => Inv
    BY InitInv
  <1>2. Inv /\ [Next]_vars => Inv'
    BY NextInv
  <1> QED
    BY <1>1, <1>2, PTL DEF Spec

-----------------------------------------------------------------------------
(* What follows from it.                                                   *)

\* The variables of the cache keep their types.
THEOREM TypeCorrect == Spec => []TypeOK
  <1>1. Inv => TypeOK
    BY DEF Inv
  <1> QED
    BY <1>1, Invariance, PTL

\* The invariant says which bytes a block holds.
LEMMA InvTruthful == Inv => BlocksTruthful
  <1> SUFFICES ASSUME Inv, NEW b \in DOMAIN blocks
               PROVE  IF Base(b) < Actual
                      THEN /\ blocks[b].lo = Base(b)
                           /\ MinOf(BlockLimit(b), Size) <= blocks[b].hi
                           /\ blocks[b].hi <= BlockLimit(b)
                      ELSE blocks[b] = NoBytes
    BY DEF BlocksTruthful
  <1>1. blocks[b] = TheBlock(b)
    BY DEF Inv, BlocksDetermined
  <1>2. b \in Nat
    BY SMT DEF Inv, TypeOK, Blocks
  <1>3. BlockLimit(b) \in Nat
    BY <1>2, BaseNat, ReadCacheAssumption, SMT DEF BlockLimit, MinOf
  <1>4. /\ MinOf(BlockLimit(b), Size) <= BlockEnd(b)
        /\ BlockEnd(b) <= BlockLimit(b)
    BY <1>3, ReadCacheAssumption, SMT DEF BlockEnd, MinOf
  <1> QED
    BY <1>1, <1>4 DEF TheBlock

\* Every block in the cache holds the bytes of its own offsets, whichever
\* readers raced to fetch it (readCache.fetch).
THEOREM CacheTruthful == Spec => []BlocksTruthful
  BY Invariance, InvTruthful, PTL

\* A Read that is served from blocks returns exactly the bytes of its range
\* (readCache.Read), for any number of concurrent readers.
THEOREM ReadsExact == Spec => []ServedExact
  <1>1. Inv => ServedExact
    BY DEF Inv
  <1> QED
    BY <1>1, Invariance, PTL

\* Nothing that is cached is ever dropped or changed, so a look-up stays valid
\* after the lock is released and the map can be shared (readCache.snapshot).
THEOREM CacheGrows == Spec => BlocksStay
  <1> DEFINE Stay == \A b \in DOMAIN blocks : b \in DOMAIN blocks' /\ blocks'[b] = blocks[b]
  <1>1. Inv /\ Inv' /\ [Next]_vars => [Stay]_vars
    <2> SUFFICES ASSUME Inv, Inv', Next PROVE Stay
      OBVIOUS
    <2>1. DOMAIN blocks \subseteq DOMAIN blocks'
      BY DEF Next, Step, Call, Bypass, PastEnd, Enter, Scan, Extend, ReadRun,
             StoreRun, Assemble
    <2>2. \A b \in DOMAIN blocks : blocks[b] = TheBlock(b)
      BY DEF Inv, BlocksDetermined
    <2>3. \A b \in DOMAIN blocks' : blocks'[b] = TheBlock(b)
      BY DEF Inv, BlocksDetermined, TheBlock, BlockEnd, BlockLimit
    <2> QED
      BY <2>1, <2>2, <2>3
  <1> QED
    BY <1>1, Invariance, PTL DEF Spec, BlocksStay

-----------------------------------------------------------------------------
(* Read implements the abstract range server.                              *)

\* Pieces that follow one another are joined to one run.
LEMMA JoinedIs ==
    ASSUME NEW f, NEW m \in Int, NEW n \in Int,
           m \in DOMAIN f, f[m] # NoBytes, n \in DOMAIN f, f[n] # NoBytes,
           \A c \in DOMAIN f : f[c] # NoBytes => c \in m .. n,
           \A b \in m .. n - 1 : b \in DOMAIN f /\ f[b] # NoBytes /\ Abuts(f[b], f[b + 1])
    PROVE  Joined(f) = Run(f[m].lo, f[n].hi)
<1> DEFINE filled == {b \in DOMAIN f : f[b] # NoBytes}
           first == CHOOSE b \in filled : \A c \in filled : b <= c
           final == CHOOSE b \in filled : \A c \in filled : c <= b
<1>1. m \in filled /\ n \in filled /\ \A c \in filled : c \in Int /\ m <= c /\ c <= n
  OBVIOUS
<1> HIDE DEF filled
<1>2. first = m
  <2>1. \A b \in filled : (\A c \in filled : b <= c) => b = m
    BY <1>1
  <2>2. first \in filled /\ \A c \in filled : first <= c
    BY <1>1
  <2> QED
    BY <2>1, <2>2
<1>3. final = n
  <2>1. \A b \in filled : (\A c \in filled : c <= b) => b = n
    BY <1>1
  <2>2. final \in filled /\ \A c \in filled : c <= final
    BY <1>1
  <2> QED
    BY <2>1, <2>2
<1>4. Joined(f) = IF filled = {} THEN NoBytes
                  ELSE IF \A b \in first .. final - 1 : b \in filled /\ Abuts(f[b], f[b + 1])
                       THEN Run(f[first].lo, f[final].hi)
                       ELSE Garbled
  BY DEF Joined, filled
<1> HIDE DEF first, final
<1>5. \A b \in first .. final - 1 : b \in filled /\ Abuts(f[b], f[b + 1])
  BY <1>2, <1>3 DEF filled
<1> QED
  BY <1>1, <1>2, <1>3, <1>4, <1>5

\* No pieces are no bytes.
LEMMA JoinedNone ==
    ASSUME NEW f, \A b \in DOMAIN f : f[b] = NoBytes
    PROVE  Joined(f) = NoBytes
  BY DEF Joined

\* The pieces a Read owes are the range, clamped to what can be seen.
LEMMA DueJoined ==
    ASSUME Inv, NEW r \in Readers, ~Bypasses(r), Start(r) < Size
    PROVE  Joined([b \in FirstBlock(r) .. LastBlock(r) |-> DuePiece(r, b)])
               = Abstract!Exact(req[r])
<1> DEFINE f == [b \in FirstBlock(r) .. LastBlock(r) |-> DuePiece(r, b)]
           S == Start(r)
           E == End(r)
           x == MinOf(E, Actual - 1)
           m == FirstBlock(r)
           n == x \div BlockSize
<1>1. /\ S \in Nat /\ E \in Nat /\ S <= E /\ E < Size
      /\ Size \in Nat /\ Actual \in Nat /\ BlockSize \in Nat \ {0}
  BY RangeFacts, ReadCacheAssumption DEF Inv
<1>2. /\ m \in Nat /\ Base(m) \in Nat /\ Base(m) <= S /\ S < Base(m) + BlockSize
  BY <1>1, DivBounds, BaseNat DEF FirstBlock
<1>3. /\ LastBlock(r) \in Nat /\ Base(LastBlock(r)) \in Nat /\ Base(LastBlock(r)) <= E
      /\ E < Base(LastBlock(r)) + BlockSize
  BY <1>1, DivBounds, BaseNat DEF LastBlock
<1>4. \A b \in m .. LastBlock(r) :
          /\ b \in Nat /\ Base(b) \in Nat /\ Base(b) <= E /\ S < Base(b) + BlockSize
          /\ f[b] = Run(MaxOf(S, Base(b)), MinOf(E + 1, MinOf(Base(b) + BlockSize, Actual)))
  <2> TAKE b \in m .. LastBlock(r)
  <2>1. b \in Nat /\ Base(b) \in Nat /\ m <= b /\ b <= LastBlock(r)
    BY <1>2, <1>3, BaseNat
  <2>2. m = b \/ Base(m) + BlockSize <= Base(b)
    BY <1>2, <2>1, BaseStep
  <2>3. b = LastBlock(r) \/ Base(b) + BlockSize <= Base(LastBlock(r))
    BY <1>3, <2>1, BaseStep
  <2>4. f[b] = DuePiece(r, b)
    OBVIOUS
  <2> HIDE DEF f, S, E, m
  <2>5. Base(b) <= E /\ S < Base(b) + BlockSize
    BY <1>1, <1>2, <1>3, <2>1, <2>2, <2>3
  <2> QED
    BY <2>1, <2>4, <2>5 DEF DuePiece, BlockLimit, S, E
<1>5. DOMAIN f = m .. LastBlock(r)
  OBVIOUS
<1>6. req[r] \in Nat \X Nat /\ S = req[r][1] /\ E = MinOf(req[r][2], Size - 1)
  BY DEF Inv, TypeOK, Start, End
<1>7. ~(req[r][1] = 0 /\ req[r][2] = 0) /\ Size # 0
  BY DEF Bypasses
<1>8. Abstract!Exact(req[r]) = Run(MinOf(S, MinOf(Size, Actual)),
                                   MinOf(req[r][2] + 1, MinOf(Size, Actual)))
  BY <1>6, <1>7
  DEF Abstract!Exact, Abstract!Run, Run, Abstract!MinOf, MinOf, Abstract!NoBytes, NoBytes
<1> HIDE DEF f, S, E, m
<1>9. CASE S >= Actual
  <2>1. Abstract!Exact(req[r]) = NoBytes
    BY <1>1, <1>6, <1>8, <1>9 DEF Run, MinOf
  <2>2. ASSUME NEW b \in DOMAIN f PROVE f[b] = NoBytes
    BY <1>1, <1>4, <1>5, <1>9 DEF Run, MinOf, MaxOf
  <2>3. Joined(f) = NoBytes
    BY <2>2, JoinedNone
  <2> QED
    BY <2>1, <2>3 DEF f, m
<1>10. CASE S < Actual
  <2>1. x \in Nat /\ S <= x /\ x <= E /\ x < Actual
    BY <1>1, <1>10 DEF MinOf
  <2>2. n \in Nat /\ Base(n) \in Nat /\ Base(n) <= x /\ x < Base(n) + BlockSize
    BY <2>1, DivBounds, BaseNat
  <2>3. x = E \/ x = Actual - 1
    BY DEF MinOf
  <2> HIDE DEF x, n
  <2>4. m <= n /\ n <= LastBlock(r)
    <3>1. ~(n < m)
      BY <1>1, <1>2, <2>1, <2>2, BaseStep
    <3>2. ~(LastBlock(r) < n)
      BY <1>1, <1>3, <2>1, <2>2, BaseStep
    <3> QED
      BY <1>2, <1>3, <2>2, <3>1, <3>2
  <2>5. ASSUME NEW b \in m .. LastBlock(r), Base(b) < Actual
        PROVE  /\ f[b].lo = MaxOf(S, Base(b))
               /\ f[b].hi = MinOf(E + 1, MinOf(Base(b) + BlockSize, Actual))
               /\ f[b].lo < f[b].hi /\ f[b] # NoBytes
    <3>1. /\ b \in Nat /\ Base(b) \in Nat /\ Base(b) <= E /\ S < Base(b) + BlockSize
          /\ f[b] = Run(MaxOf(S, Base(b)), MinOf(E + 1, MinOf(Base(b) + BlockSize, Actual)))
      BY <1>4
    <3>2. /\ MaxOf(S, Base(b)) \in Nat
          /\ MinOf(E + 1, MinOf(Base(b) + BlockSize, Actual)) \in Nat
          /\ MaxOf(S, Base(b)) < MinOf(E + 1, MinOf(Base(b) + BlockSize, Actual))
      BY <1>1, <1>10, <2>5, <3>1 DEF MinOf, MaxOf
    <3> QED
      BY <3>1, <3>2 DEF Run, NoBytes
  <2>6. ASSUME NEW b \in m .. LastBlock(r), f[b] # NoBytes PROVE b \in m .. n
    <3>4. /\ b \in Nat /\ Base(b) \in Nat /\ Base(b) <= E
          /\ f[b] = Run(MaxOf(S, Base(b)), MinOf(E + 1, MinOf(Base(b) + BlockSize, Actual)))
      BY <1>4
    <3>1. Base(b) < Actual /\ b \in Nat /\ Base(b) <= E /\ Base(b) \in Nat
      BY <1>1, <2>6, <3>4 DEF Run, MinOf, MaxOf
    <3>2. Base(b) <= x
      BY <1>1, <2>1, <2>3, <3>1
    <3>3. ~(n < b)
      BY <1>1, <2>1, <2>2, <3>1, <3>2, BaseStep
    <3> QED
      BY <1>2, <2>2, <3>1, <3>3
  <2>7. m \in m .. LastBlock(r) /\ Base(m) < Actual
    BY <1>1, <1>2, <1>3, <1>10, <2>2, <2>4
  <2>8. n \in m .. LastBlock(r) /\ Base(n) < Actual
    BY <1>1, <1>2, <1>3, <2>1, <2>2, <2>4
  <2>9. ASSUME NEW b \in m .. n - 1
        PROVE  b \in m .. LastBlock(r) /\ f[b] # NoBytes /\ Abuts(f[b], f[b + 1])
    <3>1. /\ b \in Nat /\ b + 1 \in Nat /\ b < n /\ b \in m .. LastBlock(r)
          /\ b + 1 \in m .. LastBlock(r) /\ m < b + 1 /\ (b + 1 = n \/ b + 1 < n)
      BY <1>2, <1>3, <2>2, <2>4
    <3>2. Base(b) \in Nat /\ Base(b + 1) \in Nat
      BY <3>1, BaseNat
    <3>3. Base(b + 1) = Base(b) + BlockSize
      BY <1>1, <3>1 DEF Base
    <3>4. b + 1 = n \/ Base(b + 1) + BlockSize <= Base(n)
      BY <2>2, <3>1, BaseStep
    <3>5. Base(m) + BlockSize <= Base(b + 1)
      BY <1>2, <3>1, BaseStep
    <3>6. Base(b) < Actual /\ Base(b + 1) < Actual /\ Base(b + 1) <= E /\ S < Base(b + 1)
      BY <1>1, <1>2, <2>1, <2>2, <3>2, <3>3, <3>4, <3>5
    <3>7. /\ f[b].hi = MinOf(E + 1, MinOf(Base(b) + BlockSize, Actual))
          /\ f[b].lo < f[b].hi /\ f[b] # NoBytes
          /\ f[b + 1].lo = MaxOf(S, Base(b + 1))
      BY <2>5, <3>1, <3>6
    <3>8. f[b].hi = Base(b + 1) /\ f[b + 1].lo = Base(b + 1)
      BY <1>1, <3>2, <3>3, <3>6, <3>7 DEF MinOf, MaxOf
    <3> QED
      BY <3>1, <3>7, <3>8 DEF Abuts
  <2>10. Joined(f) = Run(f[m].lo, f[n].hi)
    <3>1. f[m] # NoBytes /\ f[n] # NoBytes /\ m \in Int /\ n \in Int
      BY <1>2, <2>2, <2>5, <2>7, <2>8
    <3> QED
      BY <1>5, <2>6, <2>7, <2>8, <2>9, <3>1, JoinedIs
  <2>11. f[m].lo = S
    <3>1. f[m].lo = MaxOf(S, Base(m))
      BY <2>5, <2>7
    <3> QED
      BY <1>1, <1>2, <3>1 DEF MaxOf
  <2>12. f[n].hi = MinOf(E + 1, Actual)
    <3>1. f[n].hi = MinOf(E + 1, MinOf(Base(n) + BlockSize, Actual))
      BY <2>5, <2>8
    <3> QED
      BY <1>1, <2>1, <2>2, <2>3, <3>1 DEF MinOf
  <2>13. Run(S, MinOf(E + 1, Actual)) = Abstract!Exact(req[r])
    BY <1>1, <1>6, <1>8, <1>10 DEF MinOf
  <2> QED
    BY <2>10, <2>11, <2>12, <2>13 DEF f, m
<1> QED
  BY <1>1, <1>9, <1>10

\* A Read begins without a byte of the one before.
Fresh == \A r \in Readers : pc[r] # "idle" => pieces[r] = [b \in {} |-> NoBytes]

\* What a reader waits for, and what it was answered.
Asked(r) == IF pc[r] = "idle" THEN <<>> ELSE req[r]

Answered(r) ==
    CASE outcome[r] = "none" -> [lo |-> -2, hi |-> -2]
      [] outcome[r] = "error" -> [lo |-> -1, hi |-> -1]
      [] outcome[r] = "whole" -> got[r]
      [] outcome[r] = "pieces" -> Joined(pieces[r])

\* What a step does not touch keeps its meaning.
LEMMA AskedUnmoved ==
    ASSUME NEW q \in Readers, pc'[q] = pc[q], req'[q] = req[q]
    PROVE  Asked(q)' = Asked(q)
  BY DEF Asked

\* The same for the answer; data on its way is not seen.
LEMMA AnsweredUnmoved ==
    ASSUME NEW q \in Readers, outcome'[q] = outcome[q],
           got'[q] = got[q] \/ outcome[q] = "none", pieces'[q] = pieces[q]
    PROVE  Answered(q)' = Answered(q)
  BY DEF Answered

\* Each action of the abstract specification, in terms of one reader.
LEMMA Asks ==
    ASSUME NEW r \in Readers, NEW q \in Requests,
           Asked(r) = <<>>, Asked(r)' = q, Answered(r)' = [lo |-> -2, hi |-> -2],
           \A t \in Readers \ {r} : Asked(t)' = Asked(t) /\ Answered(t)' = Answered(t)
    PROVE  Abstract!Ask(r, q)
<1>1. [t \in Readers |-> Asked(t)]' = [[t \in Readers |-> Asked(t)] EXCEPT ![r] = q]
  OBVIOUS
<1>2. [t \in Readers |-> Answered(t)]'
        = [[t \in Readers |-> Answered(t)] EXCEPT ![r] = [lo |-> -2, hi |-> -2]]
  OBVIOUS
<1>3. [t \in Readers |-> Asked(t)][r] = <<>>
  OBVIOUS
<1> QED
  BY <1>1, <1>2, <1>3, Zenon
  DEF Abstract!Ask, Abstract!Nothing, Abstract!Pending, Asked, Answered

\* The same for the answer of the resource.
LEMMA Serves ==
    ASSUME NEW r \in Readers,
           Asked(r) = req[r], req[r] \in Nat \X Nat, req[r][1] <= req[r][2],
           Asked(r)' = <<>>, Answered(r)' = Abstract!Exact(req[r]),
           \A t \in Readers \ {r} : Asked(t)' = Asked(t) /\ Answered(t)' = Answered(t)
    PROVE  Abstract!Serve(r)
<1>1. [t \in Readers |-> Asked(t)]' = [[t \in Readers |-> Asked(t)] EXCEPT ![r] = <<>>]
  OBVIOUS
<1>2. [t \in Readers |-> Answered(t)]'
        = [[t \in Readers |-> Answered(t)] EXCEPT ![r] = Abstract!Exact(Asked(r))]
  OBVIOUS
<1>3. /\ [t \in Readers |-> Asked(t)][r] # <<>>
      /\ [t \in Readers |-> Asked(t)][r][1] <= [t \in Readers |-> Asked(t)][r][2]
      /\ [t \in Readers |-> Asked(t)][r] = Asked(r)
  OBVIOUS
<1> QED
  BY <1>1, <1>2, <1>3, Zenon DEF Abstract!Serve, Abstract!Nothing, Asked, Answered

\* The same for an error.
LEMMA Refuses ==
    ASSUME NEW r \in Readers,
           Asked(r) = req[r], req[r] \in Nat \X Nat,
           Asked(r)' = <<>>, Answered(r)' = [lo |-> -1, hi |-> -1],
           \A t \in Readers \ {r} : Asked(t)' = Asked(t) /\ Answered(t)' = Answered(t)
    PROVE  Abstract!Refuse(r)
<1>1. [t \in Readers |-> Asked(t)]' = [[t \in Readers |-> Asked(t)] EXCEPT ![r] = <<>>]
  OBVIOUS
<1>2. [t \in Readers |-> Answered(t)]'
        = [[t \in Readers |-> Answered(t)] EXCEPT ![r] = [lo |-> -1, hi |-> -1]]
  OBVIOUS
<1>3. [t \in Readers |-> Asked(t)][r] # <<>>
  OBVIOUS
<1> QED
  BY <1>1, <1>2, <1>3, Zenon
  DEF Abstract!Refuse, Abstract!Nothing, Abstract!Failed, Asked, Answered

\* Nothing happens if nothing happens to any reader.
LEMMA Stutters ==
    ASSUME \A t \in Readers : Asked(t)' = Asked(t) /\ Answered(t)' = Answered(t)
    PROVE  UNCHANGED Abstract!rsVars
<1>1. [t \in Readers |-> Asked(t)]' = [t \in Readers |-> Asked(t)]
  OBVIOUS
<1>2. [t \in Readers |-> Answered(t)]' = [t \in Readers |-> Answered(t)]
  OBVIOUS
<1> QED
  BY <1>1, <1>2, Zenon DEF Abstract!rsVars, Asked, Answered

\* How the values of one reader's answer read.
LEMMA AnswerIs ==
    ASSUME NEW r \in Readers
    PROVE  /\ outcome[r] = "none" => Answered(r) = [lo |-> -2, hi |-> -2]
           /\ outcome[r] = "error" => Answered(r) = [lo |-> -1, hi |-> -1]
           /\ outcome[r] = "whole" => Answered(r) = got[r]
           /\ outcome[r] = "pieces" => Answered(r) = Joined(pieces[r])
  BY Zenon DEF Answered

\* No step brings old pieces into a Read.
LEMMA FreshStep == ASSUME Inv, Fresh, [Next]_vars PROVE Fresh'
  BY DEF Inv, TypeOK, Fresh, Next, Step, vars, Call, Bypass, PastEnd, Enter, Scan, Extend,
         ReadRun, StoreRun, Assemble, Return

\* A step of one reader leaves the others as they are.
LEMMA OthersAsked ==
    ASSUME Inv, NEW r \in Readers, Call(r) \/ Step(r), NEW t \in Readers, t # r
    PROVE  Asked(t)' = Asked(t) /\ Answered(t)' = Answered(t)
<1>1. Unmoved(t)
  BY DEF Unmoved, Inv, TypeOK, Step, Call, Bypass, PastEnd, Enter, Scan, Extend,
         ReadRun, StoreRun, Assemble, Return
<1> QED
  BY <1>1, AskedUnmoved, AnsweredUnmoved DEF Unmoved

\* A Read handed to the resource below is answered by it.
LEMMA BypassExact ==
    ASSUME Inv, NEW r \in Readers, Bypasses(r), NEW data \in RawData(req[r][1], req[r][2])
    PROVE  data = Abstract!Exact(req[r]) /\ req[r][1] <= req[r][2]
<1>1. req[r] \in Nat \X Nat /\ ~(req[r][2] < req[r][1])
  BY DEF Inv, TypeOK, RawData
<1>2. CASE req[r][1] = 0 /\ req[r][2] = 0
  BY <1>1, <1>2
  DEF RawData, Abstract!Exact, Abstract!Run, Run, Abstract!NoBytes, NoBytes
<1>3. CASE ~(req[r][1] = 0 /\ req[r][2] = 0)
  <2>1. Size = 0
    BY <1>1, <1>3 DEF Bypasses
  <2> QED
    BY <1>1, <1>3, <2>1
    DEF RawData, Abstract!Exact, Abstract!Run, Run, Abstract!NoBytes, NoBytes,
        Abstract!MinOf, MinOf
<1> QED
  BY <1>1, <1>2, <1>3

\* What lies past the end is nothing.
LEMMA PastEndExact ==
    ASSUME Inv, NEW r \in Readers, ~Bypasses(r), Start(r) >= Size
    PROVE  Abstract!Exact(req[r]) = NoBytes
<1>1. /\ req[r] \in Nat \X Nat /\ req[r][1] >= Size /\ Size \in Nat /\ Actual \in Nat
      /\ Size # 0
  BY ReadCacheAssumption DEF Inv, TypeOK, Start, Bypasses
<1> QED
  BY <1>1 DEF Abstract!Exact, Abstract!Run, Abstract!NoBytes, NoBytes, Abstract!MinOf, MinOf

\* A call asks.
LEMMA CallRefines ==
    ASSUME Inv, NEW r \in Readers, Call(r)
    PROVE  \E q \in Requests : Abstract!Ask(r, q)
<1>1. PICK q \in Requests : req' = [req EXCEPT ![r] = q]
  BY DEF Call
<1>2. Asked(r) = <<>> /\ Asked(r)' = q
  BY <1>1 DEF Asked, Call, Inv, TypeOK
<1>3. outcome'[r] = "none"
  BY DEF Call, Inv, TypeOK
<1>4. Answered(r)' = [lo |-> -2, hi |-> -2]
  BY <1>3, Zenon DEF Answered
<1> QED
  BY <1>2, <1>4, OthersAsked, Asks

\* A Read that returns.
LEMMA ReturnRefines ==
    ASSUME Inv, NEW r \in Readers, Step(r), pc[r] # "idle", pc'[r] = "idle",
           \/ outcome'[r] = "error"
           \/ /\ req[r][1] <= req[r][2]
              /\ \/ outcome'[r] = "whole" /\ got'[r] = Abstract!Exact(req[r])
                 \/ outcome'[r] = "pieces" /\ Joined(pieces'[r]) = Abstract!Exact(req[r])
    PROVE  Abstract!Serve(r) \/ Abstract!Refuse(r)
<1>1. Asked(r) = req[r] /\ req[r] \in Nat \X Nat /\ Asked(r)' = <<>>
  BY DEF Asked, Inv, TypeOK
<1>2. /\ outcome'[r] = "error" => Answered(r)' = [lo |-> -1, hi |-> -1]
      /\ outcome'[r] = "whole" => Answered(r)' = got'[r]
      /\ outcome'[r] = "pieces" => Answered(r)' = Joined(pieces'[r])
  BY Zenon DEF Answered
<1>3. \A t \in Readers \ {r} : Asked(t)' = Asked(t) /\ Answered(t)' = Answered(t)
  BY OthersAsked
<1> QED
  BY <1>1, <1>2, <1>3, Serves, Refuses

\* A step within Read is none of the abstract one.
LEMMA WithinRefines ==
    ASSUME Inv, NEW r \in Readers, Step(r), pc[r] # "idle", pc'[r] # "idle"
    PROVE  UNCHANGED Abstract!rsVars
<1>1. req'[r] = req[r] /\ outcome'[r] = outcome[r] /\ outcome[r] = "none"
  BY DEF Inv, ReaderInv, TypeOK, Step, Bypass, PastEnd, Enter, Scan, Extend,
         ReadRun, StoreRun, Assemble, Return
<1>2. Asked(r)' = Asked(r)
  BY <1>1 DEF Asked
<1>3. Answered(r)' = Answered(r)
  BY <1>1, Zenon DEF Answered
<1> QED
  BY <1>2, <1>3, OthersAsked, Stutters

\* Every step is one of the abstract specification, or none.
LEMMA StepRefines ==
    ASSUME Inv, Inv', Fresh, [Next]_vars
    PROVE  [Abstract!RSNext]_(Abstract!rsVars)
<1>1. CASE UNCHANGED vars
  <2>1. \A t \in Readers : Asked(t)' = Asked(t) /\ Answered(t)' = Answered(t)
    BY <1>1, AskedUnmoved, AnsweredUnmoved DEF vars
  <2> QED
    BY <2>1, Stutters
<1>2. ASSUME NEW r \in Readers, Call(r) PROVE Abstract!RSNext
  BY <1>2, CallRefines DEF Abstract!RSNext
<1>3. ASSUME NEW r \in Readers, Step(r)
      PROVE  Abstract!Serve(r) \/ Abstract!Refuse(r) \/ UNCHANGED Abstract!rsVars
  <2>1. pc[r] # "idle" /\ pc' \in [Readers -> Locations] /\ outcome' \in [Readers -> Outcomes]
    BY <1>3 DEF Inv, TypeOK, Step, Bypass, PastEnd, Enter, Scan, Extend, ReadRun, StoreRun, Assemble
  <2>2. CASE Bypass(r) /\ outcome'[r] = "whole"
    <3>1. PICK data \in RawData(req[r][1], req[r][2]) : got' = [got EXCEPT ![r] = data]
      BY <2>2 DEF Bypass, Return, Inv, TypeOK
    <3>2. got'[r] = data /\ pc'[r] = "idle" /\ Bypasses(r)
      BY <2>2, <3>1 DEF Bypass, Return, Inv, TypeOK
    <3> QED
      BY <1>3, <2>1, <2>2, <3>1, <3>2, BypassExact, ReturnRefines
  <2>3. CASE PastEnd(r)
    <3>1. /\ ~Bypasses(r) /\ Start(r) >= Size /\ pc'[r] = "idle" /\ outcome'[r] = "pieces"
          /\ pieces'[r] = pieces[r]
      BY <2>3 DEF PastEnd, Return, Inv, TypeOK
    <3>2. pieces'[r] = [b \in {} |-> NoBytes]
      BY <2>1, <3>1 DEF Fresh
    <3>3. Joined(pieces'[r]) = NoBytes
      BY <3>2, JoinedNone
    <3>4. req[r][1] <= req[r][2]
      BY <3>1 DEF Bypasses, Inv, TypeOK
    <3> QED
      BY <1>3, <2>1, <3>1, <3>3, <3>4, PastEndExact, ReturnRefines
  <2>4. CASE Assemble(r)
    <3>1. /\ ~Bypasses(r) /\ Start(r) < Size /\ pc'[r] = "idle" /\ outcome'[r] = "pieces"
          /\ req' = req
      BY <2>4 DEF Assemble, Return, Inv, TypeOK, ReaderInv, Inside
    <3>2. /\ FirstBlock(r)' = FirstBlock(r) /\ LastBlock(r)' = LastBlock(r)
          /\ Start(r)' = Start(r)
          /\ \A b : DuePiece(r, b)' = DuePiece(r, b)
      BY <3>1 DEF FirstBlock, LastBlock, Start, End, DuePiece, BlockLimit
    <3>3. pieces'[r] = [b \in FirstBlock(r) .. LastBlock(r) |-> DuePiece(r, b)]
      BY <3>1, <3>2 DEF Inv, ServedExact
    <3>4. req[r][1] <= req[r][2]
      BY <3>1 DEF Bypasses, Inv, TypeOK
    <3> QED
      BY <1>3, <2>1, <3>1, <3>3, <3>4, DueJoined, ReturnRefines
  <2>5. CASE (Bypass(r) \/ ReadRun(r)) /\ outcome'[r] = "error"
    <3>1. pc'[r] = "idle"
      BY <2>5 DEF Bypass, ReadRun, Return, Inv, TypeOK, ReaderInv
    <3> QED
      BY <1>3, <2>1, <2>5, <3>1, ReturnRefines
  <2>6. CASE \/ Enter(r) \/ Scan(r) \/ Extend(r) \/ StoreRun(r)
             \/ ReadRun(r) /\ outcome'[r] # "error"
    <3>1. pc'[r] # "idle"
      BY <2>6 DEF Enter, Scan, Extend, StoreRun, ReadRun, Return, Inv, TypeOK, ReaderInv
    <3> QED
      BY <1>3, <2>1, <3>1, WithinRefines
  <2>7. Bypass(r) => outcome'[r] \in {"whole", "error"}
    BY DEF Bypass, Return, Inv, TypeOK
  <2> QED
    BY <1>3, <2>2, <2>3, <2>4, <2>5, <2>6, <2>7 DEF Step
<1> QED
  BY <1>1, <1>2, <1>3 DEF Next, Abstract!RSNext

\* The initial state is one of the abstract specification.
LEMMA InitRefines == Init => Fresh /\ Abstract!RSInit
<1> SUFFICES ASSUME Init PROVE Fresh /\ Abstract!RSInit
  OBVIOUS
<1>1. \A r \in Readers : outcome[r] = "none" /\ Asked(r) = <<>> /\ pc[r] = "idle"
  BY DEF Init, Asked
<1>2. \A r \in Readers : Answered(r) = [lo |-> -2, hi |-> -2]
  BY <1>1, AnswerIs
<1>3. [t \in Readers |-> Asked(t)] = [t \in Readers |-> <<>>]
  BY <1>1
<1>4. [t \in Readers |-> Answered(t)] = [t \in Readers |-> [lo |-> -2, hi |-> -2]]
  BY <1>2
<1>5. Abstract!RSInit
  BY <1>3, <1>4, Zenon
  DEF Abstract!RSInit, Abstract!Nothing, Abstract!Pending, Asked, Answered
<1> QED
  BY <1>1, <1>5 DEF Fresh

\* With any number of goroutines reading through the cache, with a size that is
\* too large or too small, each Read is answered as the resource itself would
\* answer it, as far as the size lets it see, or with an error.
THEOREM CacheImplementsServer == Spec => ImplementsRangeServer
<1>1. Inv /\ Fresh /\ [Next]_vars => Fresh'
  BY FreshStep
<1>2. Inv /\ Inv' /\ Fresh /\ [Next]_vars => [Abstract!RSNext]_(Abstract!rsVars)
  BY StepRefines
<1> QED
  BY <1>1, <1>2, InitRefines, Invariance, PTL
  DEF Spec, ImplementsRangeServer, Abstract!RSSpec

-----------------------------------------------------------------------------
(* The life of the blocks: probed, then served. *)

\* What the blocks hold that a probe has left.
Truthful ==
    \A b \in DOMAIN cache :
        /\ b \in Nat
        /\ Served!Held(b) \in 0 .. BlockSize
        /\ cache[b] = IF Served!Held(b) = 0 THEN NoBytes
                      ELSE [lo |-> Base(b), hi |-> Base(b) + Served!Held(b)]
        /\ Served!Held(b) > 0 => Base(b) + Served!Held(b) <= Actual
        /\ Size # 1 => Base(b) + Served!Held(b) <= Size

\* The constants.
LEMMA Sizes ==
    /\ Size \in Nat \ {0} /\ Actual \in Nat /\ BlockSize \in Nat \ {0}
    /\ ServeRequests \subseteq Nat \X Nat
  BY AudioCacheAssumption DEF Served!RetainedCacheAssumption

\* They are cut out of the file by the probe.
LEMMA ProbedTruthful == ASSUME Inv, cache = blocks PROVE Truthful
<1> SUFFICES ASSUME NEW b \in DOMAIN cache
             PROVE  /\ b \in Nat
                    /\ Served!Held(b) \in 0 .. BlockSize
                    /\ cache[b] = IF Served!Held(b) = 0 THEN NoBytes
                                  ELSE [lo |-> Base(b), hi |-> Base(b) + Served!Held(b)]
                    /\ Served!Held(b) > 0 => Base(b) + Served!Held(b) <= Actual
                    /\ Size # 1 => Base(b) + Served!Held(b) <= Size
  BY DEF Truthful
<1>1. /\ b \in Nat /\ Base(b) \in Nat /\ Base(b) < Size
  BY InBlocks, BaseNat DEF Inv, TypeOK, Blocks
<1>2. cache[b] = TheBlock(b)
  BY DEF Inv, BlocksDetermined
<1>3. Served!Held(b) = cache[b].hi - cache[b].lo
  BY DEF Served!Held, Served!RunLen
<1>4. CASE Base(b) < Actual
  <2>1. cache[b] = [lo |-> Base(b), hi |-> BlockEnd(b)]
    BY <1>2, <1>4 DEF TheBlock
  <2>2. BlockEnd(b) \in Nat /\ Base(b) < BlockEnd(b) /\ BlockEnd(b) <= Actual
        /\ BlockEnd(b) <= Base(b) + BlockSize /\ (Size # 1 => BlockEnd(b) <= Size)
    BY <1>1, <1>4, Sizes DEF BlockEnd, BlockLimit, MinOf
  <2>3. Served!Held(b) = BlockEnd(b) - Base(b)
    BY <1>3, <2>1
  <2>4. Base(b) + Served!Held(b) = BlockEnd(b)
    BY <1>1, <2>2, <2>3
  <2> QED
    BY <1>1, <2>1, <2>2, <2>3, <2>4, Sizes
<1>5. CASE ~(Base(b) < Actual)
  <2>1. cache[b] = NoBytes /\ Served!Held(b) = 0
    BY <1>2, <1>3, <1>5 DEF TheBlock, NoBytes
  <2> QED
    BY <1>1, <2>1, Sizes
<1> QED
  BY <1>4, <1>5

\* The same of the blocks and the snapshot after a step.
LEMMA ProbedTruthfulNext == Inv' /\ (cache = blocks)' => Truthful'
<1>1. Inv /\ cache = blocks => Truthful
  BY ProbedTruthful
<1> QED
  BY <1>1, PTL

\* How much is held of any block.
LEMMA HeldIs ==
    ASSUME Truthful, NEW b \in Nat
    PROVE  /\ Served!Held(b) \in Nat /\ Served!Held(b) <= BlockSize
           /\ Served!Held(b) > 0 => Base(b) + Served!Held(b) <= Actual
           /\ Served!Held(b) > 0 /\ Size # 1 => Base(b) + Served!Held(b) <= Size
           /\ Served!Held(b) > 0 => b \in DOMAIN cache
                   /\ cache[b] = [lo |-> Base(b), hi |-> Base(b) + Served!Held(b)]
<1>1. CASE b \in DOMAIN cache
  BY <1>1, Sizes DEF Truthful
<1>2. CASE b \notin DOMAIN cache
  BY <1>2, Sizes DEF Served!Held
<1> QED
  BY <1>1, <1>2

\* The block of an offset is the one that holds it.
LEMMA BlockOf ==
    ASSUME NEW b \in Nat, NEW x \in Nat, Base(b) <= x, x < Base(b) + BlockSize
    PROVE  x \div BlockSize = b
<1> DEFINE c == x \div BlockSize
<1>1. c \in Nat /\ Base(c) \in Nat /\ Base(b) \in Nat /\ Base(c) <= x /\ x < Base(c) + BlockSize
  BY DivBounds, BaseNat
<1> HIDE DEF c
<1>2. ~(c < b)
  BY <1>1, BaseStep, Sizes
<1>3. ~(b < c)
  BY <1>1, BaseStep, Sizes
<1>4. c = b
  BY <1>1, <1>2, <1>3
<1> QED
  BY <1>4 DEF c

\* A byte of a block is in memory if the block holds enough.
LEMMA CachedIs ==
    ASSUME NEW b \in Nat, NEW x \in Nat, Base(b) <= x, x < Base(b) + BlockSize
    PROVE  Served!Cached(x) <=> x - Base(b) < Served!Held(b)
  BY BlockOf DEF Served!Cached, Served!Base, Base

\* What is in memory is in the file.
LEMMA CachedBelow ==
    ASSUME Truthful, NEW x \in Nat, Served!Cached(x)
    PROVE  x < Actual /\ (Size # 1 => x < Size) /\ (x \div BlockSize) \in DOMAIN cache
<1> DEFINE b == x \div BlockSize
<1>1. b \in Nat /\ Base(b) \in Nat /\ Base(b) <= x /\ x < Base(b) + BlockSize
  BY DivBounds, BaseNat
<1> HIDE DEF b
<1>2. x - Base(b) < Served!Held(b) /\ Served!Held(b) \in Nat /\ Served!Held(b) > 0
  <2>1. x - Base(b) < Served!Held(b)
    BY <1>1, CachedIs
  <2>2. Served!Held(b) \in Nat
    BY <1>1, HeldIs
  <2> QED
    BY <1>1, <2>1, <2>2
<1>3. Base(b) + Served!Held(b) <= Actual /\ (Size # 1 => Base(b) + Served!Held(b) <= Size)
      /\ b \in DOMAIN cache
  BY <1>1, <1>2, HeldIs
<1>4. x < Actual /\ (Size # 1 => x < Size)
  BY <1>1, <1>2, <1>3, Sizes
<1>5. (x \div BlockSize) \in DOMAIN cache
  <2>1. b \in DOMAIN cache
    BY <1>3
  <2> QED
    BY <2>1, Zenon DEF b
<1> QED
  BY <1>4, <1>5

-----------------------------------------------------------------------------
(* Bytes copied out of the blocks.                                         *)

\* The copied bytes are those asked for, if they are all in memory.
LEMMA CopiedIs ==
    ASSUME Truthful, NEW s \in Nat, NEW e \in Nat, s <= e,
           \A i \in s .. e : Served!Cached(i)
    PROVE  Served!Copied(s, e) = Run(s, e + 1)
<1> DEFINE m == s \div BlockSize
           n == e \div BlockSize
           H(b) == Served!Held(b)
           f == [b \in m .. n |->
                    Slice(cache[b], MaxOf(s - Base(b), 0), MinOf(e - Base(b) + 1, H(b)))]
<1>1. Served!Copied(s, e) = Joined(f)
  BY DEF Served!Copied, Served!Base, Base, Served!Slice, Slice, Served!Run, Run,
         Served!MaxOf, MaxOf, Served!MinOf, MinOf, Served!Joined, Joined,
         Served!NoBytes, NoBytes, Served!Abuts, Abuts, Served!Garbled, Garbled
<1>2. /\ m \in Nat /\ Base(m) \in Nat /\ Base(m) <= s /\ s < Base(m) + BlockSize
      /\ n \in Nat /\ Base(n) \in Nat /\ Base(n) <= e /\ e < Base(n) + BlockSize
      /\ DOMAIN f = m .. n
  BY DivBounds, BaseNat
<1> HIDE DEF m, n
<1>3. m <= n
  BY <1>2, BaseStep, Sizes
<1>4. ASSUME NEW b \in m .. n
      PROVE  /\ b \in Nat /\ Base(b) \in Nat /\ Base(b) <= e /\ s < Base(b) + BlockSize
             /\ H(b) \in Nat /\ H(b) <= BlockSize
             /\ MinOf(e - Base(b) + 1, BlockSize) <= H(b)
             /\ H(b) > 0 => cache[b] = [lo |-> Base(b), hi |-> Base(b) + H(b)]
  <2>1. b \in Nat /\ Base(b) \in Nat
    BY <1>2, BaseNat
  <2>2. m = b \/ Base(m) + BlockSize <= Base(b)
    BY <1>2, <2>1, BaseStep
  <2>3. b = n \/ Base(b) + BlockSize <= Base(n)
    BY <1>2, <2>1, BaseStep
  <2>4. Base(b) <= e /\ s < Base(b) + BlockSize
    BY <1>2, <2>1, <2>2, <2>3, Sizes
  <2>5. /\ H(b) \in Nat /\ H(b) <= BlockSize
        /\ H(b) > 0 => cache[b] = [lo |-> Base(b), hi |-> Base(b) + H(b)]
    BY <2>1, HeldIs
  <2>6. MinOf(e - Base(b) + 1, BlockSize) <= H(b)
    <3> DEFINE x == MinOf(e, Base(b) + BlockSize - 1)
    <3>1. x \in s .. e /\ x \in Nat /\ Base(b) <= x /\ x < Base(b) + BlockSize
          /\ x - Base(b) + 1 = MinOf(e - Base(b) + 1, BlockSize)
      BY <2>1, <2>4, Sizes DEF MinOf
    <3> HIDE DEF x
    <3>2. x - Base(b) < H(b)
      BY <2>1, <3>1, CachedIs
    <3> HIDE DEF H
    <3> QED
      BY <2>1, <2>5, <3>1, <3>2 DEF MinOf
  <2> QED
    BY <2>1, <2>4, <2>5, <2>6
<1> HIDE DEF H
<1>5. ASSUME NEW b \in m .. n
      PROVE  /\ f[b].lo = MaxOf(s, Base(b))
             /\ f[b].hi = MinOf(e + 1, Base(b) + H(b))
             /\ f[b].lo < f[b].hi /\ f[b] # NoBytes
  <2>1. /\ b \in Nat /\ Base(b) \in Nat /\ Base(b) <= e /\ s < Base(b) + BlockSize
        /\ H(b) \in Nat /\ H(b) <= BlockSize
        /\ MinOf(e - Base(b) + 1, BlockSize) <= H(b)
        /\ H(b) > 0 => cache[b] = [lo |-> Base(b), hi |-> Base(b) + H(b)]
    BY <1>4
  <2>2. H(b) > 0
    BY <2>1, Sizes DEF MinOf
  <2>3. f[b] = Run(Base(b) + MaxOf(s - Base(b), 0), Base(b) + MinOf(e - Base(b) + 1, H(b)))
    BY <2>1, <2>2 DEF Slice
  <2>4. /\ Base(b) + MaxOf(s - Base(b), 0) = MaxOf(s, Base(b))
        /\ Base(b) + MinOf(e - Base(b) + 1, H(b)) = MinOf(e + 1, Base(b) + H(b))
        /\ MaxOf(s, Base(b)) < MinOf(e + 1, Base(b) + H(b))
        /\ MaxOf(s, Base(b)) \in Nat /\ MinOf(e + 1, Base(b) + H(b)) \in Nat
    BY <2>1, <2>2, Sizes DEF MinOf, MaxOf
  <2> HIDE DEF f
  <2> QED
    BY <2>3, <2>4 DEF Run, NoBytes
<1> HIDE DEF f
<1>6. ASSUME NEW b \in m .. n - 1
      PROVE  b \in DOMAIN f /\ f[b] # NoBytes /\ Abuts(f[b], f[b + 1])
  <2>1. /\ b \in m .. n /\ b + 1 \in m .. n /\ b \in Nat /\ b + 1 \in Nat /\ m < b + 1
        /\ b < n /\ (b + 1 = n \/ b + 1 < n)
    BY <1>2
  <2>2. Base(b) \in Nat /\ Base(b + 1) \in Nat /\ Base(b + 1) = Base(b) + BlockSize
    BY <2>1, BaseNat, Sizes DEF Base
  <2>3. Base(b + 1) <= e /\ Base(m) + BlockSize <= Base(b + 1)
    BY <1>2, <1>4, <2>1, BaseStep
  <2>4. H(b) = BlockSize
    <3>1. H(b) \in Nat /\ H(b) <= BlockSize /\ MinOf(e - Base(b) + 1, BlockSize) <= H(b)
      BY <1>4, <2>1
    <3> QED
      BY <2>2, <2>3, <3>1, Sizes DEF MinOf
  <2>5. /\ f[b].hi = MinOf(e + 1, Base(b) + H(b)) /\ f[b].lo < f[b].hi /\ f[b] # NoBytes
        /\ f[b + 1].lo = MaxOf(s, Base(b + 1))
    BY <1>5, <2>1
  <2>6. f[b].hi = Base(b + 1) /\ f[b + 1].lo = Base(b + 1)
    BY <1>2, <2>2, <2>3, <2>4, <2>5, Sizes DEF MinOf, MaxOf
  <2> QED
    BY <1>2, <2>1, <2>5, <2>6 DEF Abuts
<1>7. m \in m .. n /\ n \in m .. n /\ m \in Int /\ n \in Int
  BY <1>2, <1>3
<1>8. f[m].lo = s /\ f[m] # NoBytes
  <2>1. f[m].lo = MaxOf(s, Base(m)) /\ f[m] # NoBytes
    BY <1>5, <1>7
  <2> QED
    BY <1>2, <2>1 DEF MaxOf
<1>9. f[n].hi = e + 1 /\ f[n] # NoBytes
  <2>1. f[n].hi = MinOf(e + 1, Base(n) + H(n)) /\ f[n] # NoBytes
    BY <1>5, <1>7
  <2>2. H(n) \in Nat /\ MinOf(e - Base(n) + 1, BlockSize) <= H(n)
    BY <1>4, <1>7
  <2>3. e + 1 <= Base(n) + H(n)
    BY <1>2, <2>2, Sizes DEF MinOf
  <2> QED
    BY <1>2, <2>1, <2>2, <2>3 DEF MinOf
<1>10. Joined(f) = Run(f[m].lo, f[n].hi)
  BY <1>2, <1>6, <1>7, <1>8, <1>9, JoinedIs
<1> QED
  BY <1>1, <1>8, <1>9, <1>10

\* Memory covers a range if every byte of it, up to the known end, is in memory.
LEMMA CoversIs ==
    ASSUME Truthful, NEW s \in Nat, NEW e \in Nat, s <= e, s < Size
    PROVE  Served!Covers(s, e) <=> \A i \in s .. Served!Clamped(e) : Served!Cached(i)
<1> DEFINE c == Served!Clamped(e)
           m == s \div BlockSize
           n == c \div BlockSize
<1>1. c \in Nat /\ s <= c
  BY Sizes DEF Served!Clamped, Served!MinOf
<1>2. Served!Covers(s, e) <=>
        \A b \in m .. n : /\ b \in DOMAIN cache
                          /\ Served!Held(b) > MinOf(c - Base(b), BlockSize - 1)
  BY Sizes DEF Served!Covers, Served!MinOf, MinOf, Served!Base, Base
<1> HIDE DEF c
<1>3. /\ m \in Nat /\ Base(m) \in Nat /\ Base(m) <= s /\ s < Base(m) + BlockSize
      /\ n \in Nat /\ Base(n) \in Nat /\ Base(n) <= c /\ c < Base(n) + BlockSize
  BY <1>1, DivBounds, BaseNat
<1> HIDE DEF m, n
<1>4. ASSUME NEW b \in m .. n
      PROVE  b \in Nat /\ Base(b) \in Nat /\ Base(b) <= c /\ s < Base(b) + BlockSize
             /\ Served!Held(b) \in Nat /\ (Served!Held(b) > 0 => b \in DOMAIN cache)
  <2>1. b \in Nat /\ Base(b) \in Nat
    BY <1>3, BaseNat
  <2>2. m = b \/ Base(m) + BlockSize <= Base(b)
    BY <1>3, <2>1, BaseStep
  <2>3. b = n \/ Base(b) + BlockSize <= Base(n)
    BY <1>3, <2>1, BaseStep
  <2>4. Base(b) <= c /\ s < Base(b) + BlockSize
    BY <1>1, <1>3, <2>1, <2>2, <2>3, Sizes
  <2>5. Served!Held(b) \in Nat /\ (Served!Held(b) > 0 => b \in DOMAIN cache)
    BY <2>1, HeldIs
  <2> QED
    BY <2>1, <2>4, <2>5
<1>5. ASSUME Served!Covers(s, e), NEW i \in s .. c PROVE Served!Cached(i)
  <2> DEFINE b == i \div BlockSize
  <2>1. i \in Nat
    BY <1>1
  <2>2. b \in Nat /\ Base(b) \in Nat /\ Base(b) <= i /\ i < Base(b) + BlockSize
    BY <2>1, DivBounds, BaseNat
  <2> HIDE DEF b
  <2>3. ~(b < m) /\ ~(n < b)
    BY <1>1, <1>3, <2>1, <2>2, BaseStep, Sizes
  <2>4. b \in m .. n
    BY <1>3, <2>2, <2>3
  <2>5. Served!Held(b) > MinOf(c - Base(b), BlockSize - 1) /\ Served!Held(b) \in Nat
    BY <1>2, <1>4, <1>5, <2>4
  <2>6. i - Base(b) < Served!Held(b)
    BY <1>1, <2>1, <2>2, <2>5, Sizes DEF MinOf
  <2> QED
    BY <2>1, <2>2, <2>6, CachedIs
<1>6. ASSUME \A i \in s .. c : Served!Cached(i), NEW b \in m .. n
      PROVE  b \in DOMAIN cache /\ Served!Held(b) > MinOf(c - Base(b), BlockSize - 1)
  <2> DEFINE x == MinOf(c, Base(b) + BlockSize - 1)
  <2>1. b \in Nat /\ Base(b) \in Nat /\ Base(b) <= c /\ s < Base(b) + BlockSize
        /\ Served!Held(b) \in Nat /\ (Served!Held(b) > 0 => b \in DOMAIN cache)
    BY <1>4
  <2>2. x \in s .. c /\ x \in Nat /\ Base(b) <= x /\ x < Base(b) + BlockSize
        /\ x - Base(b) = MinOf(c - Base(b), BlockSize - 1) /\ x - Base(b) >= 0
    BY <1>1, <2>1, Sizes DEF MinOf
  <2> HIDE DEF x
  <2>3. x - Base(b) < Served!Held(b)
    BY <1>6, <2>1, <2>2, CachedIs
  <2> QED
    BY <2>1, <2>2, <2>3
<1> QED
  BY <1>2, <1>5, <1>6 DEF c

-----------------------------------------------------------------------------
(* The walk over the blocks that prefix makes.                             *)

\* The bytes from p on are in memory up to x: the next is missing or behind limit.
Reaches(p, x, limit) ==
    /\ x \in p .. limit + 1
    /\ \A i \in p .. x - 1 : Served!Cached(i)
    /\ x <= limit => ~Served!Cached(x)

\* What is in memory from an offset on ends somewhere.
LEMMA ReachExists ==
    ASSUME NEW p \in Nat, NEW limit \in Nat, p <= limit
    PROVE  \E x \in Nat : Reaches(p, x, limit)
<1> DEFINE C(i) == Served!Cached(i)
           Ends == {x \in p .. limit + 1 : x <= limit => ~C(x)}
<1> HIDE DEF C
<1>1. limit + 1 \in Ends /\ Ends \subseteq Nat
  OBVIOUS
<1>2. PICK x \in Ends : \A y \in Ends : ~(<<y, x>> \in OpToRel(<, Nat))
  BY <1>1, NatLessThanWellFounded, WFMin
<1>3. \A y \in Ends : ~(y < x)
  BY <1>1, <1>2 DEF OpToRel
<1>4. ASSUME NEW i \in p .. x - 1 PROVE C(i)
  <2>1. x \in p .. limit + 1
    OBVIOUS
  <2>2. i \in p .. limit + 1 /\ i < x /\ i <= limit
    BY <2>1
  <2>3. i \notin Ends
    BY <1>3, <2>2
  <2> QED
    BY <2>2, <2>3
<1>5. x \in Nat /\ x \in p .. limit + 1 /\ (x <= limit => ~C(x))
  BY <1>1, <1>2
<1> QED
  BY <1>4, <1>5 DEF Reaches, C

\* It ends in one place.
LEMMA ReachUnique ==
    ASSUME NEW p \in Nat, NEW limit \in Nat, NEW x \in Nat, NEW y \in Nat,
           Reaches(p, x, limit), Reaches(p, y, limit)
    PROVE  x = y
<1> DEFINE C(i) == Served!Cached(i)
<1>1. /\ x \in p .. limit + 1 /\ y \in p .. limit + 1
      /\ \A i \in p .. x - 1 : C(i)
      /\ \A i \in p .. y - 1 : C(i)
      /\ x <= limit => ~C(x)
      /\ y <= limit => ~C(y)
  BY DEF Reaches
<1> HIDE DEF C
<1> QED
  BY <1>1

\* The end of what a step of the walk copies of the block of pos.
Taken(pos, limit) ==
    MinOf(limit - Base(pos \div BlockSize) + 1, Served!Held(pos \div BlockSize))

Onward(pos, limit) == Base(pos \div BlockSize) + Taken(pos, limit)

\* A step of the walk stops at a byte that is not in memory ...
LEMMA WalkStops ==
    ASSUME Truthful, NEW pos \in Nat, NEW limit \in Nat, pos <= limit
    PROVE  Served!Cached(pos) <=>
               ~(\/ pos \div BlockSize \notin DOMAIN cache
                 \/ pos - Base(pos \div BlockSize) >= Taken(pos, limit))
<1> DEFINE b == pos \div BlockSize
<1>1. b \in Nat /\ Base(b) \in Nat /\ Base(b) <= pos /\ pos < Base(b) + BlockSize
  BY DivBounds, BaseNat
<1>2. Taken(pos, limit) = MinOf(limit - Base(b) + 1, Served!Held(b))
  BY DEF Taken
<1> HIDE DEF b
<1>3. Served!Cached(pos) <=> pos - Base(b) < Served!Held(b)
  BY <1>1, CachedIs
<1>4. Served!Held(b) \in Nat /\ (Served!Held(b) > 0 => b \in DOMAIN cache)
  BY <1>1, HeldIs
<1>5. Served!Cached(pos) <=> ~(b \notin DOMAIN cache \/ pos - Base(b) >= Taken(pos, limit))
  BY <1>1, <1>2, <1>3, <1>4 DEF MinOf
<1> QED
  BY <1>5, Zenon DEF b

\* ... and takes only bytes that are, up to the limit or to the end of the block's.
LEMMA WalkTakes ==
    ASSUME Truthful, NEW pos \in Nat, NEW limit \in Nat, pos <= limit, Served!Cached(pos)
    PROVE  /\ Onward(pos, limit) \in Nat
           /\ pos < Onward(pos, limit) /\ Onward(pos, limit) <= limit + 1
           /\ \A i \in pos .. Onward(pos, limit) - 1 : Served!Cached(i)
           /\ Taken(pos, limit) < Served!Held(pos \div BlockSize) => Onward(pos, limit) = limit + 1
<1> DEFINE b == pos \div BlockSize
           h == Served!Held(b)
<1>1. b \in Nat /\ Base(b) \in Nat /\ Base(b) <= pos /\ pos < Base(b) + BlockSize
  BY DivBounds, BaseNat
<1>2. /\ Taken(pos, limit) = MinOf(limit - Base(b) + 1, h)
      /\ Onward(pos, limit) = Base(b) + Taken(pos, limit)
  BY DEF Taken, Onward
<1> HIDE DEF b
<1>3. h \in Nat /\ h <= BlockSize
  BY <1>1, HeldIs
<1>4. pos - Base(b) < h
  BY <1>1, CachedIs
<1>5. ASSUME NEW i \in pos .. Onward(pos, limit) - 1 PROVE Served!Cached(i)
  <2> HIDE DEF h
  <2>1. i \in Nat /\ Base(b) <= i /\ i < Base(b) + BlockSize /\ i - Base(b) < h
    BY <1>1, <1>2, <1>3, <1>4, Sizes DEF MinOf
  <2> QED
    BY <1>1, <2>1, CachedIs DEF h
<1> HIDE DEF h
<1>6. /\ Onward(pos, limit) \in Nat
      /\ pos < Onward(pos, limit) /\ Onward(pos, limit) <= limit + 1
      /\ Taken(pos, limit) < h => Onward(pos, limit) = limit + 1
  BY <1>1, <1>2, <1>3, <1>4 DEF MinOf
<1>7. Taken(pos, limit) < Served!Held(pos \div BlockSize) => Onward(pos, limit) = limit + 1
  BY <1>6, Zenon DEF b, h
<1> QED
  BY <1>5, <1>6, <1>7

\* What a function that is the walk of PrefixEnd satisfies.
WalkEq(w, e) ==
    w = [pos \in 0 .. Size |->
            LET b == pos \div BlockSize
                hi == MinOf(Served!Clamped(e) - Base(b) + 1, Served!Held(b))
            IN  IF pos > Served!Clamped(e) \/ b \notin DOMAIN cache \/ pos - Base(b) >= hi
                THEN pos
                ELSE IF hi < Served!Held(b) \/ Base(b) + hi > Served!Clamped(e)
                     THEN Base(b) + hi
                     ELSE w[Base(b) + hi]]

\* The walk, one step at a time.
LEMMA WalkUnfolds ==
    ASSUME NEW w, NEW e \in Nat
    PROVE  WalkEq(w, e) <=>
             /\ w = [pos \in 0 .. Size |-> w[pos]]
             /\ \A pos \in 0 .. Size :
                  w[pos] = IF \/ pos > Served!Clamped(e)
                              \/ pos \div BlockSize \notin DOMAIN cache
                              \/ pos - Base(pos \div BlockSize) >= Taken(pos, Served!Clamped(e))
                           THEN pos
                           ELSE IF \/ Taken(pos, Served!Clamped(e))
                                         < Served!Held(pos \div BlockSize)
                                   \/ Onward(pos, Served!Clamped(e)) > Served!Clamped(e)
                                THEN Onward(pos, Served!Clamped(e))
                                ELSE w[Onward(pos, Served!Clamped(e))]
<1> DEFINE G(pos) ==
             IF \/ pos > Served!Clamped(e)
                \/ pos \div BlockSize \notin DOMAIN cache
                \/ pos - Base(pos \div BlockSize) >= Taken(pos, Served!Clamped(e))
             THEN pos
             ELSE IF \/ Taken(pos, Served!Clamped(e)) < Served!Held(pos \div BlockSize)
                     \/ Onward(pos, Served!Clamped(e)) > Served!Clamped(e)
                  THEN Onward(pos, Served!Clamped(e))
                  ELSE w[Onward(pos, Served!Clamped(e))]
<1>1. WalkEq(w, e) <=> w = [pos \in 0 .. Size |-> G(pos)]
  BY DEF WalkEq, Taken, Onward
<1> HIDE DEF G
<1>2. w = [pos \in 0 .. Size |-> G(pos)] <=>
        w = [pos \in 0 .. Size |-> w[pos]] /\ \A pos \in 0 .. Size : w[pos] = G(pos)
  OBVIOUS
<1> QED
  BY <1>1, <1>2 DEF G

\* A step of the walk, for a byte that is in memory and for one that is not.
LEMMA WalkStep ==
    ASSUME Truthful, NEW w, NEW e \in Nat, NEW pos \in 0 .. Size, WalkEq(w, e)
    PROVE  LET limit == Served!Clamped(e)
           IN  w[pos] = IF pos > limit \/ ~Served!Cached(pos)
                        THEN pos
                        ELSE IF Onward(pos, limit) > limit
                             THEN Onward(pos, limit)
                             ELSE w[Onward(pos, limit)]
<1> DEFINE limit == Served!Clamped(e)
<1>1. limit \in Nat /\ pos \in Nat
  BY Sizes DEF Served!Clamped, Served!MinOf
<1>2. w[pos] = IF \/ pos > limit
                  \/ pos \div BlockSize \notin DOMAIN cache
                  \/ pos - Base(pos \div BlockSize) >= Taken(pos, limit)
               THEN pos
               ELSE IF \/ Taken(pos, limit) < Served!Held(pos \div BlockSize)
                       \/ Onward(pos, limit) > limit
                    THEN Onward(pos, limit)
                    ELSE w[Onward(pos, limit)]
  BY WalkUnfolds
<1> HIDE DEF limit
<1>3. CASE pos > limit
  BY <1>1, <1>2, <1>3 DEF limit
<1>4. CASE pos <= limit /\ ~Served!Cached(pos)
  BY <1>1, <1>2, <1>4, WalkStops DEF limit
<1>5. CASE pos <= limit /\ Served!Cached(pos)
  <2>1. ~(\/ pos \div BlockSize \notin DOMAIN cache
          \/ pos - Base(pos \div BlockSize) >= Taken(pos, limit))
    BY <1>1, <1>5, WalkStops
  <2>2. Taken(pos, limit) < Served!Held(pos \div BlockSize) => Onward(pos, limit) > limit
    BY <1>1, <1>5, WalkTakes
  <2>3. w[pos] = IF Onward(pos, limit) > limit
                 THEN Onward(pos, limit)
                 ELSE w[Onward(pos, limit)]
    BY <1>1, <1>2, <1>5, <2>1, <2>2
  <2> QED
    BY <1>1, <1>5, <2>3 DEF limit
<1> QED
  BY <1>1, <1>3, <1>4, <1>5

\* There is such a function.
LEMMA WalkExists == ASSUME Truthful, NEW e \in Nat PROVE \E w : WalkEq(w, e)
<1> DEFINE limit == Served!Clamped(e)
           Goal(p) == CHOOSE x \in Nat : Reaches(p, x, limit)
           w == [pos \in 0 .. Size |-> IF pos > limit THEN pos ELSE Goal(pos)]
<1>1. limit \in Nat /\ limit < Size
  BY Sizes DEF Served!Clamped, Served!MinOf
<1>2. ASSUME NEW pos \in 0 .. Size
      PROVE  w[pos] = IF \/ pos > limit
                         \/ pos \div BlockSize \notin DOMAIN cache
                         \/ pos - Base(pos \div BlockSize) >= Taken(pos, limit)
                      THEN pos
                      ELSE IF \/ Taken(pos, limit) < Served!Held(pos \div BlockSize)
                              \/ Onward(pos, limit) > limit
                           THEN Onward(pos, limit)
                           ELSE w[Onward(pos, limit)]
  <2>1. pos \in Nat
    BY Sizes
  <2> HIDE DEF limit
  <2>2. CASE pos > limit
    BY <2>1, <2>2
  <2>3. ASSUME pos <= limit PROVE w[pos] \in Nat /\ Reaches(pos, w[pos], limit)
    <3>1. Goal(pos) \in Nat /\ Reaches(pos, Goal(pos), limit)
      BY <1>1, <2>1, <2>3, ReachExists
    <3>2. w[pos] = Goal(pos)
      BY <1>1, <2>1, <2>3
    <3> QED
      BY <3>1, <3>2
  <2>4. CASE pos <= limit /\ ~Served!Cached(pos)
    <3>1. Reaches(pos, pos, limit)
      BY <1>1, <2>1, <2>4 DEF Reaches
    <3>2. w[pos] = pos
      BY <1>1, <2>1, <2>3, <2>4, <3>1, ReachUnique
    <3> HIDE DEF w
    <3> QED
      BY <1>1, <2>1, <2>4, <3>2, WalkStops
  <2>5. CASE pos <= limit /\ Served!Cached(pos)
    <3> DEFINE q == Onward(pos, limit)
    <3>1. /\ q \in Nat /\ pos < q /\ q <= limit + 1
          /\ \A i \in pos .. q - 1 : Served!Cached(i)
          /\ Taken(pos, limit) < Served!Held(pos \div BlockSize) => q = limit + 1
      BY <1>1, <2>1, <2>5, WalkTakes
    <3>2. ~(\/ pos \div BlockSize \notin DOMAIN cache
            \/ pos - Base(pos \div BlockSize) >= Taken(pos, limit))
      BY <1>1, <2>1, <2>5, WalkStops
    <3>3. CASE q > limit
      <4>1. Reaches(pos, q, limit)
        BY <1>1, <2>1, <3>1, <3>3 DEF Reaches
      <4>2. w[pos] = q
        BY <1>1, <2>1, <2>3, <2>5, <3>1, <4>1, ReachUnique
      <4> HIDE DEF w
      <4> QED
        BY <2>5, <1>1, <3>2, <3>3, <4>2
    <3>4. CASE q <= limit
      <4>1. w[q] = Goal(q) /\ Goal(q) \in Nat /\ Reaches(q, Goal(q), limit)
        <5>1. Goal(q) \in Nat /\ Reaches(q, Goal(q), limit)
          BY <1>1, <3>1, <3>4, ReachExists
        <5>2. q \in 0 .. Size /\ ~(q > limit)
          BY <1>1, <3>1, <3>4, Sizes
        <5> HIDE DEF q, Goal
        <5> QED
          BY <5>1, <5>2
      <4> HIDE DEF w, Goal
      <4>2. Reaches(pos, w[q], limit)
        <5> DEFINE x == w[q]
                   C(i) == Served!Cached(i)
        <5>1. /\ x \in Nat /\ x \in q .. limit + 1
              /\ \A i \in q .. x - 1 : C(i)
              /\ \A i \in pos .. q - 1 : C(i)
              /\ x <= limit => ~C(x)
          BY <4>1, <3>1 DEF Reaches
        <5> HIDE DEF x, C, q
        <5>2. x \in pos .. limit + 1 /\ \A i \in pos .. x - 1 : C(i)
          BY <1>1, <2>1, <3>1, <5>1
        <5> QED
          BY <5>1, <5>2 DEF Reaches, x, C
      <4>3. w[pos] = w[q]
        BY <1>1, <2>1, <2>3, <2>5, <4>1, <4>2, ReachUnique
      <4> HIDE DEF q
      <4>4. ~(Taken(pos, limit) < Served!Held(pos \div BlockSize) \/ q > limit)
        BY <1>1, <3>1, <3>4
      <4> QED
        BY <1>1, <2>1, <2>5, <3>2, <4>3, <4>4 DEF q
    <3> QED
      BY <1>1, <3>1, <3>3, <3>4
  <2> QED
    BY <1>1, <2>1, <2>2, <2>4, <2>5
<1>3. w = [pos \in 0 .. Size |-> w[pos]]
  OBVIOUS
<1> HIDE DEF w
<1>4. WalkEq(w, e)
  BY <1>2, <1>3, WalkUnfolds
<1> QED
  BY <1>4

\* It goes to the end of what is in memory.
LEMMA WalkReaches ==
    ASSUME Truthful, NEW w, NEW e \in Nat, WalkEq(w, e),
           NEW s \in Nat, s <= Served!Clamped(e)
    PROVE  w[s] \in Nat /\ Reaches(s, w[s], Served!Clamped(e))
<1> DEFINE limit == Served!Clamped(e)
           Good(p) == w[p] \in Nat /\ Reaches(p, w[p], limit)
           Bad == {d \in 0 .. limit : ~Good(limit - d)}
<1>1. limit \in Nat /\ limit < Size
  BY Sizes DEF Served!Clamped, Served!MinOf
<1>2. ASSUME NEW p \in 0 .. limit, \A q \in p + 1 .. limit : Good(q) PROVE Good(p)
  <2>1. /\ p \in 0 .. Size /\ p \in Nat /\ p <= limit
    BY <1>1, Sizes
  <2>2. w[p] = IF p > limit \/ ~Served!Cached(p)
               THEN p
               ELSE IF Onward(p, limit) > limit THEN Onward(p, limit) ELSE w[Onward(p, limit)]
    BY <2>1, WalkStep
  <2> DEFINE q == Onward(p, limit)
  <2> HIDE DEF limit
  <2>3. CASE ~Served!Cached(p)
    BY <1>1, <2>1, <2>2, <2>3 DEF Reaches
  <2>4. CASE Served!Cached(p)
    <3>1. /\ q \in Nat /\ p < q /\ q <= limit + 1
          /\ \A i \in p .. q - 1 : Served!Cached(i)
      BY <1>1, <2>1, <2>4, WalkTakes
    <3>2. CASE q > limit
      <4>1. w[p] = q
        <5>1. ~(p > limit)
          BY <1>1, <2>1
        <5> QED
          BY <2>2, <2>4, <3>2, <5>1, Zenon DEF limit
      <4> HIDE DEF q
      <4> QED
        BY <1>1, <2>1, <3>1, <3>2, <4>1 DEF Reaches
    <3>3. CASE ~(q > limit)
      <4>1. w[p] = w[q]
        <5>1. ~(p > limit) /\ ~(q > limit)
          BY <1>1, <2>1, <3>3
        <5> QED
          BY <2>2, <2>4, <5>1, Zenon DEF limit
      <4>2. q \in p + 1 .. limit
        BY <1>1, <2>1, <3>1, <3>3
      <4> HIDE DEF q
      <4>3. w[q] \in Nat /\ Reaches(q, w[q], limit)
        BY <1>2, <4>2
      <4> DEFINE x == w[q]
                 C(i) == Served!Cached(i)
      <4>4. /\ x \in Nat /\ x \in q .. limit + 1
            /\ \A i \in q .. x - 1 : C(i)
            /\ \A i \in p .. q - 1 : C(i)
            /\ x <= limit => ~C(x)
        BY <4>3, <3>1 DEF Reaches
      <4> HIDE DEF x, C
      <4>5. x \in p .. limit + 1 /\ \A i \in p .. x - 1 : C(i)
        BY <1>1, <2>1, <3>1, <4>4
      <4>6. x \in Nat /\ Reaches(p, x, limit)
        BY <4>4, <4>5 DEF Reaches, C
      <4> QED
        BY <4>1, <4>6 DEF x
    <3> QED
      BY <3>2, <3>3
  <2> QED
    BY <2>3, <2>4
<1> HIDE DEF Good, limit
<1>3. Bad = {}
  <2> SUFFICES ASSUME Bad # {} PROVE FALSE
    OBVIOUS
  <2>1. Bad \subseteq Nat
    BY <1>1
  <2>2. PICK d \in Bad : \A c \in Bad : ~(<<c, d>> \in OpToRel(<, Nat))
    BY <2>1, NatLessThanWellFounded, WFMin
  <2>3. \A c \in Bad : ~(c < d)
    BY <2>1, <2>2 DEF OpToRel
  <2>4. d \in 0 .. limit /\ ~Good(limit - d)
    OBVIOUS
  <2>5. limit - d \in 0 .. limit
    BY <1>1, <2>4
  <2>6. ASSUME NEW q \in (limit - d) + 1 .. limit PROVE Good(q)
    <3>1. limit - q \in 0 .. limit /\ limit - q < d /\ limit - (limit - q) = q
      BY <1>1, <2>4
    <3>2. limit - q \notin Bad
      BY <2>3, <3>1
    <3> QED
      BY <3>1, <3>2
  <2> QED
    BY <1>2, <2>4, <2>5, <2>6
<1>4. Good(s)
  <2>1. limit - s \in 0 .. limit /\ limit - (limit - s) = s
    BY <1>1 DEF limit
  <2>2. limit - s \notin Bad
    BY <1>3
  <2> QED
    BY <2>1, <2>2
<1> QED
  BY <1>4 DEF Good, limit

\* So does PrefixEnd, which is that walk.
LEMMA PrefixEndIs ==
    ASSUME Truthful, NEW s \in Nat, NEW e \in Nat, s <= Served!Clamped(e)
    PROVE  /\ Served!PrefixEnd(s, e) \in Nat
           /\ Reaches(s, Served!PrefixEnd(s, e), Served!Clamped(e))
<1> DEFINE w == CHOOSE f : WalkEq(f, e)
<1>1. WalkEq(w, e)
  BY WalkExists
<1>2. Served!PrefixEnd(s, e) = w[s]
  BY DEF Served!PrefixEnd, WalkEq, Served!MinOf, MinOf, Served!Base, Base
<1> HIDE DEF w
<1>3. w[s] \in Nat /\ Reaches(s, w[s], Served!Clamped(e))
  BY <1>1, WalkReaches
<1> QED
  BY <1>2, <1>3

\* What Stream finds of a range in memory: nothing, if the first byte is missing,
\* else all bytes from the first on, up to the end or to the first that is missing.
LEMMA PrefixIs ==
    ASSUME Truthful, NEW s \in Nat, NEW e \in Nat
    PROVE  /\ Served!Prefix(s, e) = NoBytes => e < s \/ s >= Size \/ ~Served!Cached(s)
           /\ Served!Prefix(s, e) # NoBytes =>
                /\ s <= e /\ s < Size
                /\ \E x \in Nat : /\ s < x /\ Reaches(s, x, Served!Clamped(e))
                                  /\ Served!Prefix(s, e) = Run(s, x)
<1> DEFINE x == Served!PrefixEnd(s, e)
           limit == Served!Clamped(e)
<1>1. CASE e < s \/ s >= Size
  <2>1. Served!Prefix(s, e) = NoBytes
    BY <1>1 DEF Served!Prefix, Served!NoBytes, NoBytes
  <2> QED
    BY <1>1, <2>1
<1>2. CASE s <= e /\ s < Size
  <2>1. limit \in Nat /\ s <= limit
    BY <1>2, Sizes DEF Served!Clamped, Served!MinOf
  <2>2. x \in Nat /\ Reaches(s, x, limit)
    BY <2>1, PrefixEndIs
  <2>3. ~(e < s) /\ ~(s >= Size)
    BY <1>2, Sizes
  <2>4. Served!Prefix(s, e) = IF x = s THEN NoBytes ELSE Served!Copied(s, x - 1)
    BY <2>3 DEF Served!Prefix, Served!NoBytes, NoBytes
  <2> HIDE DEF x, limit
  <2>5. x \in s .. limit + 1 /\ (\A i \in s .. x - 1 : Served!Cached(i))
        /\ (x <= limit => ~Served!Cached(x))
    BY <2>2 DEF Reaches
  <2>6. CASE x = s
    <3>1. Served!Prefix(s, e) = NoBytes /\ ~Served!Cached(s)
      BY <2>1, <2>4, <2>5, <2>6
    <3> QED
      BY <3>1
  <2>7. CASE x # s
    <3>1. s < x /\ x - 1 \in Nat /\ s <= x - 1 /\ (x - 1) + 1 = x
      BY <2>2, <2>5, <2>7
    <3>2. Served!Copied(s, x - 1) = Run(s, (x - 1) + 1)
      BY <2>5, <3>1, CopiedIs
    <3>3. Served!Prefix(s, e) = Run(s, x)
      BY <2>4, <2>7, <3>1, <3>2
    <3>4. Run(s, x) # NoBytes
      BY <2>2, <3>1 DEF Run, NoBytes
    <3> QED
      BY <1>2, <2>2, <3>1, <3>3, <3>4 DEF limit
  <2> QED
    BY <2>6, <2>7
<1> QED
  BY <1>1, <1>2, Sizes

-----------------------------------------------------------------------------
(* The inductive invariant.                                                *)

Labels == {"idle", "read", "stream", "rest"}

STyped ==
    /\ retained \in BOOLEAN
    /\ sreq \in Nat \X Nat
    /\ spc \in Labels

\* Nothing is served before the snapshot; from then on the blocks are truthful.
Phased == (~retained => NothingServed) /\ (retained => Truthful)

\* A call has not begun to answer, or has sent what was in memory and goes on.
Underway ==
    /\ spc \in {"read", "stream"} => sent = NoBytes
    /\ spc \in {"read", "stream", "rest"} => below = <<>> /\ ret = "none"
    /\ spc = "rest" =>
          /\ sent = Served!Prefix(Served!Lo, Served!Hi)
          /\ sent # NoBytes
          /\ Served!Lo + RunLen(sent) <= Served!Hi

ACInv == Inv /\ Fresh /\ STyped /\ Phased /\ Underway

\* The invariant holds at the start.
LEMMA ACInitHolds == ACInit => ACInv
<1> SUFFICES ASSUME ACInit PROVE ACInv
  OBVIOUS
<1>1. Inv /\ Fresh
  BY InitInv, InitRefines DEF ACInit
<1>2. STyped /\ Phased /\ Underway
  BY DEF ACInit, NothingServed, STyped, Phased, Underway, Labels
<1> QED
  BY <1>1, <1>2 DEF ACInv

\* The range asked for, in numbers.
LEMMA Normalized ==
    ASSUME STyped
    PROVE  /\ Served!Lo \in Nat /\ Served!Hi \in Nat
           /\ Served!Lo = sreq[1]
           /\ sreq[1] \in Nat /\ sreq[2] \in Nat
           /\ sreq = <<sreq[1], sreq[2]>>
           /\ sreq[1] = 0 /\ sreq[2] = 0 => Served!Lo = 0 /\ Served!Hi = Size - 1
           /\ ~(sreq[1] = 0 /\ sreq[2] = 0) => Served!Hi = sreq[2]
           /\ ~Served!Inverted(sreq) => Served!Lo <= Served!Hi
  BY Sizes DEF STyped, Served!Lo, Served!Hi, Served!Normalize, Served!Inverted

\* The probe goes on.
LEMMA ProbeHolds == ASSUME ACInv, Probe PROVE ACInv'
<1>1. Inv' /\ Fresh'
  BY NextInv, FreshStep DEF ACInv, Probe
<1>2. STyped' /\ Phased' /\ Underway'
  BY DEF ACInv, Probe, servedVars, STyped, Phased, NothingServed, Underway
<1> QED
  BY <1>1, <1>2 DEF ACInv

\* The blocks are handed over.
LEMMA SnapshotHolds == ASSUME ACInv, Snapshot PROVE ACInv'
<1>1. /\ TypeOK' /\ BlocksDetermined' /\ ServedExact' /\ Fresh'
      /\ \A r \in Readers : ReaderInv(r)'
  <2>1. TypeOK'
    <3>1. NoBytes \in Runs(Actual) /\ 0 \in Nat
      BY ReadCacheAssumption DEF NoBytes, Runs
    <3> QED
      BY <3>1 DEF ACInv, Inv, TypeOK, Snapshot, Outcomes
  <2>2. BlocksDetermined'
    BY DEF ACInv, Inv, BlocksDetermined, Snapshot, TheBlock, BlockEnd, BlockLimit
  <2>3. \A r \in Readers : pc'[r] = "idle" /\ outcome'[r] = "none"
    BY DEF Snapshot
  <2> QED
    BY <2>1, <2>2, <2>3 DEF ServedExact, Fresh, ReaderInv
<1>2. Truthful'
  <2>1. cache' = blocks' /\ Inv'
    BY <1>1 DEF Inv, Snapshot
  <2> QED
    BY <2>1, ProbedTruthfulNext
<1>3. STyped' /\ Phased' /\ Underway'
  BY <1>2 DEF ACInv, Snapshot, STyped, Phased, NothingServed, Underway
<1> QED
  BY <1>1, <1>3 DEF ACInv, Inv

\* Serving leaves the blocks and the probe alone.
LEMMA Framed ==
    ASSUME ACInv, retained' = retained, retained, UNCHANGED vars, cache' = cache
    PROVE  Inv' /\ Fresh' /\ Truthful'
<1>1. Inv' /\ Fresh'
  BY NextInv, FreshStep DEF ACInv
<1>2. Truthful
  BY DEF ACInv, Phased
<1>3. Truthful'
  BY <1>2 DEF Truthful, Served!Held
<1> QED
  BY <1>1, <1>3

\* A client calls, is answered, or waits for the rest.
LEMMA ServeHolds == ASSUME ACInv, Serve PROVE ACInv'
<1>1. /\ retained /\ retained' = retained /\ Served!Next /\ UNCHANGED vars
  BY DEF Serve
<1>2. cache' = cache /\ STyped' /\ Underway'
  <2>1. STyped /\ Underway
    BY DEF ACInv
  <2>2. CASE Served!Call
    <3>1. cache' = cache /\ STyped'
      BY <1>1, <2>1, <2>2, Sizes DEF STyped, Labels, Served!Call
    <3>2. Underway'
      BY <2>2 DEF Underway, Served!Call, Served!NoBytes, NoBytes
    <3> QED
      BY <3>1, <3>2
  <2>3. CASE Served!StreamPrefix
    <3>1. cache' = cache /\ sreq' = sreq /\ below' = below /\ spc = "stream"
      BY <2>3 DEF Served!StreamPrefix
    <3>2. spc' = "idle" \/ /\ spc' = "rest" /\ ret' = ret
                           /\ sent' = Served!Prefix(Served!Lo, Served!Hi)
                           /\ ~(Served!Lo + Served!RunLen(sent') > Served!Hi)
      BY <2>3 DEF Served!StreamPrefix, Served!Return
    <3>3. CASE spc' = "idle"
      BY <1>1, <2>1, <3>1, <3>3 DEF STyped, Labels, Underway
    <3>4. CASE spc' # "idle"
      <4>1. /\ Served!Prefix(Served!Lo, Served!Hi) # NoBytes
        BY <2>3 DEF Served!StreamPrefix, Served!NoBytes, NoBytes
      <4>2. sent' = Served!Prefix(Served!Lo, Served!Hi) /\ spc' = "rest" /\ ret' = ret
            /\ ~(Served!Lo + Served!RunLen(sent') > Served!Hi)
        BY <3>2, <3>4
      <4>3. Served!Lo' = Served!Lo /\ Served!Hi' = Served!Hi
        BY <3>1 DEF Served!Lo, Served!Hi
      <4>4. Served!Prefix(Served!Lo, Served!Hi)' = Served!Prefix(Served!Lo, Served!Hi)
        BY <3>1, <4>3 DEF Served!Prefix, Served!PrefixEnd, Served!Copied, Served!Held
      <4>5. RunLen(sent') \in Int /\ Served!RunLen(sent') = RunLen(sent')
        <5>1. PICK x \in Nat : sent' = Run(Served!Lo, x) /\ Served!Lo < x
          BY <1>1, <2>1, <4>1, <4>2, PrefixIs, Normalized DEF ACInv, Phased
        <5>2. Served!Lo \in Nat
          BY <2>1, Normalized
        <5> QED
          BY <5>1, <5>2 DEF Run, RunLen, Served!RunLen
      <4>6. Served!Lo + RunLen(sent') <= Served!Hi
        <5>1. Served!Lo \in Nat /\ Served!Hi \in Nat
          BY <2>1, Normalized
        <5> QED
          BY <4>2, <4>5, <5>1
      <4>7. STyped'
        BY <1>1, <2>1, <3>1, <4>2 DEF STyped, Labels
      <4>8. Underway'
        <5>1. below = <<>> /\ ret = "none"
          BY <2>1, <3>1 DEF Underway
        <5> QED
          BY <3>1, <4>1, <4>2, <4>3, <4>4, <4>6, <5>1 DEF Underway, RunLen
      <4> QED
        BY <3>1, <4>7, <4>8
    <3> QED
      BY <3>1, <3>3, <3>4
  <2>4. CASE Served!ReadCached \/ Served!ReadBelow \/ Served!StreamBelow \/ Served!StreamRest
    <3>1. cache' = cache /\ sreq' = sreq /\ spc' = "idle"
      BY <2>4 DEF Served!ReadCached, Served!ReadBelow, Served!StreamBelow, Served!StreamRest,
                  Served!Below, Served!Return
    <3> QED
      BY <1>1, <2>1, <3>1 DEF STyped, Labels, Underway
  <2> QED
    BY <1>1, <2>2, <2>3, <2>4 DEF Served!Next, Served!Step
<1>3. Inv' /\ Fresh' /\ Truthful'
  BY <1>1, <1>2, Framed
<1>4. Phased'
  BY <1>1, <1>3 DEF Phased
<1> QED
  BY <1>2, <1>3, <1>4 DEF ACInv

\* Every step keeps the invariant.
LEMMA ACNextHolds == ASSUME ACInv, [ACNext]_ACVars PROVE ACInv'
<1>1. CASE UNCHANGED ACVars
  <2>1. Inv' /\ Fresh'
    BY <1>1, NextInv, FreshStep DEF ACInv, ACVars
  <2>2. UNCHANGED servedVars /\ retained' = retained
    BY <1>1 DEF ACVars
  <2>3. STyped' /\ Underway'
    <3>1. cache' = cache /\ sreq' = sreq
      BY <2>2 DEF servedVars
    <3>2. Served!Lo' = Served!Lo /\ Served!Hi' = Served!Hi
      BY <3>1 DEF Served!Lo, Served!Hi
    <3>3. Served!Prefix(Served!Lo, Served!Hi)' = Served!Prefix(Served!Lo, Served!Hi)
      BY <3>1, <3>2 DEF Served!Prefix, Served!PrefixEnd, Served!Copied, Served!Held
    <3> QED
      BY <2>2, <3>2, <3>3 DEF ACInv, servedVars, STyped, Underway
  <2>4. NothingServed => NothingServed'
    BY <2>2 DEF servedVars, NothingServed
  <2>5. Truthful => Truthful'
    BY <2>2 DEF servedVars, Truthful, Served!Held
  <2> QED
    BY <2>1, <2>2, <2>3, <2>4, <2>5 DEF ACInv, Phased
<1> QED
  BY <1>1, ProbeHolds, SnapshotHolds, ServeHolds DEF ACNext

\* It holds in the life of every file.
THEOREM LifeInvariance == ACSpec => []ACInv
<1>1. ACInv /\ [ACNext]_ACVars => ACInv'
  BY ACNextHolds
<1> QED
  BY <1>1, ACInitHolds, PTL DEF ACSpec

\* While the file is probed and when it is served, whoever stored a block of the
\* map that snapshot shares, it holds the bytes of its own offsets.
THEOREM BlocksStayTruthful == ACSpec => []BlocksTruthful
<1>1. ACInv => Inv
  BY DEF ACInv
<1>2. Inv => BlocksTruthful
  BY InvTruthful
<1> QED
  BY <1>1, <1>2, LifeInvariance, PTL

\* The probe's own reads are exact.
THEOREM ProbeReadsExact == ACSpec => []ServedExact
<1>1. ACInv => ServedExact
  BY DEF ACInv, Inv
<1> QED
  BY <1>1, LifeInvariance, PTL

-----------------------------------------------------------------------------
(* The resource below is asked only for what is missing.                   *)

\* A step that asks it once, for a byte that is missing.
LEMMA AsksOnce ==
    ASSUME NEW op, NEW start, below' = <<[op |-> op, start |-> start]>>,
           cache' = cache, sreq' = sreq,
           ~Served!Inverted(sreq) /\ Served!Lo < Size =>
             IF op = "read"
             THEN \E k \in Served!Lo .. Served!Clamped(Served!Hi) : ~Served!Cached(k)
             ELSE ~Served!Cached(start)
    PROVE  Served!FetchesOnlyMissing'
<1>1. /\ Len(below') = 1 /\ below'[1].op = op /\ below'[1].start = start
  OBVIOUS
<1>2. /\ Served!Lo' = Served!Lo /\ Served!Hi' = Served!Hi
      /\ Served!Inverted(sreq)' = Served!Inverted(sreq)
      /\ \A k : Served!Cached(k)' = Served!Cached(k)
  BY DEF Served!Lo, Served!Hi, Served!Inverted, Served!Cached, Served!Held
<1>3. \A i \in 1 .. Len(below') : i = 1
  BY <1>1
<1> QED
  BY <1>1, <1>2, <1>3 DEF Served!FetchesOnlyMissing

\* A step that has asked nothing.
LEMMA AsksNothing == ASSUME below' = <<>> PROVE Served!FetchesOnlyMissing'
<1>1. Len(below') = 0 /\ 1 .. Len(below') = {}
  OBVIOUS
<1> QED
  BY <1>1 DEF Served!FetchesOnlyMissing

\* What a Read cannot find is missing.
LEMMA ReadMisses ==
    ASSUME ACInv, retained, Served!ReadBelow
    PROVE  Served!FetchesOnlyMissing'
<1>1. /\ below = <<>> /\ cache' = cache /\ sreq' = sreq /\ ~Served!Covers(Served!Lo, Served!Hi)
      /\ below' = Append(below, [op |-> "read", start |-> sreq[1]])
  BY DEF ACInv, Underway, Served!ReadBelow
<1>2. below' = <<[op |-> "read", start |-> sreq[1]]>>
  BY <1>1
<1>3. ASSUME ~Served!Inverted(sreq), Served!Lo < Size
      PROVE  \E k \in Served!Lo .. Served!Clamped(Served!Hi) : ~Served!Cached(k)
  BY <1>1, <1>3, CoversIs, Normalized DEF ACInv, Phased
<1> QED
  BY <1>1, <1>2, <1>3, AsksOnce

\* Nor does a Stream ask for what it found: nothing of the range ...
LEMMA StreamMisses ==
    ASSUME ACInv, retained, Served!StreamBelow
    PROVE  Served!FetchesOnlyMissing'
<1>1. /\ below = <<>> /\ cache' = cache /\ sreq' = sreq
      /\ Served!Prefix(Served!Lo, Served!Hi) = NoBytes
      /\ below' = Append(below, [op |-> "stream", start |-> sreq[1]])
  BY DEF ACInv, Underway, Served!StreamBelow, Served!Below, Served!NoBytes, NoBytes
<1>2. below' = <<[op |-> "stream", start |-> sreq[1]]>>
  BY <1>1
<1>3. ASSUME ~Served!Inverted(sreq), Served!Lo < Size PROVE ~Served!Cached(sreq[1])
  <2>1. /\ Served!Lo \in Nat /\ Served!Hi \in Nat /\ Served!Lo = sreq[1]
        /\ Served!Lo <= Served!Hi
    BY <1>3, Normalized DEF ACInv
  <2>2. Truthful
    BY DEF ACInv, Phased
  <2>3. Served!Hi < Served!Lo \/ Served!Lo >= Size \/ ~Served!Cached(Served!Lo)
    BY <1>1, <2>1, <2>2, PrefixIs
  <2> QED
    BY <1>3, <2>1, <2>3, Sizes
<1> QED
  BY <1>1, <1>2, <1>3, AsksOnce

\* What a Stream has sent before it asks for the rest.
LEMMA RestIs ==
    ASSUME ACInv, retained, spc = "rest"
    PROVE  /\ Served!Lo \in Nat /\ Served!Hi \in Nat /\ Served!Lo < Size
           /\ Served!Lo < Served!Lo + RunLen(sent) /\ Served!Lo + RunLen(sent) <= Served!Hi
           /\ Served!Lo + RunLen(sent) <= Actual /\ Served!Lo + RunLen(sent) \in Nat
           /\ sent = Run(Served!Lo, Served!Lo + RunLen(sent))
           /\ Served!Lo + RunLen(sent) <= Size
           /\ Served!Lo + RunLen(sent) < Size => ~Served!Cached(Served!Lo + RunLen(sent))
<1>1. /\ sent = Served!Prefix(Served!Lo, Served!Hi) /\ sent # NoBytes
      /\ Served!Lo + RunLen(sent) <= Served!Hi
  BY DEF ACInv, Underway
<1>2. Served!Lo \in Nat /\ Served!Hi \in Nat /\ Truthful
  BY Normalized DEF ACInv, Phased
<1>3. /\ Served!Lo <= Served!Hi /\ Served!Lo < Size
      /\ \E x \in Nat : /\ Served!Lo < x /\ Reaches(Served!Lo, x, Served!Clamped(Served!Hi))
                        /\ sent = Run(Served!Lo, x)
  BY <1>1, <1>2, PrefixIs
<1>4. PICK x \in Nat : /\ Served!Lo < x /\ Reaches(Served!Lo, x, Served!Clamped(Served!Hi))
                       /\ sent = Run(Served!Lo, x)
  BY <1>3
<1>5. x = Served!Lo + RunLen(sent)
  BY <1>2, <1>4 DEF Run, RunLen
<1>6. /\ Served!Clamped(Served!Hi) = MinOf(Served!Hi, Size - 1)
  BY DEF Served!Clamped, Served!MinOf, MinOf
<1>7. /\ x \in Served!Lo .. Served!Clamped(Served!Hi) + 1
      /\ \A i \in Served!Lo .. x - 1 : Served!Cached(i)
      /\ x <= Served!Clamped(Served!Hi) => ~Served!Cached(x)
  BY <1>4 DEF Reaches
<1>8. x - 1 \in Nat /\ Served!Cached(x - 1)
  BY <1>2, <1>4, <1>7
<1>9. x - 1 < Actual
  BY <1>2, <1>8, CachedBelow
<1>10. x <= Size /\ (x < Size => x <= Served!Clamped(Served!Hi)) /\ x <= Actual
  BY <1>1, <1>2, <1>4, <1>5, <1>6, <1>7, <1>9, Sizes DEF MinOf
<1> QED
  BY <1>1, <1>2, <1>3, <1>4, <1>5, <1>7, <1>10

\* ... or the first byte behind what it sent.  A file whose size is known to be one
\* byte is read as a whole, and may turn out to hold more.
LEMMA RestMisses ==
    ASSUME ACInv, retained, Served!StreamRest, Size = 1 => Actual <= 1
    PROVE  Served!FetchesOnlyMissing'
<1> DEFINE x == Served!Lo + RunLen(sent)
<1>1. /\ spc = "rest" /\ below = <<>> /\ cache' = cache /\ sreq' = sreq
      /\ below' = Append(below, [op |-> "stream", start |-> x])
  BY DEF ACInv, Underway, Served!StreamRest, Served!Below, Served!RunLen, RunLen
<1>2. below' = <<[op |-> "stream", start |-> x]>>
  BY <1>1
<1>3. /\ x \in Nat /\ x <= Size /\ x <= Actual /\ (x < Size => ~Served!Cached(x))
  BY <1>1, RestIs
<1> HIDE DEF x
<1>4. ~Served!Cached(x)
  <2> SUFFICES ASSUME Served!Cached(x) PROVE FALSE
    OBVIOUS
  <2>1. x = Size
    BY <1>3, Sizes
  <2>2. x < Actual /\ (Size # 1 => x < Size)
    BY <1>3, CachedBelow DEF ACInv, Phased
  <2> QED
    BY <2>1, <2>2, Sizes
<1> QED
  BY <1>1, <1>2, <1>4, AsksOnce

\* When the size 1 is no wrong hint, what memory holds is never fetched again.
THEOREM NothingFetchedTwice ==
    ASSUME Size = 1 => Actual <= 1
    PROVE  ACSpec => []FetchesOnlyMissing
<1>1. ACInit => FetchesOnlyMissing
  BY DEF ACInit, FetchesOnlyMissing
<1>2. ACInv /\ FetchesOnlyMissing /\ [ACNext]_ACVars => FetchesOnlyMissing'
  <2> SUFFICES ASSUME ACInv, FetchesOnlyMissing, [ACNext]_ACVars, retained'
               PROVE  Served!FetchesOnlyMissing'
    BY DEF FetchesOnlyMissing
  <2>1. CASE UNCHANGED ACVars
    <3>1. UNCHANGED servedVars /\ retained
      BY <2>1 DEF ACVars
    <3>2. Served!FetchesOnlyMissing
      BY <3>1 DEF FetchesOnlyMissing
    <3> QED
      BY <3>1, <3>2 DEF servedVars, Served!FetchesOnlyMissing, Served!Lo, Served!Hi,
                        Served!Inverted, Served!Cached, Served!Held
  <2>2. CASE Snapshot
    BY <2>2, AsksNothing DEF ACInv, Phased, NothingServed, Snapshot
  <2>3. CASE Serve
    <3>1. retained /\ Served!Next
      BY <2>3 DEF Serve
    <3>2. CASE Served!Call
      BY <3>2, AsksNothing DEF Served!Call
    <3>3. CASE Served!StreamPrefix
      BY <3>3, AsksNothing DEF ACInv, Underway, Served!StreamPrefix
    <3>4. CASE Served!ReadCached
      BY <3>4, AsksNothing DEF ACInv, Underway, Served!ReadCached
    <3> QED
      BY <3>1, <3>2, <3>3, <3>4, ReadMisses, StreamMisses, RestMisses
      DEF Served!Next, Served!Step
  <2> QED
    BY <2>1, <2>2, <2>3 DEF ACNext, Probe
<1> QED
  BY <1>1, <1>2, LifeInvariance, PTL DEF ACSpec

-----------------------------------------------------------------------------
(* Serving implements the abstract range server.                           *)

\* What the client waits for, and what it was answered.
ClientAsked == IF spc = "idle" THEN <<>> ELSE sreq

ClientAnswered ==
    CASE ret = "none" -> [lo |-> -2, hi |-> -2]
      [] ret = "error" -> [lo |-> -1, hi |-> -1]
      [] ret \in {"ok", "panic"} -> sent

\* What the plain resource answers.
Due(q) ==
    IF q[1] = 0 /\ q[2] = 0
    THEN Run(0, Actual)
    ELSE Run(MinOf(q[1], Actual), MinOf(q[2] + 1, Actual))

\* It is what the abstract server answers and what the resource below returns.
LEMMA DueIs == \A q : Served!Abstract!Exact(q) = Due(q) /\ Served!RawData(q) = Due(q)
  BY DEF Due, Served!Abstract!Exact, Served!RawData, Served!Abstract!Run, Served!Run, Run,
         Served!Abstract!MinOf, Served!MinOf, MinOf,
         Served!Abstract!NoBytes, Served!NoBytes, NoBytes

\* The values of an answer the client gets.
LEMMA ClientAnswersNext ==
    /\ ret' = "none" => ClientAnswered' = [lo |-> -2, hi |-> -2]
    /\ ret' = "error" => ClientAnswered' = [lo |-> -1, hi |-> -1]
    /\ ret' \in {"ok", "panic"} => ClientAnswered' = sent'
<1>1. ret' = "ok" => ClientAnswered' = sent'
  BY Zenon DEF ClientAnswered
<1>2. ret' = "panic" => ClientAnswered' = sent'
  BY Zenon DEF ClientAnswered
<1> QED
  BY <1>1, <1>2, Zenon DEF ClientAnswered

\* The actions of the abstract specification, for the one client.
LEMMA ClientAsks ==
    ASSUME ClientAsked = <<>>, ClientAsked' \in ServeRequests,
           ClientAnswered' = [lo |-> -2, hi |-> -2]
    PROVE  Served!Abstract!RSNext
<1> DEFINE q == ClientAsked'
<1>1. [t \in {"client"} |-> ClientAsked]'
        = [[t \in {"client"} |-> ClientAsked] EXCEPT !["client"] = q]
  OBVIOUS
<1>2. [t \in {"client"} |-> ClientAnswered]'
        = [[t \in {"client"} |-> ClientAnswered] EXCEPT !["client"] = [lo |-> -2, hi |-> -2]]
  OBVIOUS
<1>3. [t \in {"client"} |-> ClientAsked]["client"] = <<>>
  OBVIOUS
<1>4. Served!Abstract!Ask("client", q)
  BY <1>1, <1>2, <1>3, Zenon
  DEF Served!Abstract!Ask, Served!Abstract!Nothing, Served!Abstract!Pending,
      ClientAsked, ClientAnswered
<1>5. "client" \in {"client"} /\ q \in ServeRequests
  OBVIOUS
<1> HIDE DEF q
<1> QED
  BY <1>4, <1>5, Zenon DEF Served!Abstract!RSNext

\* The same for the answer.
LEMMA ClientServed ==
    ASSUME ClientAsked = sreq, sreq \in Nat \X Nat, sreq[1] <= sreq[2],
           ClientAsked' = <<>>, ClientAnswered' = Due(sreq)
    PROVE  Served!Abstract!RSNext
<1>1. [t \in {"client"} |-> ClientAsked]'
        = [[t \in {"client"} |-> ClientAsked] EXCEPT !["client"] = <<>>]
  OBVIOUS
<1>2. [t \in {"client"} |-> ClientAnswered]'
        = [[t \in {"client"} |-> ClientAnswered]
             EXCEPT !["client"] = Served!Abstract!Exact(ClientAsked)]
  BY DueIs
<1>3. /\ [t \in {"client"} |-> ClientAsked]["client"] # <<>>
      /\ [t \in {"client"} |-> ClientAsked]["client"][1]
           <= [t \in {"client"} |-> ClientAsked]["client"][2]
      /\ [t \in {"client"} |-> ClientAsked]["client"] = ClientAsked
  OBVIOUS
<1>4. Served!Abstract!Serve("client")
  BY <1>1, <1>2, <1>3, Zenon
  DEF Served!Abstract!Serve, Served!Abstract!Nothing, ClientAsked, ClientAnswered
<1>5. "client" \in {"client"}
  OBVIOUS
<1> QED
  BY <1>4, <1>5, Zenon DEF Served!Abstract!RSNext

\* The same for an error.
LEMMA ClientRefused ==
    ASSUME ClientAsked = sreq, sreq \in Nat \X Nat,
           ClientAsked' = <<>>, ClientAnswered' = [lo |-> -1, hi |-> -1]
    PROVE  Served!Abstract!RSNext
<1>1. [t \in {"client"} |-> ClientAsked]'
        = [[t \in {"client"} |-> ClientAsked] EXCEPT !["client"] = <<>>]
  OBVIOUS
<1>2. [t \in {"client"} |-> ClientAnswered]'
        = [[t \in {"client"} |-> ClientAnswered] EXCEPT !["client"] = [lo |-> -1, hi |-> -1]]
  OBVIOUS
<1>3. [t \in {"client"} |-> ClientAsked]["client"] # <<>>
  OBVIOUS
<1>4. Served!Abstract!Refuse("client")
  BY <1>1, <1>2, <1>3, Zenon
  DEF Served!Abstract!Refuse, Served!Abstract!Nothing, Served!Abstract!Failed,
      ClientAsked, ClientAnswered
<1>5. "client" \in {"client"}
  OBVIOUS
<1> QED
  BY <1>4, <1>5, Zenon DEF Served!Abstract!RSNext

\* Nothing happens if the client sees nothing.
LEMMA ClientStutters ==
    ASSUME ClientAsked' = ClientAsked, ClientAnswered' = ClientAnswered
    PROVE  UNCHANGED Served!Abstract!rsVars
<1>1. [t \in {"client"} |-> ClientAsked]' = [t \in {"client"} |-> ClientAsked]
  OBVIOUS
<1>2. [t \in {"client"} |-> ClientAnswered]' = [t \in {"client"} |-> ClientAnswered]
  OBVIOUS
<1> QED
  BY <1>1, <1>2, Zenon DEF Served!Abstract!rsVars, ClientAsked, ClientAnswered

\* A call that ends: with an error, or with what is due.
LEMMA ClientReturns ==
    ASSUME STyped, spc # "idle", spc' = "idle",
           \/ ret' = "error"
           \/ /\ ret' \in {"ok", "panic"} /\ sent' = Due(sreq)
              /\ ~Served!Inverted(sreq)
    PROVE  Served!Abstract!RSNext
<1>1. ClientAsked = sreq /\ sreq \in Nat \X Nat /\ ClientAsked' = <<>>
  BY DEF ClientAsked, STyped
<1>2. CASE ret' = "error"
  BY <1>1, <1>2, ClientAnswersNext, ClientRefused
<1>3. CASE ret' \in {"ok", "panic"} /\ sent' = Due(sreq) /\ ~Served!Inverted(sreq)
  <2>1. ClientAnswered' = Due(sreq) /\ sreq[1] <= sreq[2]
    BY <1>1, <1>3, ClientAnswersNext DEF Served!Inverted
  <2> QED
    BY <1>1, <2>1, ClientServed
<1> QED
  BY <1>2, <1>3

\* The answers that come from memory are those of the file, unless it is longer
\* than its size says.
LEMMA CachedReadExact ==
    ASSUME ACInv, retained, Actual <= Size, Served!ReadCached
    PROVE  sent' = Due(sreq) /\ ~Served!Inverted(sreq)
<1> DEFINE lo == Served!Lo
           hi == Served!Hi
           c == Served!Clamped(hi)
<1>1. /\ spc = "read" /\ Served!Covers(lo, hi) /\ lo <= hi /\ sent = NoBytes
  BY Normalized DEF ACInv, Underway, Served!ReadCached, Served!Covers
<1>2. /\ lo \in Nat /\ hi \in Nat /\ lo = sreq[1] /\ sreq[1] \in Nat /\ sreq[2] \in Nat
      /\ sreq[1] = 0 /\ sreq[2] = 0 => lo = 0 /\ hi = Size - 1
      /\ ~(sreq[1] = 0 /\ sreq[2] = 0) => hi = sreq[2]
      /\ Truthful
  BY Normalized DEF ACInv, Phased
<1>3. c = MinOf(hi, Size - 1)
  BY DEF Served!Clamped, Served!MinOf, MinOf
<1>4. /\ lo >= Size => sent' = NoBytes
      /\ lo < Size => sent' = Served!Copied(lo, c)
  BY <1>1, <1>2, Sizes DEF Served!ReadCached, Served!NoBytes, NoBytes
<1>5. Served!Inverted(sreq) <=> sreq[2] < sreq[1]
  BY DEF Served!Inverted
<1>6. lo < Size => \A i \in lo .. c : Served!Cached(i)
  BY <1>1, <1>2, CoversIs
<1> HIDE DEF lo, hi, c
<1>7. ~Served!Inverted(sreq)
  <2>1. ~(sreq[2] < sreq[1])
    BY <1>1, <1>2
  <2> QED
    BY <1>5, <2>1, Zenon
<1>8. CASE lo >= Size
  <2>1. ~(sreq[1] = 0 /\ sreq[2] = 0)
    BY <1>2, <1>8, Sizes
  <2>2. Due(sreq) = NoBytes
    BY <1>2, <1>8, <2>1, Sizes DEF Due, Run, MinOf
  <2> QED
    BY <1>4, <1>7, <1>8, <2>2
<1>9. CASE lo < Size
  <2>1. c \in Nat /\ lo <= c /\ c <= hi /\ c < Size
    BY <1>1, <1>2, <1>3, <1>9, Sizes DEF MinOf
  <2>2. Served!Cached(c)
    BY <1>2, <1>6, <1>9, <2>1
  <2>3. c < Actual
    BY <1>2, <2>1, <2>2, CachedBelow
  <2>4. Served!Copied(lo, c) = Run(lo, c + 1)
    BY <1>2, <1>6, <1>9, <2>1, CopiedIs
  <2>5. sent' = Run(lo, c + 1)
    BY <1>4, <1>9, <2>4
  <2>6. CASE sreq[1] = 0 /\ sreq[2] = 0
    <3>1. c + 1 = Actual /\ lo = 0
      BY <1>2, <1>3, <2>1, <2>3, <2>6, Sizes DEF MinOf
    <3> QED
      BY <1>7, <2>5, <2>6, <3>1 DEF Due
  <2>7. CASE ~(sreq[1] = 0 /\ sreq[2] = 0)
    <3>1. /\ MinOf(sreq[1], Actual) = lo /\ MinOf(sreq[2] + 1, Actual) = c + 1
      BY <1>2, <1>3, <2>1, <2>3, <2>7, Sizes DEF MinOf
    <3> QED
      BY <1>7, <2>5, <2>7, <3>1 DEF Due
  <2> QED
    BY <2>6, <2>7
<1> QED
  BY <1>2, <1>8, <1>9, Sizes

\* A Stream answered from memory as a whole.
LEMMA CachedStreamExact ==
    ASSUME ACInv, retained, Actual <= Size, spc = "stream",
           Served!Prefix(Served!Lo, Served!Hi) # NoBytes,
           sent' = Served!Prefix(Served!Lo, Served!Hi),
           Served!Lo + RunLen(sent') > Served!Hi
    PROVE  sent' = Due(sreq) /\ ~Served!Inverted(sreq)
<1> DEFINE lo == Served!Lo
           hi == Served!Hi
           c == Served!Clamped(hi)
<1>1. /\ lo \in Nat /\ hi \in Nat /\ lo = sreq[1] /\ sreq[1] \in Nat /\ sreq[2] \in Nat
      /\ sreq[1] = 0 /\ sreq[2] = 0 => lo = 0 /\ hi = Size - 1
      /\ ~(sreq[1] = 0 /\ sreq[2] = 0) => hi = sreq[2]
      /\ Truthful
  BY Normalized DEF ACInv, Phased
<1>2. c = MinOf(hi, Size - 1)
  BY DEF Served!Clamped, Served!MinOf, MinOf
<1>3. /\ lo <= hi /\ lo < Size
      /\ \E x \in Nat : lo < x /\ Reaches(lo, x, c) /\ sent' = Run(lo, x)
  BY <1>1, PrefixIs
<1>4. PICK x \in Nat : lo < x /\ Reaches(lo, x, c) /\ sent' = Run(lo, x)
  BY <1>3
<1>5. x \in lo .. c + 1 /\ \A i \in lo .. x - 1 : Served!Cached(i)
  BY <1>4 DEF Reaches
<1>6. Served!Inverted(sreq) <=> sreq[2] < sreq[1]
  BY DEF Served!Inverted
<1>7. lo + RunLen(sent') > hi
  OBVIOUS
<1> HIDE DEF lo, hi, c
<1>8. RunLen(sent') = x - lo
  BY <1>1, <1>4 DEF Run, RunLen
<1>9. x = hi + 1 /\ hi < Size
  BY <1>1, <1>2, <1>3, <1>4, <1>5, <1>7, <1>8, Sizes DEF MinOf
<1>10. Served!Cached(hi)
  BY <1>1, <1>3, <1>5, <1>9
<1>11. hi < Actual
  BY <1>1, <1>10, CachedBelow
<1>12. CASE sreq[1] = 0 /\ sreq[2] = 0
  <2>1. x = Actual /\ lo = 0 /\ ~(sreq[2] < sreq[1])
    BY <1>1, <1>9, <1>11, <1>12, Sizes
  <2>2. sent' = Due(sreq)
    BY <1>4, <1>12, <2>1 DEF Due
  <2> QED
    BY <1>6, <2>1, <2>2, Zenon
<1>13. CASE ~(sreq[1] = 0 /\ sreq[2] = 0)
  <2>1. /\ MinOf(sreq[1], Actual) = lo /\ MinOf(sreq[2] + 1, Actual) = x
        /\ ~(sreq[2] < sreq[1])
    BY <1>1, <1>3, <1>9, <1>11, <1>13, Sizes DEF MinOf
  <2> QED
    BY <1>4, <1>6, <1>13, <2>1 DEF Due
<1> QED
  BY <1>12, <1>13

\* What memory held and the rest make up the range.
LEMMA RestExact ==
    ASSUME ACInv, retained, Actual <= Size, spc = "rest"
    PROVE  LET q == <<Served!Lo + RunLen(sent), Served!Hi>>
           IN  /\ Served!Appended(sent, Served!RawData(q)) = Due(sreq)
               /\ ~Served!Inverted(sreq)
<1> DEFINE lo == Served!Lo
           hi == Served!Hi
           x == lo + RunLen(sent)
           q == <<x, hi>>
<1>1. /\ lo \in Nat /\ hi \in Nat /\ lo < Size /\ lo < x /\ x <= hi /\ x <= Actual
      /\ x \in Nat /\ sent = Run(lo, x)
  BY RestIs
<1>2. /\ lo = sreq[1] /\ sreq[1] \in Nat /\ sreq[2] \in Nat
      /\ sreq[1] = 0 /\ sreq[2] = 0 => lo = 0 /\ hi = Size - 1
      /\ ~(sreq[1] = 0 /\ sreq[2] = 0) => hi = sreq[2]
  BY Normalized DEF ACInv
<1>3. Served!Inverted(sreq) <=> sreq[2] < sreq[1]
  BY DEF Served!Inverted
<1>4. Served!RawData(q) = Due(q) /\ q[1] = x /\ q[2] = hi
  BY DueIs
<1>5. \A u, v : Served!Appended(u, v) = Appended(u, v)
  BY DEF Served!Appended, Appended, Served!NoBytes, NoBytes, Served!Abuts, Abuts,
         Served!Run, Run, Served!Garbled, Garbled
<1> HIDE DEF lo, hi, x, q
<1>6. ~Served!Inverted(sreq)
  <2>1. ~(sreq[2] < sreq[1])
    BY <1>1, <1>2
  <2> QED
    BY <1>3, <2>1, Zenon
<1>7. Due(sreq) = Run(lo, MinOf(hi + 1, Actual))
  <2>1. CASE sreq[1] = 0 /\ sreq[2] = 0
    <3>1. lo = 0 /\ MinOf(hi + 1, Actual) = Actual
      BY <1>1, <1>2, <2>1, Sizes DEF MinOf
    <3> QED
      BY <2>1, <3>1 DEF Due
  <2>2. CASE ~(sreq[1] = 0 /\ sreq[2] = 0)
    <3>1. MinOf(sreq[1], Actual) = lo /\ sreq[2] = hi
      BY <1>1, <1>2, <2>2, Sizes DEF MinOf
    <3> QED
      BY <2>2, <3>1 DEF Due
  <2> QED
    BY <2>1, <2>2
<1>8. Due(q) = Run(x, MinOf(hi + 1, Actual))
  <2>1. ~(q[1] = 0 /\ q[2] = 0) /\ MinOf(q[1], Actual) = x
    BY <1>1, <1>4, Sizes DEF MinOf
  <2> QED
    BY <1>4, <2>1 DEF Due
<1>9. /\ sent.lo = lo /\ sent.hi = x /\ sent # NoBytes
  BY <1>1 DEF Run, NoBytes
<1>10. CASE x < Actual
  <2> DEFINE z == MinOf(hi + 1, Actual)
             d == Due(q)
  <2>1. z \in Nat /\ x < z
    BY <1>1, <1>10, Sizes DEF MinOf
  <2>2. d = Run(x, z)
    BY <1>8
  <2>3. Due(sreq) = Run(lo, z)
    BY <1>7
  <2> HIDE DEF d, z
  <2>4. d.lo = x /\ d.hi = z /\ d # NoBytes
    BY <1>1, <2>1, <2>2 DEF Run, NoBytes
  <2>5. Abuts(sent, d)
    BY <1>1, <1>9, <2>4 DEF Abuts
  <2>6. Appended(sent, d) = Run(sent.lo, d.hi)
    BY <1>9, <2>4, <2>5, Zenon DEF Appended
  <2>7. Served!Appended(sent, Served!RawData(q)) = Due(sreq)
    BY <1>4, <1>5, <1>9, <2>3, <2>4, <2>6 DEF d
  <2> QED
    BY <1>6, <2>7 DEF q, x, lo, hi
<1>11. CASE x = Actual
  <2>1. MinOf(hi + 1, Actual) = x
    BY <1>1, <1>11, Sizes DEF MinOf
  <2>2. Due(q) = NoBytes /\ Due(sreq) = sent
    BY <1>1, <1>7, <1>8, <2>1 DEF Run, NoBytes
  <2>3. Appended(sent, NoBytes) = sent
    BY <1>9, Zenon DEF Appended
  <2>4. Served!Appended(sent, Served!RawData(q)) = Due(sreq)
    BY <1>4, <1>5, <2>2, <2>3
  <2> QED
    BY <1>6, <2>4 DEF q, x, lo, hi
<1> QED
  BY <1>1, <1>10, <1>11, Sizes

\* Every step of the client is one of the abstract specification, or none.
LEMMA ClientStep ==
    ASSUME ACInv, retained, Actual <= Size, Served!Next
    PROVE  [Served!Abstract!RSNext]_(Served!Abstract!rsVars)
<1>1. STyped
  BY DEF ACInv
<1>2. CASE Served!Call
  <2>1. spc = "idle" /\ spc' # "idle" /\ sreq' \in ServeRequests /\ ret' = "none"
    BY <1>2 DEF Served!Call
  <2>2. ClientAsked = <<>> /\ ClientAsked' = sreq' /\ ClientAnswered' = [lo |-> -2, hi |-> -2]
    BY <2>1, ClientAnswersNext DEF ClientAsked
  <2> QED
    BY <2>1, <2>2, ClientAsks
<1>3. CASE Served!ReadCached
  <2>1. spc = "read" /\ spc' = "idle" /\ ret' \in {"ok", "panic"}
    BY <1>3 DEF Served!ReadCached, Served!Return
  <2> QED
    BY <1>1, <1>3, <2>1, CachedReadExact, ClientReturns
<1>4. CASE Served!ReadBelow
  <2>1. /\ spc = "read" /\ spc' = "idle"
        /\ \/ ret' = "error"
           \/ ret' = "ok" /\ sent' = Served!RawData(sreq) /\ ~Served!Inverted(sreq)
    BY <1>4 DEF Served!ReadBelow, Served!Return
  <2> QED
    BY <1>1, <2>1, DueIs, ClientReturns
<1>5. CASE Served!StreamPrefix
  <2>1. /\ spc = "stream" /\ Served!Prefix(Served!Lo, Served!Hi) # NoBytes /\ sreq' = sreq
        /\ \/ spc' = "idle" /\ ret' = "error"
           \/ /\ spc' = "idle" /\ ret' = "ok"
              /\ sent' = Served!Prefix(Served!Lo, Served!Hi)
              /\ Served!Lo + RunLen(sent') > Served!Hi
           \/ spc' = "rest" /\ ret' = ret
    BY <1>5 DEF Served!StreamPrefix, Served!Return, Served!NoBytes, NoBytes, Served!RunLen, RunLen
  <2>2. CASE spc' = "idle" /\ ret' = "error"
    BY <1>1, <2>1, <2>2, ClientReturns
  <2>3. CASE /\ spc' = "idle" /\ ret' = "ok"
             /\ sent' = Served!Prefix(Served!Lo, Served!Hi)
             /\ Served!Lo + RunLen(sent') > Served!Hi
    BY <1>1, <2>1, <2>3, CachedStreamExact, ClientReturns
  <2>4. CASE spc' = "rest" /\ ret' = ret
    <3>1. ret = "none"
      BY <2>1 DEF ACInv, Underway
    <3>2. ClientAsked' = ClientAsked
      BY <2>1, <2>4 DEF ClientAsked
    <3>3. ClientAnswered' = ClientAnswered
      BY <2>4, <3>1, Zenon DEF ClientAnswered
    <3> QED
      BY <3>2, <3>3, ClientStutters
  <2> QED
    BY <2>1, <2>2, <2>3, <2>4
<1>6. CASE Served!StreamBelow
  <2>1. /\ spc = "stream" /\ spc' = "idle"
        /\ \/ ret' = "error"
           \/ /\ ret' = "ok" /\ sent' = Served!Appended(sent, Served!RawData(sreq))
              /\ ~Served!Inverted(sreq)
    BY <1>6 DEF Served!StreamBelow, Served!Below, Served!Return
  <2>2. sent = Served!NoBytes
    BY <2>1 DEF ACInv, Underway, Served!NoBytes, NoBytes
  <2>3. Served!Appended(sent, Served!RawData(sreq)) = Due(sreq)
    <3>1. \A v : Served!Appended(Served!NoBytes, v) = v
      BY Zenon DEF Served!Appended
    <3> QED
      BY <2>2, <3>1, DueIs
  <2> QED
    BY <1>1, <2>1, <2>3, ClientReturns
<1>7. CASE Served!StreamRest
  <2>1. /\ spc = "rest" /\ spc' = "idle"
        /\ \/ ret' = "error"
           \/ /\ ret' = "ok"
              /\ sent' = Served!Appended(sent,
                            Served!RawData(<<Served!Lo + RunLen(sent), Served!Hi>>))
    BY <1>7 DEF Served!StreamRest, Served!Below, Served!Return, Served!RunLen, RunLen
  <2> QED
    BY <1>1, <2>1, RestExact, ClientReturns
<1> QED
  BY <1>2, <1>3, <1>4, <1>5, <1>6, <1>7 DEF Served!Next, Served!Step

\* With the blocks of any probe in front, Read and Stream of the publication's
\* resource answer as the plain resource does, unless the file is longer than the
\* size its probe was told.
THEOREM ServingImplementsServer ==
    ASSUME Actual <= Size
    PROVE  ACSpec => ServingImplementsRangeServer
<1>1. ACInit => Served!Abstract!RSInit
  <2> SUFFICES ASSUME ACInit PROVE Served!Abstract!RSInit
    OBVIOUS
  <2>1. ClientAsked = <<>>
    BY DEF ACInit, NothingServed, ClientAsked
  <2>2. ClientAnswered = [lo |-> -2, hi |-> -2]
    BY Zenon DEF ACInit, NothingServed, ClientAnswered
  <2>3. /\ [t \in {"client"} |-> ClientAsked] = [t \in {"client"} |-> <<>>]
        /\ [t \in {"client"} |-> ClientAnswered]
             = [t \in {"client"} |-> [lo |-> -2, hi |-> -2]]
    BY <2>1, <2>2
  <2> QED
    BY <2>3, Zenon
    DEF Served!Abstract!RSInit, Served!Abstract!Nothing, Served!Abstract!Pending,
        ClientAsked, ClientAnswered
<1>2. ACInv /\ [ACNext]_ACVars => [Served!Abstract!RSNext]_(Served!Abstract!rsVars)
  <2> SUFFICES ASSUME ACInv, [ACNext]_ACVars
               PROVE  [Served!Abstract!RSNext]_(Served!Abstract!rsVars)
    OBVIOUS
  <2>1. CASE UNCHANGED <<spc, sreq, sent, ret>>
    <3>1. ClientAsked' = ClientAsked
      BY <2>1 DEF ClientAsked
    <3>2. ClientAnswered' = ClientAnswered
      BY <2>1, Zenon DEF ClientAnswered
    <3> QED
      BY <3>1, <3>2, ClientStutters
  <2>2. CASE Serve
    BY <2>2, ClientStep DEF Serve
  <2>3. Probe \/ Snapshot \/ UNCHANGED ACVars => UNCHANGED <<spc, sreq, sent, ret>>
    BY DEF Probe, Snapshot, ACVars, servedVars
  <2> QED
    BY <2>1, <2>2, <2>3 DEF ACNext
<1> QED
  BY <1>1, <1>2, LifeInvariance, PTL
  DEF ACSpec, ServingImplementsRangeServer, Served!ImplementsRangeServer,
      Served!Abstract!RSSpec

\* The reads of the probe are answered as the resource itself would answer them,
\* and none is left waiting when the blocks are handed over.
THEOREM ProbeImplementsServer == ACSpec => ImplementsRangeServer
<1>1. ACInit => Abstract!RSInit
  BY InitRefines DEF ACInit
<1>2. ACInv /\ ACInv' /\ [ACNext]_ACVars => [Abstract!RSNext]_(Abstract!rsVars)
  <2> SUFFICES ASSUME ACInv, ACInv', [ACNext]_ACVars
               PROVE  [Abstract!RSNext]_(Abstract!rsVars)
    OBVIOUS
  <2>1. CASE [Next]_vars
    BY <2>1, StepRefines DEF ACInv
  <2>2. CASE Snapshot
    <3>1. \A r \in Readers : /\ Asked(r) = <<>> /\ Asked(r)' = <<>>
                             /\ outcome'[r] = "none"
      BY <2>2 DEF Snapshot, Asked
    <3>2. \A r \in Readers : Answered(r)' = [lo |-> -2, hi |-> -2]
      BY <3>1, Zenon DEF Answered
    <3>3. /\ [t \in Readers |-> Asked(t)]' = [t \in Readers |-> Asked(t)]
          /\ [t \in Readers |-> Answered(t)]' = [t \in Readers |-> [lo |-> -2, hi |-> -2]]
      BY <3>1, <3>2
    <3>4. \A r \in Readers : [t \in Readers |-> Asked(t)][r] = <<>>
      BY <3>1
    <3>5. Abstract!Forget
      BY <3>3, <3>4, Zenon
      DEF Abstract!Forget, Abstract!Nothing, Abstract!Pending, Asked, Answered
    <3> QED
      BY <3>5 DEF Abstract!RSNext
  <2>3. Probe \/ Serve \/ UNCHANGED ACVars => [Next]_vars
    BY DEF Probe, Serve, ACVars
  <2> QED
    BY <2>1, <2>2, <2>3 DEF ACNext
<1> QED
  BY <1>1, <1>2, LifeInvariance, PTL
  DEF ACSpec, ImplementsRangeServer, Abstract!RSSpec
================================================================================
