------------------------- MODULE RemoteArchive_proofs -------------------------
(***************************************************************************)
(* Proofs about RemoteArchive, the whole life of a remoteZIPAdapter.       *)
(*                                                                         *)
(* First the reads of an archive that has been opened (RemoteZip), for any *)
(* number of goroutines: what a goroutine holds while it is on its way     *)
(* (Working) is what it asked for, and so is what it adds to the cache,    *)
(* but for a header that came short, which tells no more than can be       *)
(* reached from it (ToldFacts).                                            *)
(* Then opening an archive, with tails and blocks of any size: wherever    *)
(* the tail was fetched from, it is the end of the archive, as long as     *)
(* zipTailSize says (Kept).  How often it is fetched depends on how far    *)
(* the zip reader is (Counted): the end record is in the first tail, and   *)
(* once the directory has been reached, reading it goes forward.           *)
(* At last that both hold through the life of the adapter: after           *)
(* makeReady, when entries are read, and when an archive that is kept as a *)
(* whole is.                                                               *)
(***************************************************************************)
EXTENDS RemoteArchive, TLAPS

-----------------------------------------------------------------------------
(* Reading through the cache of ranges.                                    *)

\* n bytes of a header came, and the code makes something of them.
Came(p, n) ==
    /\ head[p] = Run(req[p].off, req[p].off + n)
    /\ n < HeaderLen => req[p].off \in cut
    /\ told[p] \in Told(req[p].off, n)

\* What was asked for, or the beginning of a header that came short.
Answered(p) ==
    \/ got[p] = Wanted(p)
    \/ IsHeaderRead(p) /\ Arrived(req[p].off, got[p])

\* p reads within the entry whose header at off came short.
Within(p, off) == off <= req[p].off /\ req[p].off + req[p].len <= Reach(off)

\* Where goroutine p may have a response open, and what it holds there.
Working(p) ==
    /\ outcome[p] # "none" => pc[p] = "idle"
    /\ opened[p] => pc[p] \notin {"idle", "lookup"}
    /\ pc[p] # "idle" => req[p] \in Requests
    /\ pc[p] \in {"header", "parse", "body", "store", "finish"} => IsHeaderRead(p)
    /\ pc[p] \in {"parse", "body", "store", "finish"} =>
          \E n \in HeaderPieces : Came(p, n)
    /\ pc[p] \in {"body", "store"} =>
          told[p] # None /\ told[p].sized /\ told[p].body <= SizeThreshold
    /\ pc[p] = "store" => BodyComes(p)
    /\ pc[p] = "remember" => Answered(p)

\* What its last read returned.
Exact(p) ==
    outcome[p] = "ok" =>
        \/ Answered(p)
        \/ /\ ~IsHeaderRead(p)
           /\ \/ got[p] = Overwritten
              \/ \E off \in cut : Within(p, off)

ZInv == TypeOK /\ CacheTruthful /\ \A p \in Procs : Working(p) /\ Exact(p)

\* A run within the archive.
LEMMA RunInside ==
  ASSUME NEW lo \in Nat, NEW hi \in Nat, hi <= Size
  PROVE  Run(lo, hi) \in Runs(Size)
<1>1. Size \in Nat
  BY RemoteZipAssumption DEF RemoteZipAssumption
<1> QED
  BY <1>1 DEF Run, Runs, NoBytes

\* What a request asks for is in the archive.
LEMMA WantedInside ==
  ASSUME NEW p \in Procs, req[p] \in Requests
  PROVE  /\ req[p].off \in Nat /\ req[p].len \in Nat \ {0}
         /\ req[p].off + req[p].len <= Size
         /\ Wanted(p) \in Runs(Size)
<1>1. /\ req[p].off \in Nat /\ req[p].len \in Nat \ {0}
      /\ req[p].off + req[p].len <= Size
  BY RemoteZipAssumption DEF RemoteZipAssumption
<1> QED
  BY <1>1, RunInside DEF Wanted

\* The entry a header belongs to.
LEMMA EntryFacts ==
  ASSUME NEW off, EntryAt(off) # None
  PROVE  LET e == EntryAt(off)
         IN  /\ e \in EntrySet
             /\ e.at \in Nat /\ e.extra \in Nat /\ e.body \in Nat /\ e.sized \in BOOLEAN
             /\ e.at = off
             /\ MostBody(e) \in Nat
<1>1. EntryAt(off) \in Entries /\ EntryAt(off).at = off
  BY DEF EntryAt
<1> QED
  BY <1>1, RemoteZipAssumption DEF RemoteZipAssumption, EntrySet, MostBody

\* What a header that tells a small body says: it is all there, or it came short
\* and tells no more than can be reached.
LEMMA ToldFacts ==
  ASSUME NEW off \in Nat, NEW n \in 0 .. HeaderLen, NEW e \in Told(off, n), e # None
  PROVE  /\ e \in EntrySet /\ e.at = off /\ n > 0
         /\ e.sized /\ e.body <= SizeThreshold =>
               off + HeaderLen + e.extra + e.body <= Reach(off)
<1> DEFINE f == EntryAt(off)
<1>1. SizeThreshold \in Nat /\ HeaderLen \in Nat \ {0}
  BY RemoteZipAssumption DEF RemoteZipAssumption
<1>2. f # None /\ n > 0
  <2>1. f # None /\ n # 0
    BY DEF Told
  <2> QED
    BY <1>1, <2>1
<1>3. /\ f \in EntrySet
      /\ f.at \in Nat /\ f.extra \in Nat /\ f.body \in Nat /\ f.sized \in BOOLEAN
      /\ f.at = off
      /\ MostBody(f) \in Nat
  BY <1>2, EntryFacts
<1>4. Reach(off) = off + HeaderLen + (f.extra + MinOf(MostBody(f), SizeThreshold))
  BY <1>2 DEF Reach
<1>5. \/ e = f \/ e = [f EXCEPT !.sized = FALSE]
      \/ e \in [at : {off}, extra : 0 .. f.extra, body : 0 .. MostBody(f), sized : {TRUE}]
  BY DEF Told
<1> HIDE DEF f
<1>6. CASE e = f
  BY <1>1, <1>2, <1>3, <1>4, <1>6 DEF MinOf, MostBody
<1>7. CASE e = [f EXCEPT !.sized = FALSE]
  BY <1>2, <1>3, <1>7 DEF EntrySet
<1>8. CASE e \in [at : {off}, extra : 0 .. f.extra, body : 0 .. MostBody(f), sized : {TRUE}]
  <2>1. /\ e.at = off /\ e.sized = TRUE
        /\ e.extra \in Nat /\ e.extra <= f.extra
        /\ e.body \in Nat /\ e.body <= MostBody(f)
    <3>1. e.extra \in 0 .. f.extra /\ e.body \in 0 .. MostBody(f) /\ e.at \in {off}
      BY <1>8
    <3>2. e.sized = TRUE
      BY <1>8
    <3> QED
      BY <1>3, <3>1, <3>2
  <2>2. e \in EntrySet
    BY <1>8, <2>1 DEF EntrySet
  <2>3. e.body <= SizeThreshold => e.body <= MinOf(MostBody(f), SizeThreshold)
    BY <2>1 DEF MinOf
  <2>4. MinOf(MostBody(f), SizeThreshold) \in Nat
    BY <1>1, <1>3 DEF MinOf
  <2> QED
    BY <1>1, <1>2, <1>3, <1>4, <2>1, <2>2, <2>3, <2>4
<1> QED
  BY <1>5, <1>6, <1>7, <1>8

\* A header that came short spoils nothing behind its reach, which ends behind it.
LEMMA ReachFacts ==
  ASSUME NEW off \in Nat
  PROVE  Reach(off) \in Nat /\ off + HeaderLen <= Reach(off)
<1>1. SizeThreshold \in Nat /\ HeaderLen \in Nat \ {0}
  BY RemoteZipAssumption DEF RemoteZipAssumption
<1>2. EntryAt(off) # None =>
        EntryAt(off).extra \in Nat /\ MostBody(EntryAt(off)) \in Nat
  BY EntryFacts
<1> QED
  BY <1>1, <1>2 DEF Reach, MinOf

\* A range that is added is the only new one, and the cache stays within its bound.
LEMMA AddedRanges ==
  ASSUME NEW S, cachedRanges \in Seq(S), Len(cachedRanges) <= CountThreshold,
         NEW rng \in S
  PROVE  /\ Added(rng) \in Seq(S)
         /\ Len(Added(rng)) <= CountThreshold
         /\ \A i \in 1 .. Len(Added(rng)) :
               \/ Added(rng)[i] = rng
               \/ \E j \in 1 .. Len(cachedRanges) : Added(rng)[i] = cachedRanges[j]
<1>1. CountThreshold \in Nat \ {0}
  BY RemoteZipAssumption DEF RemoteZipAssumption
<1>2. CASE Len(cachedRanges) >= CountThreshold
  <2>1. /\ Tail(cachedRanges) \in Seq(S)
        /\ Len(Tail(cachedRanges)) = Len(cachedRanges) - 1
        /\ \A i \in 1 .. Len(cachedRanges) - 1 : Tail(cachedRanges)[i] = cachedRanges[i + 1]
    BY <1>1, <1>2
  <2>2. PICK rest \in Seq(S) : rest = Tail(cachedRanges)
    BY <2>1
  <2>3. Added(rng) = Append(rest, rng)
    BY <1>2, <2>2 DEF Added
  <2>4. \A i \in 1 .. Len(rest) + 1 : Append(rest, rng)[i] = rng \/ i \in 1 .. Len(rest)
    OBVIOUS
  <2>5. \A i \in 1 .. Len(rest) : Append(rest, rng)[i] = cachedRanges[i + 1]
    BY <2>1, <2>2
  <2>6. \A i \in 1 .. Len(rest) : i + 1 \in 1 .. Len(cachedRanges)
    BY <2>1, <2>2
  <2>7. /\ Append(rest, rng) \in Seq(S) /\ Len(Append(rest, rng)) = Len(rest) + 1
        /\ Len(rest) + 1 <= CountThreshold
    BY <2>1, <2>2
  <2> QED
    BY <2>3, <2>4, <2>5, <2>6, <2>7
<1>3. CASE ~(Len(cachedRanges) >= CountThreshold)
  <2>1. Added(rng) = Append(cachedRanges, rng)
    BY <1>3 DEF Added
  <2> QED
    BY <1>1, <1>3, <2>1
<1> QED
  BY <1>2, <1>3

\* What a cached range has to be.
Truthful(rng) ==
    /\ rng.headerOffset # -1 => Arrived(rng.headerOffset, rng.header)
    /\ \/ rng.data = Run(rng.offset, rng.offset + rng.size)
       \/ rng.data = Overwritten /\ rng.owner \in Procs
       \/ CutShort(rng)

\* It stays so when more headers come short.
LEMMA StaysTruthful ==
  ASSUME NEW rng, Truthful(rng), cut \subseteq cut'
  PROVE  Truthful(rng)'
<1>1. ASSUME NEW off, NEW run, Arrived(off, run)
      PROVE  Arrived(off, run)'
  BY <1>1 DEF Arrived
<1>2. CutShort(rng) => CutShort(rng)'
  BY <1>1 DEF CutShort
<1> QED
  BY <1>1, <1>2 DEF Truthful

\* Adding a range that is as it has to be keeps the cache truthful.
LEMMA AddedTruthful ==
  ASSUME TypeOK, CacheTruthful, NEW rng \in RangeSet, Truthful(rng),
         cachedRanges' = Added(rng), cut \subseteq cut'
  PROVE  /\ cachedRanges' \in Seq(RangeSet) /\ Len(cachedRanges') <= CountThreshold
         /\ CacheTruthful'
<1>1. /\ cachedRanges' \in Seq(RangeSet) /\ Len(cachedRanges') <= CountThreshold
      /\ \A i \in 1 .. Len(cachedRanges') :
            \/ cachedRanges'[i] = rng
            \/ \E j \in 1 .. Len(cachedRanges) : cachedRanges'[i] = cachedRanges[j]
  BY AddedRanges DEF TypeOK
<1>2. \A i \in 1 .. Len(cachedRanges) : Truthful(cachedRanges[i])
  BY DEF CacheTruthful, Ranges, Truthful
<1>3. ASSUME NEW i \in 1 .. Len(cachedRanges'), NEW r, r = cachedRanges'[i]
      PROVE  Truthful(r)'
  <2>1. Truthful(r)
    BY <1>1, <1>2, <1>3
  <2> QED
    BY <2>1, StaysTruthful
<1>4. \A r \in Ranges' : Truthful(r)'
  BY <1>3 DEF Ranges
<1> QED
  BY <1>1, <1>4 DEF CacheTruthful, Truthful

\* What is cached is as it has to be.
LEMMA RangeTruthful ==
  ASSUME TypeOK, CacheTruthful, NEW i \in 1 .. Len(cachedRanges)
  PROVE  cachedRanges[i] \in RangeSet /\ Truthful(cachedRanges[i])
<1>1. \A r \in Ranges : Truthful(r)
  BY DEF CacheTruthful, Truthful
<1>2. cachedRanges[i] \in Ranges
  BY DEF Ranges
<1> QED
  BY <1>1, <1>2 DEF TypeOK

\* A cache that is left alone stays truthful.
LEMMA UnchangedTruthful ==
  ASSUME TypeOK, CacheTruthful, UNCHANGED cachedRanges, cut \subseteq cut'
  PROVE  CacheTruthful'
<1>1. ASSUME NEW r \in Ranges PROVE Truthful(r)'
  BY <1>1, StaysTruthful DEF CacheTruthful, Truthful
<1>2. Ranges' = Ranges
  BY DEF Ranges
<1> QED
  BY <1>1, <1>2 DEF CacheTruthful, Truthful

\* The invariant holds at the start.
LEMMA ZInitHolds == Init => ZInv
<1> SUFFICES ASSUME Init PROVE ZInv
  OBVIOUS
<1>0. Size \in Nat /\ CountThreshold \in Nat \ {0}
  BY RemoteZipAssumption DEF RemoteZipAssumption
<1>1. TypeOK
  <2>1. NoBytes \in Runs(Size)
    BY <1>0 DEF NoBytes, Runs
  <2>2. cachedRanges \in Seq(RangeSet) /\ Len(cachedRanges) = 0
    BY DEF Init
  <2> QED
    BY <1>0, <2>1, <2>2 DEF Init, TypeOK, Locations, Outcomes, Bytes
<1>2. \A p \in Procs : Working(p) /\ Exact(p)
  BY DEF Init, Working, Exact
<1>3. CacheTruthful
  BY DEF Init, CacheTruthful, Ranges
<1> QED
  BY <1>1, <1>2, <1>3 DEF ZInv

\* A goroutine to which nothing happens is where it was.
LEMMA OthersStay ==
  ASSUME NEW q \in Procs, Working(q), Exact(q), cut \subseteq cut',
         pc'[q] = pc[q], req'[q] = req[q], head'[q] = head[q], told'[q] = told[q],
         opened'[q] = opened[q], got'[q] = got[q], outcome'[q] = outcome[q]
  PROVE  Working(q)' /\ Exact(q)'
<1>1. /\ IsHeaderRead(q)' <=> IsHeaderRead(q)
      /\ Wanted(q)' = Wanted(q)
      /\ BodyComes(q)' <=> BodyComes(q)
  BY DEF IsHeaderRead, Wanted, BodyComes
<1>2. \A n : Came(q, n) => Came(q, n)'
  BY DEF Came
<1>3. Answered(q) => Answered(q)'
  BY <1>1 DEF Answered, Arrived
<1>4. \A off : Within(q, off) <=> Within(q, off)'
  BY DEF Within
<1>5. Working(q)'
  BY <1>1, <1>2, <1>3 DEF Working
<1>6. Exact(q)'
  BY <1>1, <1>3, <1>4 DEF Exact
<1> QED
  BY <1>5, <1>6

\* A step of p: the other goroutines are where they were, and the cache may have
\* got a range that is as it has to be.
LEMMA StepOf ==
  ASSUME ZInv, NEW p \in Procs,
         \/ UNCHANGED cachedRanges
         \/ \E rng \in RangeSet : Truthful(rng) /\ cachedRanges' = Added(rng),
         UNCHANGED cut \/ cut' = cut \union {req[p].off},
         NEW at \in Locations, NEW h \in Runs(Size), NEW e \in EntrySet \union {None},
         NEW o \in BOOLEAN,
         NEW g \in Bytes, NEW how \in Outcomes,
         pc' = [pc EXCEPT ![p] = at], UNCHANGED req,
         head' = [head EXCEPT ![p] = h], told' = [told EXCEPT ![p] = e],
         opened' = [opened EXCEPT ![p] = o],
         got' = [got EXCEPT ![p] = g], outcome' = [outcome EXCEPT ![p] = how],
         Working(p)', Exact(p)'
  PROVE  ZInv'
<1>0. cut \subseteq cut'
  OBVIOUS
<1>1. /\ cachedRanges' \in Seq(RangeSet) /\ Len(cachedRanges') <= CountThreshold
      /\ CacheTruthful'
  <2>1. CASE UNCHANGED cachedRanges
    BY <1>0, <2>1, UnchangedTruthful DEF ZInv, TypeOK
  <2>2. CASE \E rng \in RangeSet : Truthful(rng) /\ cachedRanges' = Added(rng)
    BY <1>0, <2>2, AddedTruthful DEF ZInv
  <2> QED
    BY <2>1, <2>2
<1>2. TypeOK'
  BY <1>1 DEF ZInv, TypeOK
<1>3. ASSUME NEW q \in Procs PROVE Working(q)' /\ Exact(q)'
  <2>1. CASE q # p
    BY <1>0, <2>1, OthersStay DEF ZInv, TypeOK
  <2> QED
    BY <2>1
<1> QED
  BY <1>1, <1>2, <1>3 DEF ZInv

\* The same, of a step that tells what it does to p.
LEMMA StepTo ==
  ASSUME ZInv, NEW p \in Procs,
         \/ UNCHANGED cachedRanges
         \/ \E rng \in RangeSet : Truthful(rng) /\ cachedRanges' = Added(rng),
         UNCHANGED cut \/ cut' = cut \union {req[p].off},
         UNCHANGED pc \/ \E at \in Locations : pc' = [pc EXCEPT ![p] = at],
         UNCHANGED req,
         UNCHANGED head \/ \E h \in Runs(Size) : head' = [head EXCEPT ![p] = h],
         UNCHANGED told \/ \E e \in EntrySet \union {None} : told' = [told EXCEPT ![p] = e],
         UNCHANGED opened \/ \E o \in BOOLEAN : opened' = [opened EXCEPT ![p] = o],
         UNCHANGED got \/ \E g \in Bytes : got' = [got EXCEPT ![p] = g],
         UNCHANGED outcome \/ \E how \in Outcomes : outcome' = [outcome EXCEPT ![p] = how],
         Working(p)', Exact(p)'
  PROVE  ZInv'
<1>1. PICK at \in Locations : pc' = [pc EXCEPT ![p] = at]
  BY DEF ZInv, TypeOK
<1>2. PICK h \in Runs(Size) : head' = [head EXCEPT ![p] = h]
  BY DEF ZInv, TypeOK
<1>3. PICK o \in BOOLEAN : opened' = [opened EXCEPT ![p] = o]
  BY DEF ZInv, TypeOK
<1>4. PICK g \in Bytes : got' = [got EXCEPT ![p] = g]
  BY DEF ZInv, TypeOK
<1>5. PICK how \in Outcomes : outcome' = [outcome EXCEPT ![p] = how]
  BY DEF ZInv, TypeOK
<1>6. PICK e \in EntrySet \union {None} : told' = [told EXCEPT ![p] = e]
  BY DEF ZInv, TypeOK
<1> QED
  BY <1>1, <1>2, <1>3, <1>4, <1>5, <1>6, StepOf

\* A call overwrites nothing but its own goroutine's data.
LEMMA CallHolds ==
  ASSUME ZInv, NEW p \in Procs, Call(p)
  PROVE  ZInv'
<1>1. PICK q \in Requests : req' = [req EXCEPT ![p] = q]
  BY DEF Call
<1>2. q \in [off : Nat, len : Nat \ {0}] /\ NoBytes \in Bytes
  BY RemoteZipAssumption DEF RemoteZipAssumption, Bytes, Runs, NoBytes
<1>3. /\ cachedRanges' \in Seq(RangeSet) /\ Len(cachedRanges') <= CountThreshold
      /\ CacheTruthful'
  <2>1. CASE UNCHANGED cachedRanges
    BY <2>1, UnchangedTruthful DEF ZInv, TypeOK, Call
  <2> DEFINE now(i) == IF cachedRanges[i].owner = p
                       THEN [cachedRanges[i] EXCEPT !.data = Overwritten]
                       ELSE cachedRanges[i]
  <2>2. CASE cachedRanges' = [i \in 1 .. Len(cachedRanges) |-> now(i)]
    <3>1. \A i \in 1 .. Len(cachedRanges) :
             cachedRanges[i] \in RangeSet /\ Truthful(cachedRanges[i])
      BY RangeTruthful DEF ZInv
    <3>2. ASSUME NEW i \in 1 .. Len(cachedRanges) PROVE now(i) \in RangeSet /\ Truthful(now(i))
      <4>1. CASE cachedRanges[i].owner = p
        BY <3>1, <4>1 DEF RangeSet, Truthful, Bytes
      <4> QED
        BY <3>1, <4>1
    <3> HIDE DEF now
    <3>3. Len(cachedRanges) \in Nat /\ Len(cachedRanges) <= CountThreshold
      BY DEF ZInv, TypeOK
    <3>4. cachedRanges' \in Seq(RangeSet) /\ Len(cachedRanges') = Len(cachedRanges)
      BY <2>2, <3>2, <3>3
    <3>5. ASSUME NEW r \in Ranges' PROVE Truthful(r)'
      <4>1. PICK i \in 1 .. Len(cachedRanges) : r = now(i)
        BY <2>2, <3>4 DEF Ranges
      <4>2. Truthful(r) /\ cut \subseteq cut'
        BY <3>2, <4>1 DEF Call
      <4> QED
        BY <4>2, StaysTruthful
    <3> QED
      BY <3>3, <3>4, <3>5 DEF CacheTruthful, Truthful
  <2> QED
    BY <2>1, <2>2 DEF Call
<1>4. TypeOK'
  BY <1>1, <1>2, <1>3 DEF ZInv, TypeOK, Call, Locations, Outcomes
<1>5. ASSUME NEW o \in Procs PROVE Working(o)' /\ Exact(o)'
  <2>1. CASE o = p
    BY <1>1, <2>1 DEF ZInv, TypeOK, Call, Working, Exact
  <2>2. CASE o # p
    BY <1>1, <2>2, OthersStay DEF ZInv, TypeOK, Call
  <2> QED
    BY <2>1, <2>2
<1> QED
  BY <1>3, <1>4, <1>5 DEF ZInv

\* A response is opened, or the call fails.
LEMMA OpenHeaderHolds == ASSUME ZInv, NEW p \in Procs, OpenHeader(p) PROVE ZInv'
<1>0. /\ p \in Procs /\ pc \in [Procs -> Locations] /\ Working(p)
      /\ head \in [Procs -> Runs(Size)] /\ told \in [Procs -> EntrySet \union {None}]
      /\ opened \in [Procs -> BOOLEAN]
      /\ got \in [Procs -> Bytes] /\ outcome \in [Procs -> Outcomes]
      /\ NoBytes \in Bytes /\ NoBytes \in Runs(Size)
  BY RemoteZipAssumption
  DEF ZInv, TypeOK, RemoteZipAssumption, Bytes, Runs, NoBytes
<1>1. Working(p)' /\ Exact(p)'
  BY <1>0 DEF OpenHeader, Goto, Return, Working, Exact, IsHeaderRead, Wanted, Came,
      Answered, BodyComes
<1> QED
  BY <1>0, <1>1, StepTo DEF OpenHeader, Goto, Return, Locations, Outcomes

\* So is that of any other read.
LEMMA OpenChunkHolds == ASSUME ZInv, NEW p \in Procs, OpenChunk(p) PROVE ZInv'
<1>0. /\ p \in Procs /\ pc \in [Procs -> Locations] /\ Working(p)
      /\ head \in [Procs -> Runs(Size)] /\ told \in [Procs -> EntrySet \union {None}]
      /\ opened \in [Procs -> BOOLEAN]
      /\ got \in [Procs -> Bytes] /\ outcome \in [Procs -> Outcomes]
      /\ NoBytes \in Bytes /\ NoBytes \in Runs(Size)
  BY RemoteZipAssumption
  DEF ZInv, TypeOK, RemoteZipAssumption, Bytes, Runs, NoBytes
<1>1. Working(p)' /\ Exact(p)'
  BY <1>0 DEF OpenChunk, Goto, Return, Working, Exact, IsHeaderRead, Wanted, Came,
      Answered, BodyComes
<1> QED
  BY <1>0, <1>1, StepTo DEF OpenChunk, Goto, Return, Locations, Outcomes

\* What is no header is passed on.
LEMMA ParseOtherHolds == ASSUME ZInv, NEW p \in Procs, ParseOther(p) PROVE ZInv'
<1>0. /\ p \in Procs /\ pc \in [Procs -> Locations] /\ Working(p)
      /\ head \in [Procs -> Runs(Size)] /\ told \in [Procs -> EntrySet \union {None}]
      /\ opened \in [Procs -> BOOLEAN]
      /\ got \in [Procs -> Bytes] /\ outcome \in [Procs -> Outcomes]
      /\ NoBytes \in Bytes /\ NoBytes \in Runs(Size)
  BY RemoteZipAssumption
  DEF ZInv, TypeOK, RemoteZipAssumption, Bytes, Runs, NoBytes
<1>1. Working(p)' /\ Exact(p)'
  BY <1>0 DEF ParseOther, Goto, Return, Working, Exact, IsHeaderRead, Wanted, Came,
      Answered, BodyComes
<1> QED
  BY <1>0, <1>1, StepTo DEF ParseOther, Goto, Return, Locations, Outcomes

\* The look-up of a body decides where to go on.
LEMMA LookupBodyHolds == ASSUME ZInv, NEW p \in Procs, LookupBody(p) PROVE ZInv'
<1>0. /\ p \in Procs /\ pc \in [Procs -> Locations] /\ Working(p)
      /\ head \in [Procs -> Runs(Size)] /\ told \in [Procs -> EntrySet \union {None}]
      /\ opened \in [Procs -> BOOLEAN]
      /\ got \in [Procs -> Bytes] /\ outcome \in [Procs -> Outcomes]
      /\ NoBytes \in Bytes /\ NoBytes \in Runs(Size)
  BY RemoteZipAssumption
  DEF ZInv, TypeOK, RemoteZipAssumption, Bytes, Runs, NoBytes
<1>1. Working(p)' /\ Exact(p)'
  BY <1>0 DEF LookupBody, Goto, Return, Working, Exact, IsHeaderRead, Wanted, Came,
      Answered, BodyComes
<1> QED
  BY <1>0, <1>1, StepTo DEF LookupBody, Goto, Return, Locations, Outcomes

\* A body that breaks off closes the response.
LEMMA ReadBodyHolds == ASSUME ZInv, NEW p \in Procs, ReadBody(p) PROVE ZInv'
<1>0. /\ p \in Procs /\ pc \in [Procs -> Locations] /\ Working(p)
      /\ head \in [Procs -> Runs(Size)] /\ told \in [Procs -> EntrySet \union {None}]
      /\ opened \in [Procs -> BOOLEAN]
      /\ got \in [Procs -> Bytes] /\ outcome \in [Procs -> Outcomes]
      /\ NoBytes \in Bytes /\ NoBytes \in Runs(Size)
  BY RemoteZipAssumption
  DEF ZInv, TypeOK, RemoteZipAssumption, Bytes, Runs, NoBytes
<1>1. Working(p)' /\ Exact(p)'
  BY <1>0 DEF ReadBody, Goto, Return, Working, Exact, IsHeaderRead, Wanted, Came,
      Answered, BodyComes
<1> QED
  BY <1>0, <1>1, StepTo DEF ReadBody, Goto, Return, Locations, Outcomes

\* A cached header is the one that was asked for.
LEMMA HeaderLookupHolds == ASSUME ZInv, NEW p \in Procs, HeaderLookup(p) PROVE ZInv'
<1>0. /\ p \in Procs /\ pc \in [Procs -> Locations] /\ Working(p)
      /\ head \in [Procs -> Runs(Size)] /\ told \in [Procs -> EntrySet \union {None}]
      /\ opened \in [Procs -> BOOLEAN]
      /\ got \in [Procs -> Bytes] /\ outcome \in [Procs -> Outcomes]
      /\ NoBytes \in Bytes /\ NoBytes \in Runs(Size)
  BY RemoteZipAssumption
  DEF ZInv, TypeOK, RemoteZipAssumption, Bytes, Runs, NoBytes
<1>1. CASE HeaderHits(p) = {}
  <2>1. Working(p)' /\ Exact(p)'
    BY <1>0, <1>1 DEF HeaderLookup, Goto, Working, Exact, IsHeaderRead, Wanted, Came,
      Answered, BodyComes
  <2> QED
    BY <1>0, <1>1, <2>1, StepTo DEF HeaderLookup, Goto, Locations
<1>2. CASE HeaderHits(p) # {}
  <2>1. PICK i \in HeaderHits(p) : Return(p, "ok", cachedRanges[i].header)
    BY <1>2 DEF HeaderLookup
  <2>2. i \in 1 .. Len(cachedRanges) /\ cachedRanges[i].headerOffset = req[p].off
    BY DEF HeaderHits
  <2>3. cachedRanges[i] \in RangeSet /\ Truthful(cachedRanges[i])
    BY <2>2, RangeTruthful DEF ZInv
  <2>4. req[p] \in Requests /\ IsHeaderRead(p)
    BY <1>0 DEF HeaderLookup, Working
  <2>5. Arrived(req[p].off, cachedRanges[i].header) /\ cachedRanges[i].header \in Bytes
    BY <2>2, <2>3, <2>4, WantedInside DEF Truthful, RangeSet, Bytes
  <2>6. Answered(p)'
    BY <1>0, <2>1, <2>4, <2>5 DEF HeaderLookup, Return, Answered, Arrived, IsHeaderRead
  <2>7. Working(p)' /\ Exact(p)'
    BY <1>0, <2>1, <2>6 DEF HeaderLookup, Return, Working, Exact
  <2> QED
    BY <1>0, <2>1, <2>5, <2>7, StepTo DEF HeaderLookup, Return, Locations, Outcomes
<1> QED
  BY <1>1, <1>2

\* What the response starts with is the header, or a part of it.
LEMMA ReadHeaderHolds == ASSUME ZInv, NEW p \in Procs, ReadHeader(p) PROVE ZInv'
<1>0. /\ p \in Procs /\ pc \in [Procs -> Locations] /\ Working(p)
      /\ head \in [Procs -> Runs(Size)] /\ told \in [Procs -> EntrySet \union {None}]
      /\ opened \in [Procs -> BOOLEAN]
      /\ got \in [Procs -> Bytes] /\ outcome \in [Procs -> Outcomes]
      /\ NoBytes \in Bytes /\ NoBytes \in Runs(Size)
  BY RemoteZipAssumption
  DEF ZInv, TypeOK, RemoteZipAssumption, Bytes, Runs, NoBytes
<1>1. /\ pc[p] = "header" /\ req[p] \in Requests /\ IsHeaderRead(p)
      /\ req[p].off \in Nat /\ req[p].off + HeaderLen <= Size
      /\ UNCHANGED <<req, cachedRanges>>
  BY <1>0, WantedInside DEF ReadHeader, Working, IsHeaderRead
<1>2. ASSUME NEW n \in HeaderPieces, NEW e \in Told(req[p].off, n),
             head' = [head EXCEPT ![p] = Run(req[p].off, req[p].off + n)],
             told' = [told EXCEPT ![p] = e],
             cut' = IF n < HeaderLen THEN cut \union {req[p].off} ELSE cut,
             Goto(p, "parse"), UNCHANGED <<opened, got>>
      PROVE  ZInv'
  <2>1. n \in 0 .. HeaderLen /\ HeaderLen \in Nat
    BY RemoteZipAssumption DEF RemoteZipAssumption
  <2>2. Run(req[p].off, req[p].off + n) \in Runs(Size)
    BY <1>1, <2>1, RunInside, RemoteZipAssumption DEF RemoteZipAssumption
  <2>3. e \in EntrySet \union {None}
    BY <1>1, <2>1, ToldFacts
  <2>4. Came(p, n)'
    BY <1>0, <1>1, <1>2 DEF Came
  <2>5. Working(p)' /\ Exact(p)'
    BY <1>0, <1>1, <1>2, <2>4 DEF Goto, Working, Exact, IsHeaderRead
  <2> QED
    BY <1>0, <1>1, <1>2, <2>2, <2>3, <2>5, StepTo DEF Goto, Locations
<1>3. ASSUME opened' = [opened EXCEPT ![p] = FALSE],
             Return(p, "error", NoBytes), UNCHANGED <<head, told, cut>>
      PROVE  ZInv'
  <2>1. Working(p)' /\ Exact(p)'
    BY <1>0, <1>1, <1>3 DEF Return, Working, Exact
  <2> QED
    BY <1>0, <1>1, <1>3, <2>1, StepTo DEF Return, Locations, Outcomes
<1> QED
  BY <1>2, <1>3 DEF ReadHeader

\* The header that is cached alone is the one that was read.
LEMMA CacheHeaderHolds == ASSUME ZInv, NEW p \in Procs, CacheHeader(p) PROVE ZInv'
<1>0. /\ p \in Procs /\ pc \in [Procs -> Locations] /\ Working(p)
      /\ head \in [Procs -> Runs(Size)] /\ told \in [Procs -> EntrySet \union {None}]
      /\ opened \in [Procs -> BOOLEAN]
      /\ got \in [Procs -> Bytes] /\ outcome \in [Procs -> Outcomes]
      /\ NoBytes \in Bytes /\ NoBytes \in Runs(Size)
  BY RemoteZipAssumption
  DEF ZInv, TypeOK, RemoteZipAssumption, Bytes, Runs, NoBytes
<1> DEFINE rng == HeaderRange(req[p].off, head[p])
<1>1. /\ req[p] \in Requests /\ req[p].off \in Nat
  BY <1>0, WantedInside DEF CacheHeader, Working
<1>2. Arrived(req[p].off, head[p])
  BY <1>0, RemoteZipAssumption DEF CacheHeader, Working, Came, Arrived, RemoteZipAssumption
<1>3. rng \in RangeSet /\ Truthful(rng)
  BY <1>0, <1>1, <1>2 DEF HeaderRange, RangeSet, Truthful, Run, NoBytes
<1>4. Working(p)' /\ Exact(p)'
  BY <1>0 DEF CacheHeader, Goto, Working, Exact, IsHeaderRead, Came
<1> QED
  BY <1>0, <1>3, <1>4, StepTo DEF CacheHeader, Goto, Locations

\* The body that is cached is the one behind name and extra field, if the header
\* was all there.
LEMMA StoreBodyHolds == ASSUME ZInv, NEW p \in Procs, StoreBody(p) PROVE ZInv'
<1>0. /\ p \in Procs /\ pc \in [Procs -> Locations] /\ Working(p)
      /\ head \in [Procs -> Runs(Size)] /\ told \in [Procs -> EntrySet \union {None}]
      /\ opened \in [Procs -> BOOLEAN]
      /\ got \in [Procs -> Bytes] /\ outcome \in [Procs -> Outcomes]
      /\ NoBytes \in Bytes /\ NoBytes \in Runs(Size)
  BY RemoteZipAssumption
  DEF ZInv, TypeOK, RemoteZipAssumption, Bytes, Runs, NoBytes
<1> DEFINE e == told[p]
<1> DEFINE off == req[p].off
<1> DEFINE rng == BodyRange(e, head[p])
<1>1. /\ req[p] \in Requests /\ off \in Nat /\ e # None /\ BodyComes(p)
      /\ e.sized /\ e.body <= SizeThreshold
  BY <1>0, WantedInside DEF StoreBody, Working
<1>2. PICK n \in HeaderPieces : Came(p, n)
  BY <1>0 DEF StoreBody, Working
<1>3. n \in 0 .. HeaderLen /\ HeaderLen \in Nat \ {0} /\ Size \in Nat
  BY RemoteZipAssumption DEF RemoteZipAssumption
<1>4. /\ e \in EntrySet /\ e.at = off /\ n > 0
      /\ off + HeaderLen + e.extra + e.body <= Reach(off)
  BY <1>1, <1>2, <1>3, ToldFacts DEF Came
<1>5. e.extra \in Nat /\ e.body \in Nat
  BY <1>4 DEF EntrySet
<1>6. head[p] = [lo |-> off, hi |-> off + n]
  BY <1>1, <1>2, <1>3, <1>4 DEF Came, Run
<1>7. off + n + e.extra + e.body <= Size
  BY <1>1, <1>6 DEF BodyComes
<1>8. rng = [headerOffset |-> off, offset |-> off + HeaderLen + e.extra, size |-> e.body,
             header |-> head[p],
             data |-> Run(off + n + e.extra, off + n + e.extra + e.body), owner |-> None]
  BY <1>4, <1>6 DEF BodyRange
<1>9. cachedRanges' = Added(rng)
  BY DEF StoreBody
<1>10. Working(p)' /\ Exact(p)'
  BY <1>0 DEF StoreBody, Goto, Working, Exact, IsHeaderRead, Came
<1>11. Arrived(off, head[p])
  BY <1>2, <1>3 DEF Came, Arrived
<1>12. n < HeaderLen => off \in cut
  BY <1>2 DEF Came
<1> HIDE DEF e, off, rng
<1>13. Run(off + n + e.extra, off + n + e.extra + e.body) \in Bytes
  BY <1>1, <1>3, <1>5, <1>7, RunInside DEF Bytes
<1>14. rng \in RangeSet
  BY <1>0, <1>1, <1>3, <1>5, <1>8, <1>13 DEF RangeSet
<1>15. n < HeaderLen => CutShort(rng)
  BY <1>1, <1>3, <1>4, <1>5, <1>6, <1>8, <1>12 DEF CutShort, RunLen
<1>16. n = HeaderLen => rng.data = Run(rng.offset, rng.offset + rng.size)
  BY <1>8
<1>17. Truthful(rng)
  BY <1>3, <1>8, <1>11, <1>15, <1>16 DEF Truthful
<1> QED
  BY <1>0, <1>9, <1>10, <1>14, <1>17, StepTo DEF StoreBody, Goto, Locations

\* The caller gets the header that was read.
LEMMA FinishHeaderHolds == ASSUME ZInv, NEW p \in Procs, FinishHeader(p) PROVE ZInv'
<1>0. /\ p \in Procs /\ pc \in [Procs -> Locations] /\ Working(p)
      /\ head \in [Procs -> Runs(Size)] /\ told \in [Procs -> EntrySet \union {None}]
      /\ opened \in [Procs -> BOOLEAN]
      /\ got \in [Procs -> Bytes] /\ outcome \in [Procs -> Outcomes]
      /\ NoBytes \in Bytes /\ NoBytes \in Runs(Size)
  BY RemoteZipAssumption
  DEF ZInv, TypeOK, RemoteZipAssumption, Bytes, Runs, NoBytes
<1>1. head[p] \in Bytes /\ IsHeaderRead(p)
  BY <1>0 DEF FinishHeader, Working, Bytes
<1>2. Arrived(req[p].off, head[p])
  BY <1>0, RemoteZipAssumption DEF FinishHeader, Working, Came, Arrived, RemoteZipAssumption
<1>3. Answered(p)'
  BY <1>0, <1>1, <1>2 DEF FinishHeader, Answered, Arrived, IsHeaderRead
<1>4. Working(p)' /\ Exact(p)'
  BY <1>0, <1>3 DEF FinishHeader, Goto, Working, Exact
<1> QED
  BY <1>0, <1>1, <1>4, StepTo DEF FinishHeader, Goto, Locations

\* A part of a cached range is what was asked for, or was overwritten.
LEMMA ChunkLookupHolds == ASSUME ZInv, NEW p \in Procs, ChunkLookup(p) PROVE ZInv'
<1>0. /\ p \in Procs /\ pc \in [Procs -> Locations] /\ Working(p)
      /\ head \in [Procs -> Runs(Size)] /\ told \in [Procs -> EntrySet \union {None}]
      /\ opened \in [Procs -> BOOLEAN]
      /\ got \in [Procs -> Bytes] /\ outcome \in [Procs -> Outcomes]
      /\ NoBytes \in Bytes /\ NoBytes \in Runs(Size)
  BY RemoteZipAssumption
  DEF ZInv, TypeOK, RemoteZipAssumption, Bytes, Runs, NoBytes
<1>1. CASE ChunkHits(p) = {}
  <2>1. Working(p)' /\ Exact(p)'
    BY <1>0, <1>1 DEF ChunkLookup, Goto, Working, Exact, IsHeaderRead, Wanted, Came,
      Answered, BodyComes
  <2> QED
    BY <1>0, <1>1, <2>1, StepTo DEF ChunkLookup, Goto, Locations
<1>2. CASE ChunkHits(p) # {}
  <2>1. PICK i \in ChunkHits(p) : Return(p, "ok", Part(cachedRanges[i], p))
    BY <1>2 DEF ChunkLookup
  <2> DEFINE rng == cachedRanges[i]
  <2>2. /\ i \in 1 .. Len(cachedRanges) /\ req[p].off >= rng.offset
        /\ req[p].off < rng.offset + rng.size
        /\ req[p].off + req[p].len <= rng.offset + rng.size
    BY DEF ChunkHits
  <2>3. rng \in RangeSet /\ Truthful(rng)
    BY <2>2, RangeTruthful DEF ZInv
  <2>4. /\ req[p] \in Requests /\ ~IsHeaderRead(p)
        /\ req[p].off \in Nat /\ req[p].len \in Nat \ {0}
        /\ Wanted(p) \in Runs(Size)
    BY <1>0, WantedInside DEF ChunkLookup, Working
  <2> HIDE DEF rng
  <2>5. rng.offset \in Nat /\ rng.size \in Nat
    BY <2>3 DEF RangeSet
  <2>6. \/ Part(rng, p) = Overwritten
        \/ Part(rng, p) = Wanted(p)
        \/ \E off \in cut : Within(p, off)
    <3>1. CASE rng.data = Overwritten
      BY <3>1 DEF Part
    <3>2. CASE rng.data = Run(rng.offset, rng.offset + rng.size)
      <4>1. rng.data = [lo |-> rng.offset, hi |-> rng.offset + rng.size]
        BY <2>2, <2>4, <2>5, <3>2 DEF Run
      <4>2. rng.data.lo + req[p].off - rng.offset = req[p].off
        BY <2>4, <2>5, <4>1
      <4>3. MinOf(rng.data.lo + req[p].off - rng.offset + req[p].len, rng.data.hi)
               = req[p].off + req[p].len
        BY <2>2, <2>4, <2>5, <4>1 DEF MinOf
      <4> QED
        BY <2>5, <4>1, <4>2, <4>3 DEF Part, Wanted, Overwritten
    <3>3. CASE CutShort(rng)
      <4>1. PICK off \in cut :
               \/ off + HeaderLen <= rng.offset /\ rng.offset + rng.size <= Reach(off)
               \/ off = rng.offset /\ rng.size = HeaderLen
        BY <3>3 DEF CutShort
      <4>2. off \in Nat /\ HeaderLen \in Nat
        BY RemoteZipAssumption DEF ZInv, TypeOK, RemoteZipAssumption
      <4>3. Reach(off) \in Nat /\ off + HeaderLen <= Reach(off)
        BY <4>2, ReachFacts
      <4>4. Within(p, off)
        BY <2>2, <2>4, <2>5, <4>1, <4>2, <4>3 DEF Within
      <4> QED
        BY <4>4
    <3> QED
      BY <2>3, <3>1, <3>2, <3>3 DEF Truthful
  <2>7. Part(rng, p) \in Bytes
    <3>1. CASE rng.data = Overwritten
      BY <3>1 DEF Part, Bytes
    <3>2. CASE rng.data # Overwritten
      <4> DEFINE lo == rng.data.lo + req[p].off - rng.offset
      <4> DEFINE hi == MinOf(lo + req[p].len, rng.data.hi)
      <4>1. /\ rng.data.lo \in Nat /\ rng.data.hi \in Nat /\ rng.data.hi <= Size
            /\ Size \in Nat
        <5>1. rng.data \in Runs(Size)
          BY <2>3, <3>2 DEF RangeSet, Bytes
        <5> QED
          BY <5>1, RemoteZipAssumption DEF Runs, RemoteZipAssumption
      <4>2. lo \in Nat
        BY <2>2, <2>4, <2>5, <4>1
      <4>3. Part(rng, p) = Run(lo, hi)
        BY <3>2 DEF Part
      <4> HIDE DEF lo
      <4>4. hi \in Nat /\ hi <= Size
        BY <2>4, <4>1, <4>2 DEF MinOf
      <4> HIDE DEF hi
      <4> QED
        BY <4>2, <4>3, <4>4, RunInside DEF Bytes
    <3> QED
      BY <3>1, <3>2
  <2>8. Return(p, "ok", Part(rng, p))
    BY <2>1 DEF rng
  <2>9. IsHeaderRead(p)' <=> IsHeaderRead(p)
    BY DEF ChunkLookup, IsHeaderRead
  <2>10. got'[p] = Part(rng, p) /\ Wanted(p)' = Wanted(p)
    BY <1>0, <2>8 DEF ChunkLookup, Return, Wanted
  <2>11. \A off : Within(p, off)' <=> Within(p, off)
    BY DEF ChunkLookup, Within
  <2>12. Exact(p)'
    <3>1. cut' = cut
      BY DEF ChunkLookup
    <3>2. \/ got'[p] = Wanted(p)'
          \/ /\ ~IsHeaderRead(p)'
             /\ \/ got'[p] = Overwritten
                \/ \E off \in cut' : Within(p, off)'
      BY <2>4, <2>6, <2>9, <2>10, <2>11, <3>1
    <3> QED
      BY <3>2 DEF Exact, Answered
  <2>13. Working(p)'
    BY <1>0, <2>8 DEF ChunkLookup, Return, Working
  <2> QED
    BY <1>0, <2>7, <2>8, <2>12, <2>13, StepTo DEF ChunkLookup, Return, Locations, Outcomes
<1> QED
  BY <1>1, <1>2

\* A read that fails has returned a beginning of what was asked for.
LEMMA ReadChunkHolds == ASSUME ZInv, NEW p \in Procs, ReadChunk(p) PROVE ZInv'
<1>0. /\ p \in Procs /\ pc \in [Procs -> Locations] /\ Working(p)
      /\ head \in [Procs -> Runs(Size)] /\ told \in [Procs -> EntrySet \union {None}]
      /\ opened \in [Procs -> BOOLEAN]
      /\ got \in [Procs -> Bytes] /\ outcome \in [Procs -> Outcomes]
      /\ NoBytes \in Bytes /\ NoBytes \in Runs(Size)
  BY RemoteZipAssumption
  DEF ZInv, TypeOK, RemoteZipAssumption, Bytes, Runs, NoBytes
<1>1. /\ req[p] \in Requests /\ req[p].off \in Nat /\ req[p].len \in Nat
      /\ req[p].off + req[p].len <= Size /\ Wanted(p) \in Bytes
  BY <1>0, WantedInside DEF ReadChunk, Working, Bytes
<1>2. ASSUME NEW n \in 0 .. req[p].len - 1
      PROVE  Run(req[p].off, req[p].off + n) \in Bytes
  BY <1>1, RunInside, RemoteZipAssumption DEF Bytes, RemoteZipAssumption
<1>3. Wanted(p)' = Wanted(p)
  BY DEF ReadChunk, Wanted
<1>4. ASSUME got' = [got EXCEPT ![p] = Wanted(p)], Goto(p, "remember")
      PROVE  Working(p)' /\ Exact(p)'
  <2>1. Answered(p)'
    BY <1>0, <1>3, <1>4 DEF Answered
  <2> QED
    BY <1>0, <1>4, <2>1 DEF ReadChunk, Goto, Working, Exact
<1>5. ASSUME Return(p, "ok", Wanted(p)), opened' = [opened EXCEPT ![p] = FALSE]
      PROVE  Working(p)' /\ Exact(p)'
  <2>1. Answered(p)'
    BY <1>0, <1>3, <1>5 DEF Return, Answered
  <2> QED
    BY <1>0, <1>5, <2>1 DEF Return, Working, Exact
<1>6. ASSUME NEW run, Return(p, "error", run), opened' = [opened EXCEPT ![p] = FALSE]
      PROVE  Working(p)' /\ Exact(p)'
  BY <1>0, <1>6 DEF Return, Working, Exact
<1>7. Working(p)' /\ Exact(p)'
  BY <1>4, <1>5, <1>6 DEF ReadChunk
<1> QED
  BY <1>0, <1>1, <1>2, <1>7, StepTo DEF ReadChunk, Goto, Return, Locations, Outcomes

\* What is remembered is what was read.
LEMMA RememberHolds == ASSUME ZInv, NEW p \in Procs, Remember(p) PROVE ZInv'
<1>0. /\ p \in Procs /\ pc \in [Procs -> Locations] /\ Working(p)
      /\ head \in [Procs -> Runs(Size)] /\ told \in [Procs -> EntrySet \union {None}]
      /\ opened \in [Procs -> BOOLEAN]
      /\ got \in [Procs -> Bytes] /\ outcome \in [Procs -> Outcomes]
      /\ NoBytes \in Bytes /\ NoBytes \in Runs(Size)
  BY RemoteZipAssumption
  DEF ZInv, TypeOK, RemoteZipAssumption, Bytes, Runs, NoBytes
<1> DEFINE rng == ChunkRange(p)
<1>1. /\ req[p] \in Requests /\ req[p].off \in Nat /\ req[p].len \in Nat
      /\ Answered(p) /\ got[p] \in Bytes
  BY <1>0, WantedInside DEF Remember, Working
<1>2. rng \in RangeSet
  BY <1>0, <1>1 DEF ChunkRange, RangeSet
<1>3. Truthful(rng)
  <2>1. CASE got[p] = Wanted(p)
    BY <1>1, <2>1 DEF ChunkRange, Truthful, Wanted
  <2>2. CASE IsHeaderRead(p) /\ Arrived(req[p].off, got[p]) /\ got[p] # Wanted(p)
    <3>1. req[p].off \in cut /\ req[p].len = HeaderLen
      BY <2>2, RemoteZipAssumption DEF Arrived, Wanted, IsHeaderRead, RemoteZipAssumption
    <3> QED
      BY <2>2, <3>1 DEF ChunkRange, Truthful, CutShort
  <2> QED
    BY <1>1, <2>1, <2>2 DEF Answered
<1>4. Answered(p)'
  BY <1>0, <1>1 DEF Remember, Return, Answered, Arrived, IsHeaderRead, Wanted
<1>5. Working(p)' /\ Exact(p)'
  BY <1>0, <1>4 DEF Remember, Return, Working, Exact
<1> QED
  BY <1>0, <1>2, <1>3, <1>5, StepTo DEF Remember, Return, Locations, Outcomes

\* No step breaks it.
LEMMA ZStepHolds == ZInv /\ [Next]_vars => ZInv'
<1>1. ASSUME ZInv, UNCHANGED vars PROVE ZInv'
  <2>1. \A p \in Procs : Working(p)' /\ Exact(p)'
    BY <1>1, OthersStay DEF ZInv, vars
  <2>2. CacheTruthful'
    BY <1>1, UnchangedTruthful DEF ZInv, vars
  <2> QED
    BY <1>1, <2>1, <2>2 DEF ZInv, vars, TypeOK
<1> QED
  BY <1>1, CallHolds,
     HeaderLookupHolds, OpenHeaderHolds, ReadHeaderHolds, ParseOtherHolds, CacheHeaderHolds,
     LookupBodyHolds, ReadBodyHolds, StoreBodyHolds, FinishHeaderHolds, ChunkLookupHolds,
     OpenChunkHolds, ReadChunkHolds, RememberHolds
  DEF Next, Step

-----------------------------------------------------------------------------
(* Opening the archive.                                                    *)

Stages == {"end1", "end2", "dir", "open", "failed"}

OpenTyped ==
    /\ archive \in Archives
    /\ stage \in Stages
    /\ pos \in Nat
    /\ zipTailSize \in Nat \ {0}
    /\ completeBytes \in {"none", "blank", "full"}
    /\ requests \in Nat

\* The directory is read from its start up to the end record.
Forward == stage \in {"end1", "end2", "dir"} => pos < archive.end

\* The bytes that are kept are the last ones of the archive.
Kept ==
    /\ zipTail # Opening!NoTail =>
          zipTail = [lo |-> archive.size - zipTailSize, hi |-> archive.size]
    /\ completeBytes = "blank" => archive.whole /\ archive.faults

\* The requests a healthy server has had.
Counted ==
    ~archive.faults =>
        /\ archive.whole => requests = (IF completeBytes = "none" THEN 0 ELSE 1)
        /\ ~archive.whole =>
              /\ stage = "end1" => requests = 0
              /\ stage = "end2" =>
                    /\ requests <= 1
                    /\ requests = 0 \/ zipTail # Opening!NoTail \/ archive.size < TailSize
              /\ stage \in {"end1", "end2"} => zipTailSize = TailSize
              /\ stage = "dir" =>
                    requests <= 1 \/ (zipTail # Opening!NoTail /\ archive.size - zipTailSize <= pos)
              /\ requests <= 2

OpenInv == OpenTyped /\ Forward /\ Kept /\ Counted /\ Opening!AnswersExact

\* What is assumed of an archive.
LEMMA ArchiveFacts ==
  ASSUME Opening!RemoteOpenAssumption, NEW a \in Archives
  PROVE  /\ a.size \in Nat \ {0} /\ a.dir \in Nat /\ a.end \in Nat
         /\ a.whole \in BOOLEAN /\ a.faults \in BOOLEAN
         /\ a.dir < a.end /\ a.end < a.size
  BY DEF Opening!RemoteOpenAssumption, Opening!ArchiveSet

\* The invariant holds at the start.
LEMMA OpenInitHolds == ASSUME Opening!RemoteOpenAssumption, Opening!Init PROVE OpenInv
<1> archive \in Archives
  BY DEF Opening!Init
<1> USE ArchiveFacts DEF Opening!Init
<1>1. OpenTyped
  BY DEF OpenTyped, Opening!RemoteOpenAssumption, Stages
<1>2. Forward
  BY DEF Forward
<1>3. Kept
  BY DEF Kept
<1>4. Counted
  BY DEF Counted
<1>5. Opening!AnswersExact
  BY DEF Opening!AnswersExact, Opening!NoAnswer
<1> QED
  BY <1>1, <1>2, <1>3, <1>4, <1>5 DEF OpenInv

\* A call to ReadAt within the archive keeps what is kept, and answers exactly.
LEMMA ReadAtExact ==
  ASSUME Opening!RemoteOpenAssumption, OpenTyped, Kept, UNCHANGED archive,
         NEW off \in Nat, NEW len \in Nat \ {0}, off < archive.size,
         NEW run, NEW err, Opening!ReadAt(off, len, run, err)
  PROVE  /\ zipTailSize' \in Nat \ {0}
         /\ completeBytes' \in {"none", "blank", "full"}
         /\ requests' \in Nat
         /\ Kept'
         /\ answer' = [off |-> off, len |-> len, run |-> run, err |-> err]
         /\ err = "ok" => \/ run = Opening!Run(off, off + len)
                          \/ archive.whole /\ archive.faults /\ run = Opening!Blank
<1> archive \in Archives
  BY DEF OpenTyped
<1> USE ArchiveFacts DEF OpenTyped, Kept, Opening!Length
<1>1. CASE Opening!FromComplete(off, len, run, err)
  BY <1>1 DEF Opening!FromComplete, Opening!Answer
<1>2. CASE Opening!FetchComplete(off, len, run, err)
  BY <1>2 DEF Opening!FetchComplete, Opening!Answer
<1>3. /\ Opening!TailFor(off).size \in Nat \ {0}
      /\ Opening!TailFor(off).tail # Opening!NoTail =>
            Opening!TailFor(off).tail =
                [lo |-> archive.size - Opening!TailFor(off).size, hi |-> archive.size]
  BY DEF Opening!TailFor
<1>4. ASSUME NEW size \in Nat \ {0}
      PROVE  Opening!OfTail([lo |-> archive.size - size, hi |-> archive.size], size, off, len)
               = Opening!Run(off, off + len)
  <2> DEFINE tail == [lo |-> archive.size - size, hi |-> archive.size]
  <2>1. tail.lo = archive.size - size
    OBVIOUS
  <2>2. tail.lo + off - (archive.size - size) = off
    BY <2>1
  <2> QED
    BY <2>2 DEF Opening!OfTail
<1>5. CASE Opening!FromTail(off, len, run, err)
  <2>1. /\ zipTail' = Opening!TailFor(off).tail /\ zipTailSize' = Opening!TailFor(off).size
        /\ zipTail' # Opening!NoTail
        /\ UNCHANGED <<completeBytes, requests>>
        /\ Opening!Answer(off, len, run, err,
                          Opening!OfTail(zipTail', zipTailSize', off, len), "ok")
    BY <1>5 DEF Opening!FromTail
  <2>2. /\ zipTail' = [lo |-> archive.size - zipTailSize', hi |-> archive.size]
        /\ zipTailSize' \in Nat \ {0}
    BY <1>3, <2>1
  <2>3. run = Opening!Run(off, off + len)
    BY <1>4, <2>1, <2>2 DEF Opening!Answer
  <2> QED
    BY <2>1, <2>2, <2>3 DEF Opening!Answer
<1>6. CASE Opening!FetchTail(off, len, run, err)
  <2> DEFINE size == Opening!TailFor(off).size
  <2>1. size \in Nat \ {0} /\ zipTailSize' = size /\ requests' = requests + 1
        /\ UNCHANGED completeBytes
    BY <1>3, <1>6 DEF Opening!FetchTail
  <2>2. CASE /\ archive.size - size >= 0
             /\ zipTail' = Opening!Run(archive.size - size, archive.size)
             /\ Opening!Answer(off, len, run, err, Opening!OfTail(zipTail', size, off, len), "ok")
    <3>1. zipTail' = [lo |-> archive.size - size, hi |-> archive.size]
      BY <2>1, <2>2 DEF Opening!Run
    <3>2. run = Opening!Run(off, off + len)
      BY <1>4, <2>1, <2>2, <3>1 DEF Opening!Answer
    <3> QED
      BY <2>1, <2>2, <3>1, <3>2 DEF Opening!Answer
  <2>3. CASE /\ zipTail' = Opening!NoTail
             /\ \E e \in {"eof", "error"} : Opening!Answer(off, len, run, err, Opening!NoBytes, e)
    BY <2>1, <2>3 DEF Opening!Answer
  <2> QED
    BY <1>6, <2>2, <2>3 DEF Opening!FetchTail
<1> QED
  BY <1>1, <1>2, <1>5, <1>6 DEF Opening!ReadAt

\* What a call to ReadAt costs when the server is healthy: nothing where the tail
\* reaches.  It fails only when the archive is shorter than the tail, and returns
\* nothing then.
LEMMA ReadAtCost ==
  ASSUME Opening!RemoteOpenAssumption, OpenTyped, Kept, UNCHANGED archive,
         NEW off \in Nat, NEW len \in Nat \ {0}, off < archive.size,
         NEW run, NEW err, Opening!ReadAt(off, len, run, err), ~archive.faults
  PROVE  /\ archive.whole =>
                /\ completeBytes' # "none"
                /\ requests' = requests + (IF completeBytes = "none" THEN 1 ELSE 0)
         /\ ~archive.whole =>
                /\ requests' \in {requests, requests + 1}
                /\ zipTail # Opening!NoTail /\ archive.size - zipTailSize <= off =>
                      requests' = requests
                /\ archive.size - zipTailSize <= off => zipTailSize' = zipTailSize
                /\ err = "ok" => zipTail' # Opening!NoTail
                /\ err # "ok" => run = Opening!NoBytes /\ archive.size < zipTailSize'
                /\ archive.size - zipTailSize' <= off
<1> archive \in Archives
  BY DEF OpenTyped
<1> USE ArchiveFacts DEF OpenTyped, Kept, Opening!Length
<1>1. CASE Opening!FromComplete(off, len, run, err)
  BY <1>1 DEF Opening!FromComplete, Opening!Answer
<1>2. CASE Opening!FetchComplete(off, len, run, err)
  BY <1>2 DEF Opening!FetchComplete, Opening!Answer
<1>3. /\ Opening!TailFor(off).size \in Nat \ {0}
      /\ archive.size - Opening!TailFor(off).size <= off
      /\ archive.size - zipTailSize <= off =>
            Opening!TailFor(off).size = zipTailSize /\ Opening!TailFor(off).tail = zipTail
  BY DEF Opening!TailFor
<1>4. CASE Opening!FromTail(off, len, run, err)
  BY <1>3, <1>4 DEF Opening!FromTail, Opening!Answer
<1>5. CASE Opening!FetchTail(off, len, run, err)
  <2> DEFINE size == Opening!TailFor(off).size
  <2>1. /\ ~archive.whole /\ zipTailSize' = size /\ requests' = requests + 1
        /\ Opening!TailFor(off).tail = Opening!NoTail
    BY <1>5 DEF Opening!FetchTail
  <2>2. CASE /\ archive.size - size >= 0
             /\ zipTail' = Opening!Run(archive.size - size, archive.size)
             /\ Opening!Answer(off, len, run, err, Opening!OfTail(zipTail', size, off, len), "ok")
    <3>1. zipTail' # Opening!NoTail
      BY <1>3, <2>2 DEF Opening!Run, Opening!NoTail
    <3> QED
      BY <1>3, <2>1, <2>2, <3>1 DEF Opening!Answer
  <2>3. CASE /\ archive.size - size < 0
             /\ \E e \in {"eof", "error"} : Opening!Answer(off, len, run, err, Opening!NoBytes, e)
    BY <1>3, <2>1, <2>3 DEF Opening!Answer
  <2> QED
    BY <1>5, <2>2, <2>3 DEF Opening!FetchTail
<1> QED
  BY <1>1, <1>2, <1>4, <1>5 DEF Opening!ReadAt
\* A look for the end record, which the first tail reaches, costs a request at
\* most, and leaves a tail unless the archive is too short for one.
LEMMA FindEndHolds ==
  ASSUME Opening!RemoteOpenAssumption, OpenInv, NEW block \in Nat \ {0}, block <= TailSize,
         NEW next \in {"end2", "failed"}, Opening!FindEnd(block, next),
         stage \in {"end1", "end2"}, next = "end2" => stage = "end1"
  PROVE  OpenInv'
<1> archive \in Archives
  BY DEF OpenInv, OpenTyped
<1> USE ArchiveFacts DEF Opening!Length
<1> DEFINE len == Opening!MinOf(block, archive.size)
<1> DEFINE off == archive.size - len
<1>1. /\ len \in Nat \ {0} /\ len <= block
      /\ off \in Nat /\ off < archive.size /\ off + len = archive.size
  BY DEF Opening!MinOf
<1>2. PICK run \in Opening!Results, err \in Opening!Errors :
        /\ Opening!ReadAt(off, len, run, err)
        /\ stage' = IF err = "error" THEN "failed"
                    ELSE IF run = Opening!Run(off, archive.size) /\ archive.end >= off THEN "dir"
                    ELSE IF len = archive.size THEN "failed" ELSE next
        /\ UNCHANGED <<archive, pos>>
  BY DEF Opening!FindEnd
<1>3. /\ zipTailSize' \in Nat \ {0}
      /\ completeBytes' \in {"none", "blank", "full"}
      /\ requests' \in Nat
      /\ Kept'
      /\ answer' = [off |-> off, len |-> len, run |-> run, err |-> err]
      /\ err = "ok" => \/ run = Opening!Run(off, off + len)
                       \/ archive.whole /\ archive.faults /\ run = Opening!Blank
  BY <1>1, <1>2, ReadAtExact DEF OpenInv
<1>4. stage' \in {"failed", "dir", next}
  BY <1>2
<1>5. OpenTyped'
  BY <1>2, <1>3, <1>4 DEF OpenInv, OpenTyped, Stages
<1>6. Forward'
  BY <1>2, <1>4 DEF OpenInv, Forward
<1>7. Counted'
  <2> SUFFICES ASSUME ~archive.faults
               PROVE  Counted'
    BY <1>2 DEF Counted
  <2>1. /\ archive.whole =>
              /\ completeBytes' # "none"
              /\ requests' = requests + (IF completeBytes = "none" THEN 1 ELSE 0)
        /\ ~archive.whole =>
              /\ requests' \in {requests, requests + 1}
              /\ zipTail # Opening!NoTail /\ archive.size - zipTailSize <= off =>
                    requests' = requests
              /\ archive.size - zipTailSize <= off => zipTailSize' = zipTailSize
              /\ err = "ok" => zipTail' # Opening!NoTail
              /\ err # "ok" => run = Opening!NoBytes /\ archive.size < zipTailSize'
              /\ archive.size - zipTailSize' <= off
    BY <1>1, <1>2, ReadAtCost DEF OpenInv
  <2>2. CASE archive.whole
    BY <1>2, <1>3, <2>1, <2>2 DEF OpenInv, Counted, OpenTyped
  <2>3. CASE ~archive.whole
    <3>1. zipTailSize = TailSize /\ TailSize \in Nat \ {0}
      BY <2>3 DEF OpenInv, Counted, Opening!RemoteOpenAssumption
    <3>2. archive.size - zipTailSize <= off /\ zipTailSize' = TailSize
      BY <1>1, <2>1, <2>3, <3>1
    <3>3. requests \in Nat /\ requests <= 1 /\ requests' <= 2
      BY <2>1, <2>3 DEF OpenInv, Counted, OpenTyped
    <3>4. stage = "end1" => requests = 0
      BY <2>3 DEF OpenInv, Counted
    <3>5. stage' = "dir" => zipTail' # Opening!NoTail
      <4>1. Opening!Run(off, archive.size) # Opening!NoBytes
        BY <1>1 DEF Opening!Run, Opening!NoBytes
      <4> QED
        BY <1>2, <2>1, <2>3, <4>1
    <3>6. stage' = "dir" => requests' <= 1 \/ archive'.size - zipTailSize' <= pos'
      <4>1. CASE stage = "end1"
        BY <2>1, <2>3, <3>4, <4>1
      <4>2. CASE stage = "end2"
        <5>1. requests = 0 \/ zipTail # Opening!NoTail \/ archive.size < TailSize
          BY <2>3, <4>2 DEF OpenInv, Counted
        <5>2. pos' \in Nat
          BY <1>5 DEF OpenTyped
        <5> QED
          BY <1>2, <2>1, <2>3, <3>1, <3>2, <3>3, <5>1, <5>2
      <4> QED
        BY <4>1, <4>2
    <3>7. stage' = "end2" =>
            /\ requests' <= 1
            /\ requests' = 0 \/ zipTail' # Opening!NoTail \/ archive'.size < TailSize
      BY <1>2, <2>1, <2>3, <3>2, <3>4
    <3>8. stage' # "end1"
      BY <1>4
    <3> QED
      BY <1>2, <2>3, <3>2, <3>3, <3>5, <3>6, <3>7, <3>8 DEF Counted
  <2> QED
    BY <2>2, <2>3
<1>8. Opening!AnswersExact'
  BY <1>1, <1>2, <1>3, <1>7 DEF Opening!AnswersExact, Counted
<1> QED
  BY <1>3, <1>5, <1>6, <1>7, <1>8 DEF OpenInv

\* A read of the directory may lengthen the tail once; the next ones are after it.
LEMMA ReadDirectoryHolds ==
  ASSUME Opening!RemoteOpenAssumption, OpenInv, Opening!ReadDirectory
  PROVE  OpenInv'
<1> archive \in Archives
  BY DEF OpenInv, OpenTyped
<1> USE ArchiveFacts DEF Opening!Length
<1> DEFINE len == Opening!MinOf(Chunk, archive.size - pos)
<1>1. stage = "dir" /\ pos \in Nat /\ pos < archive.end /\ pos < archive.size
  BY DEF Opening!ReadDirectory, OpenInv, OpenTyped, Forward
<1>2. len \in Nat \ {0}
  BY <1>1 DEF Opening!MinOf, Opening!RemoteOpenAssumption
<1>3. PICK run \in Opening!Results, err \in Opening!Errors :
        /\ Opening!ReadAt(pos, len, run, err)
        /\ pos' = IF err = "ok" THEN pos + len ELSE pos
        /\ stage' = IF err # "ok" THEN "failed"
                    ELSE IF pos + len >= archive.end THEN "open" ELSE "dir"
        /\ UNCHANGED archive
  BY DEF Opening!ReadDirectory
<1>4. /\ zipTailSize' \in Nat \ {0}
      /\ completeBytes' \in {"none", "blank", "full"}
      /\ requests' \in Nat
      /\ Kept'
      /\ answer' = [off |-> pos, len |-> len, run |-> run, err |-> err]
      /\ err = "ok" => \/ run = Opening!Run(pos, pos + len)
                       \/ archive.whole /\ archive.faults /\ run = Opening!Blank
  BY <1>1, <1>2, <1>3, ReadAtExact DEF OpenInv
<1>5. /\ stage' \in {"failed", "open", "dir"}
      /\ stage' = "dir" => err = "ok" /\ pos' = pos + len /\ pos' < archive.end
  BY <1>1, <1>2, <1>3
<1>6. OpenTyped'
  BY <1>1, <1>2, <1>3, <1>4, <1>5 DEF OpenInv, OpenTyped, Stages
<1>7. Forward'
  BY <1>3, <1>5 DEF Forward
<1>8. Counted'
  <2> SUFFICES ASSUME ~archive.faults
               PROVE  Counted'
    BY <1>3 DEF Counted
  <2>1. /\ archive.whole =>
              /\ completeBytes' # "none"
              /\ requests' = requests + (IF completeBytes = "none" THEN 1 ELSE 0)
        /\ ~archive.whole =>
              /\ requests' \in {requests, requests + 1}
              /\ zipTail # Opening!NoTail /\ archive.size - zipTailSize <= pos =>
                    requests' = requests
              /\ archive.size - zipTailSize <= pos => zipTailSize' = zipTailSize
              /\ err = "ok" => zipTail' # Opening!NoTail
              /\ err # "ok" => run = Opening!NoBytes /\ archive.size < zipTailSize'
              /\ archive.size - zipTailSize' <= pos
    BY <1>1, <1>2, <1>3, ReadAtCost DEF OpenInv
  <2>2. CASE archive.whole
    BY <1>3, <1>4, <2>1, <2>2 DEF OpenInv, Counted, OpenTyped
  <2>3. CASE ~archive.whole
    <3>1. /\ requests \in Nat /\ requests <= 2
          /\ requests <= 1 \/ (zipTail # Opening!NoTail /\ archive.size - zipTailSize <= pos)
      BY <1>1, <2>3 DEF OpenInv, Counted, OpenTyped
    <3>2. requests' <= 2
      BY <2>1, <2>3, <3>1
    <3>3. stage' = "dir" => zipTail' # Opening!NoTail /\ archive'.size - zipTailSize' <= pos'
      BY <1>1, <1>2, <1>3, <1>4, <1>5, <2>1, <2>3
    <3> QED
      BY <1>3, <1>5, <2>3, <3>2, <3>3 DEF Counted
  <2> QED
    BY <2>2, <2>3
<1>9. Opening!AnswersExact'
  BY <1>3, <1>4, <1>8 DEF Opening!AnswersExact, Counted
<1> QED
  BY <1>4, <1>6, <1>7, <1>8, <1>9 DEF OpenInv

\* Every step keeps the invariant.
LEMMA OpenStepHolds ==
  ASSUME Opening!RemoteOpenAssumption, OpenInv, [Opening!Next]_(Opening!vars)
  PROVE  OpenInv'
<1>0. /\ EndBlock1 \in Nat \ {0} /\ EndBlock1 <= TailSize
      /\ EndBlock2 \in Nat \ {0} /\ EndBlock2 <= TailSize
  BY DEF Opening!RemoteOpenAssumption
<1>1. CASE Opening!FindEnd1
  BY <1>0, <1>1, FindEndHolds DEF Opening!FindEnd1
<1>2. CASE Opening!FindEnd2
  BY <1>0, <1>2, FindEndHolds DEF Opening!FindEnd2
<1>3. CASE Opening!ReadDirectory
  BY <1>3, ReadDirectoryHolds
<1>4. CASE UNCHANGED Opening!vars
  BY <1>4
  DEF Opening!vars, OpenInv, OpenTyped, Forward, Kept, Counted, Opening!AnswersExact,
      Opening!Length
<1> QED
  BY <1>1, <1>2, <1>3, <1>4 DEF Opening!Next

-----------------------------------------------------------------------------
(* The life of the adapter.                                                *)

\* The steps after the archive was opened keep the invariant of its opening.
LEMMA LaterStepsHold ==
  ASSUME Opening!RemoteOpenAssumption, OpenInv,
         MakeReady \/ ReadParts \/ ReadWhole \/ UNCHANGED RAVars
  PROVE  OpenInv'
<1> archive \in Archives
  BY DEF OpenInv, OpenTyped
<1>0. /\ archive.size \in Nat \ {0} /\ archive.dir \in Nat
  BY DEF Opening!RemoteOpenAssumption, Opening!ArchiveSet
<1> USE DEF OpenInv, OpenTyped, Forward, Kept, Counted,
            Opening!AnswersExact, Opening!Length, Stages
<1>1. CASE MakeReady
  BY <1>0, <1>1 DEF MakeReady, Opening!NoTail, Opening!NoAnswer
<1>2. CASE UNCHANGED openVars
  BY <1>2 DEF openVars
<1>3. CASE ReadWhole
  <2>1. PICK off \in 0 .. archive.size - 1 : \E len \in 1 .. archive.size - off :
          \E run \in Opening!Results, err \in Opening!Errors :
             Opening!FromComplete(off, len, run, err)
    BY <1>3 DEF ReadWhole
  <2>2. PICK len \in 1 .. archive.size - off :
          \E run \in Opening!Results, err \in Opening!Errors :
             Opening!FromComplete(off, len, run, err)
    BY <2>1
  <2>3. PICK run \in Opening!Results, err \in Opening!Errors :
             Opening!FromComplete(off, len, run, err)
    BY <2>2
  <2> QED
    BY <1>3, <2>3
    DEF ReadWhole, Opening!FromComplete, Opening!Answer, Opening!Blank,
        Opening!Run, Opening!NoBytes, Opening!NoTail
<1> QED
  BY <1>1, <1>2, <1>3 DEF ReadParts, RAVars, openVars

\* Whatever the sizes of archive, directory, tail and blocks, a read of a
\* remoteZIPAdapter while the archive is opened, and of one that is kept as a whole
\* afterwards, returns the bytes asked for, or the unfilled buffer of a first fetch
\* that broke off; and a healthy server is asked at most twice to open an archive.
THEOREM Exactness == RASpec => []AnswersExact
<1>0. Opening!RemoteOpenAssumption
  BY RemoteArchiveAssumption
<1>1. RAInit => OpenInv
  BY <1>0, OpenInitHolds DEF RAInit
<1>2. OpenInv /\ [RANext]_RAVars => OpenInv'
  <2> SUFFICES ASSUME OpenInv, [RANext]_RAVars
               PROVE  OpenInv'
    OBVIOUS
  <2>1. CASE Open
    <3>1. Opening!Next
      BY <2>1 DEF Open
    <3> QED
      BY <1>0, <3>1, OpenStepHolds
  <2> QED
    BY <2>1, LaterStepsHold, RemoteArchiveAssumption DEF RANext
<1>3. OpenInv => AnswersExact
  BY DEF OpenInv, AnswersExact
<1> QED
  BY <1>1, <1>2, <1>3, PTL DEF RASpec

\* The cache's invariant: nothing reads through it before the archive is open.
LEMMA RangesHold == RASpec => []ZInv
<1>1. RAInit => ZInv
  BY ZInitHolds DEF RAInit
<1>2. ZInv /\ [RANext]_RAVars => ZInv'
  <2> SUFFICES ASSUME ZInv, [RANext]_RAVars PROVE ZInv'
    OBVIOUS
  <2>1. [Next]_vars
    BY DEF RANext, RAVars, Open, MakeReady, ReadParts, ReadWhole
  <2> QED
    BY <2>1, ZStepHolds
<1> QED
  BY <1>1, <1>2, PTL DEF RASpec

\* Every variable of the cache has its type, and the cache is never longer than
\* cacheCountThreshold.
THEOREM CacheBounded == RASpec => []TypeOK
<1>1. ZInv => TypeOK
  BY DEF ZInv
<1> QED
  BY <1>1, RangesHold, PTL

\* However many goroutines read, store and evict at once, and wherever a header
\* breaks off: a cached header is the header at its offset or a beginning of it if it
\* came short, and cached data is the archive's at its offset, unless it lies in a
\* buffer its reader has used again or was made of a header that came short.
THEOREM RangesTruthful == RASpec => []CacheTruthful
<1>1. ZInv => CacheTruthful
  BY DEF ZInv
<1> QED
  BY <1>1, RangesHold, PTL

\* A ReadAt that succeeds has returned what was asked for, be it from the cache or
\* the network, but for a hit on data overwritten by the reader it belongs to, and
\* for reads within an entry whose header came short once.
THEOREM PartsExact == RASpec => []ReadsExact
<1>1. ZInv => ReadsExact
  BY DEF ZInv, Exact, Answered, Within, ReadsExact
<1> QED
  BY <1>1, RangesHold, PTL

\* Whatever way a ReadAt ends, it leaves no response of the server open.
THEOREM NoResponseLeft == RASpec => []ResponsesClosed
<1>1. ZInv => ResponsesClosed
  BY DEF ZInv, Working, ResponsesClosed
<1> QED
  BY <1>1, RangesHold, PTL
=============================================================================
