------------------------- MODULE SearchService_proofs -------------------------
(***************************************************************************)
(* Proofs about SearchService, for any number of searches and resources,   *)
(* and so about PublicationSearch, which runs it.                          *)
(*                                                                         *)
(* The invariant says who may be building (Exclusive), and what a build    *)
(* has read so far: while its context is alive, everything readable it has *)
(* come past (Collected).  A context can die during the last read, which   *)
(* then leaves a hole in data; it is the check before the first resource   *)
(* is extracted that keeps the hole out of the corpus, so from the second  *)
(* one on data is complete whatever becomes of the context.                *)
(*                                                                         *)
(* An iterator is at the start of a page or at the end of its matches, and *)
(* has returned what lies before its position (Iterated); that the matches *)
(* the engine finds are a sequence at all is an induction over the         *)
(* resources, done by the least resource where it fails.                   *)
(*                                                                         *)
(* What the engine finds is followed through the texts a resource has: its *)
(* tokens, its plain text, and the text it is searched in, where a space   *)
(* stands for many and a letter for its case folded.  Each is a function   *)
(* of the one before, place by place (Finished, Origin), so a match stands *)
(* for a part of the plain text and every part that reads like the query   *)
(* is a place the scan comes past (Scanned); the hits of the resources     *)
(* follow one another as the resources do (Merged).                        *)
(***************************************************************************)
EXTENDS PublicationSearch, SequenceTheorems, WellFoundedInduction, TLAPS

Holding == {"build", "read", "extract"}

Labels == {"idle", "lock", "build", "read", "extract", "find", "paging"}

Typed ==
    /\ mu \in Searchers \union {None}
    /\ corpus \in (SUBSET Resources) \union {None}
    /\ builds \in Nat
    /\ pc \in [Searchers -> Labels]
    /\ cancelled \in [Searchers -> BOOLEAN]
    /\ next \in [Searchers -> 1 .. N + 1]
    /\ data \in [Searchers -> SUBSET Resources]

\* The mutex is held through the build, and nobody builds a second corpus.
Exclusive ==
    /\ \A s \in Searchers : pc[s] \in Holding <=> mu = s
    /\ mu # None => corpus = None
    /\ builds = IF corpus = None THEN 0 ELSE 1

\* What a build has read.
Collected ==
    \A s \in Searchers :
        /\ pc[s] \in Holding => data[s] \intersect Broken = {}
        /\ pc[s] \in {"build", "read"} /\ ~cancelled[s] /\ ~Transient =>
              \A r \in Resources : r < next[s] /\ r \notin Broken => r \in data[s]
        /\ pc[s] = "read" => next[s] <= N
        /\ pc[s] = "extract" /\ (~cancelled[s] \/ next[s] > 1) /\ ~Transient =>
              data[s] = Resources \ Broken

\* What was published, if only broken resources and dead contexts make reads fail.
Published == ~Transient => CorpusComplete

IInv == Typed /\ Exclusive /\ Collected /\ Published

\* The invariant holds at the start.
LEMMA InitHolds == Init => IInv
<1> SUFFICES ASSUME Init PROVE IInv
  OBVIOUS
<1> USE SearchServiceAssumption DEF SearchServiceAssumption, Init, Resources, Labels, Holding
<1>1. Typed
  BY DEF Typed
<1>2. Exclusive
  BY DEF Exclusive
<1>3. Collected
  BY DEF Collected
<1>4. Published
  BY DEF Published, CorpusComplete
<1> QED
  BY <1>1, <1>2, <1>3, <1>4 DEF IInv

\* No step breaks the types: the one that advances next reads or extracts a
\* resource there is.
LEMMA TypedStep == Typed /\ Collected /\ [Next]_vars => Typed'
<1> SUFFICES ASSUME Typed, Collected, [Next]_vars PROVE Typed'
  OBVIOUS
<1>1. mu' \in Searchers \union {None}
  BY DEF Typed, Next, Build, vars, iterVars, Search, Cancel, Lock, Goto, Abort, BuildCheck,
      ReadResource, Extract, Find, NextCall, Close
<1>2. corpus' \in (SUBSET Resources) \union {None}
  BY DEF Typed, Next, Build, vars, iterVars, Search, Cancel, Lock, Goto, Abort, BuildCheck,
      ReadResource, Extract, Find, NextCall, Close
<1>3. builds' \in Nat
  BY DEF Typed, Next, Build, vars, iterVars, Search, Cancel, Lock, Goto, Abort, BuildCheck,
      ReadResource, Extract, Find, NextCall, Close
<1>4. pc' \in [Searchers -> Labels]
  BY DEF Labels, Typed, Next, Build, vars, iterVars, Search, Cancel, Lock, Goto, Abort, BuildCheck,
      ReadResource, Extract, Find, NextCall, Close
<1>5. cancelled' \in [Searchers -> BOOLEAN]
  BY DEF Typed, Next, Build, vars, iterVars, Search, Cancel, Lock, Goto, Abort, BuildCheck,
      ReadResource, Extract, Find, NextCall, Close
<1>6. next' \in [Searchers -> 1 .. N + 1]
  <2>1. N \in Nat \ {0} /\ next \in [Searchers -> 1 .. N + 1]
    BY SearchServiceAssumption DEF SearchServiceAssumption, Typed
  <2>2. ASSUME NEW s \in Searchers, Search(s) \/ Cancel(s) \/ Find(s) \/ NextCall(s) \/ Close(s)
        PROVE  next' = next
    BY <2>2 DEF Search, Cancel, Find, NextCall, Close
  <2>3. ASSUME NEW s \in Searchers, Lock(s) \/ BuildCheck(s) \/ ReadResource(s) \/ Extract(s)
        PROVE  next' \in [Searchers -> 1 .. N + 1]
    BY <2>1, <2>3 DEF Collected, Lock, BuildCheck, ReadResource, Extract
  <2> QED
    BY <2>1, <2>2, <2>3 DEF Next, Build, vars
<1>7. data' \in [Searchers -> SUBSET Resources]
  <2>1. CASE UNCHANGED data
    BY <2>1 DEF Typed
  <2>2. ASSUME NEW s \in Searchers, data' = [data EXCEPT ![s] = {}]
        PROVE  data' \in [Searchers -> SUBSET Resources]
    BY <2>2 DEF Typed
  <2>3. ASSUME NEW s \in Searchers, ReadResource(s),
               data' = [data EXCEPT ![s] = @ \union {next[s]}]
        PROVE  data' \in [Searchers -> SUBSET Resources]
    <3>1. next[s] \in Resources
      BY <2>3, SearchServiceAssumption
      DEF SearchServiceAssumption, ReadResource, Collected, Typed, Resources
    <3>2. data[s] \union {next[s]} \in SUBSET Resources
      BY <3>1 DEF Typed
    <3> QED
      BY <2>3, <3>2 DEF Typed
  <2> QED
    BY <2>1, <2>2, <2>3
    DEF Next, Build, vars, iterVars, Search, Cancel, Lock, Goto, Abort, BuildCheck,
      ReadResource, Extract, Find, NextCall, Close
<1> QED
  BY <1>1, <1>2, <1>3, <1>4, <1>5, <1>6, <1>7 DEF Typed

\* No step breaks it.
LEMMA StepHolds == IInv /\ [Next]_vars => IInv'
<1> SUFFICES ASSUME Typed, Exclusive, Collected, Published, Typed', [Next]_vars
             PROVE  Exclusive' /\ Collected' /\ Published'
  BY TypedStep DEF IInv
<1> DEFINE Kept == Exclusive' /\ Collected' /\ Published'
<1>0. CASE UNCHANGED vars
  BY <1>0 DEF vars, iterVars, Exclusive, Collected, Published, CorpusComplete
<1>1. ASSUME NEW s \in Searchers, Search(s) PROVE Kept
  <2>1. Exclusive'
    BY <1>1, SearchServiceAssumption
    DEF SearchServiceAssumption, Search,
        Typed, Exclusive, Holding
  <2>2. Collected'
    BY <1>1, SearchServiceAssumption
    DEF SearchServiceAssumption, Search,
        Typed, Exclusive, Collected, Holding, Resources
  <2>3. Published'
    BY <1>1, SearchServiceAssumption
    DEF SearchServiceAssumption, Search,
        Typed, Exclusive, Collected, Published, CorpusComplete, Holding
  <2> QED
    BY <2>1, <2>2, <2>3
<1>2. ASSUME NEW s \in Searchers, Cancel(s) PROVE Kept
  <2>1. Exclusive'
    BY <1>2, SearchServiceAssumption
    DEF SearchServiceAssumption, Cancel,
        Typed, Exclusive, Holding
  <2>2. Collected'
    BY <1>2, SearchServiceAssumption
    DEF SearchServiceAssumption, Cancel,
        Typed, Exclusive, Collected, Holding, Resources
  <2>3. Published'
    BY <1>2, SearchServiceAssumption
    DEF SearchServiceAssumption, Cancel,
        Typed, Exclusive, Collected, Published, CorpusComplete, Holding
  <2> QED
    BY <2>1, <2>2, <2>3
<1>3. ASSUME NEW s \in Searchers, Lock(s) PROVE Kept
  <2>1. CASE corpus # None
    <3>1. Exclusive'
      BY <1>3, <2>1, SearchServiceAssumption
      DEF SearchServiceAssumption, Lock, Goto,
          Typed, Exclusive, Holding
    <3>2. Collected'
      BY <1>3, <2>1, SearchServiceAssumption
      DEF SearchServiceAssumption, Lock, Goto,
          Typed, Exclusive, Collected, Holding, Resources
    <3>3. Published'
      BY <1>3, <2>1, SearchServiceAssumption
      DEF SearchServiceAssumption, Lock, Goto,
          Typed, Exclusive, Collected, Published, CorpusComplete, Holding
    <3> QED
      BY <3>1, <3>2, <3>3
  <2>2. CASE corpus = None /\ cancelled[s]
    <3>1. Exclusive'
      BY <1>3, <2>2, SearchServiceAssumption
      DEF SearchServiceAssumption, Lock, Goto,
          Typed, Exclusive, Holding
    <3>2. Collected'
      BY <1>3, <2>2, SearchServiceAssumption
      DEF SearchServiceAssumption, Lock, Goto,
          Typed, Exclusive, Collected, Holding, Resources
    <3>3. Published'
      BY <1>3, <2>2, SearchServiceAssumption
      DEF SearchServiceAssumption, Lock, Goto,
          Typed, Exclusive, Collected, Published, CorpusComplete, Holding
    <3> QED
      BY <3>1, <3>2, <3>3
  <2>3. CASE corpus = None /\ ~cancelled[s]
    <3>1. Exclusive'
      BY <1>3, <2>3, SearchServiceAssumption
      DEF SearchServiceAssumption, Lock, Goto,
          Typed, Exclusive, Holding
    <3>2. Collected'
      <4> SUFFICES ASSUME NEW t \in Searchers
                   PROVE  /\ pc'[t] \in Holding => data'[t] \intersect Broken = {}
                          /\ pc'[t] \in {"build", "read"} /\ ~cancelled'[t] /\ ~Transient =>
                                \A r \in Resources :
                                   r < next'[t] /\ r \notin Broken => r \in data'[t]
                          /\ pc'[t] = "read" => next'[t] <= N
                          /\ pc'[t] = "extract" /\ (~cancelled'[t] \/ next'[t] > 1) /\ ~Transient =>
                                data'[t] = Resources \ Broken
        BY DEF Collected
      <4>1. CASE t = s
        BY <1>3, <2>3, <4>1 DEF Lock, Goto, Typed, Resources
      <4>2. CASE t # s
        BY <1>3, <2>3, <4>2 DEF Lock, Goto, Typed, Collected
      <4> QED
        BY <4>1, <4>2
    <3>3. Published'
      BY <1>3, <2>3, SearchServiceAssumption
      DEF SearchServiceAssumption, Lock, Goto,
          Typed, Exclusive, Collected, Published, CorpusComplete, Holding
    <3> QED
      BY <3>1, <3>2, <3>3
  <2> QED
    BY <1>3, <2>1, <2>2, <2>3, SearchServiceAssumption
    DEF SearchServiceAssumption, Lock, Goto, Typed
<1>4. ASSUME NEW s \in Searchers, BuildCheck(s) PROVE Kept
  <2>1. CASE next[s] > N
    <3>1. Exclusive'
      BY <1>4, <2>1, SearchServiceAssumption
      DEF SearchServiceAssumption, BuildCheck, Goto, Abort,
          Typed, Exclusive, Holding
    <3>2. Collected'
      BY <1>4, <2>1, SearchServiceAssumption
      DEF SearchServiceAssumption, BuildCheck, Goto, Abort,
          Typed, Exclusive, Collected, Holding, Resources
    <3>3. Published'
      BY <1>4, <2>1, SearchServiceAssumption
      DEF SearchServiceAssumption, BuildCheck, Goto, Abort,
          Typed, Exclusive, Collected, Published, CorpusComplete, Holding
    <3> QED
      BY <3>1, <3>2, <3>3
  <2>2. CASE ~(next[s] > N) /\ cancelled[s]
    <3>1. Exclusive'
      BY <1>4, <2>2, SearchServiceAssumption
      DEF SearchServiceAssumption, BuildCheck, Goto, Abort,
          Typed, Exclusive, Holding
    <3>2. Collected'
      BY <1>4, <2>2, SearchServiceAssumption
      DEF SearchServiceAssumption, BuildCheck, Goto, Abort,
          Typed, Exclusive, Collected, Holding, Resources
    <3>3. Published'
      BY <1>4, <2>2, SearchServiceAssumption
      DEF SearchServiceAssumption, BuildCheck, Goto, Abort,
          Typed, Exclusive, Collected, Published, CorpusComplete, Holding
    <3> QED
      BY <3>1, <3>2, <3>3
  <2>3. CASE ~(next[s] > N) /\ ~cancelled[s]
    <3>1. Exclusive'
      BY <1>4, <2>3, SearchServiceAssumption
      DEF SearchServiceAssumption, BuildCheck, Goto, Abort,
          Typed, Exclusive, Holding
    <3>2. Collected'
      BY <1>4, <2>3, SearchServiceAssumption
      DEF SearchServiceAssumption, BuildCheck, Goto, Abort,
          Typed, Exclusive, Collected, Holding, Resources
    <3>3. Published'
      BY <1>4, <2>3, SearchServiceAssumption
      DEF SearchServiceAssumption, BuildCheck, Goto, Abort,
          Typed, Exclusive, Collected, Published, CorpusComplete, Holding
    <3> QED
      BY <3>1, <3>2, <3>3
  <2> QED
    BY <1>4, <2>1, <2>2, <2>3, SearchServiceAssumption
    DEF SearchServiceAssumption, BuildCheck, Goto, Abort, Typed
<1>5. ASSUME NEW s \in Searchers, ReadResource(s) PROVE Kept
  <2>1. CASE next[s] \notin Broken /\ data' = [data EXCEPT ![s] = @ \union {next[s]}]
    <3>1. Exclusive'
      BY <1>5, <2>1, SearchServiceAssumption
      DEF SearchServiceAssumption, ReadResource, Goto,
          Typed, Exclusive, Holding
    <3>2. Collected'
      BY <1>5, <2>1, SearchServiceAssumption
      DEF SearchServiceAssumption, ReadResource, Goto,
          Typed, Exclusive, Collected, Holding, Resources
    <3>3. Published'
      BY <1>5, <2>1, SearchServiceAssumption
      DEF SearchServiceAssumption, ReadResource, Goto,
          Typed, Exclusive, Collected, Published, CorpusComplete, Holding
    <3> QED
      BY <3>1, <3>2, <3>3
  <2>2. CASE (next[s] \in Broken \/ cancelled[s] \/ Transient) /\ UNCHANGED data
    <3>1. Exclusive'
      BY <1>5, <2>2, SearchServiceAssumption
      DEF SearchServiceAssumption, ReadResource, Goto,
          Typed, Exclusive, Holding
    <3>2. Collected'
      BY <1>5, <2>2, SearchServiceAssumption
      DEF SearchServiceAssumption, ReadResource, Goto,
          Typed, Exclusive, Collected, Holding, Resources
    <3>3. Published'
      BY <1>5, <2>2, SearchServiceAssumption
      DEF SearchServiceAssumption, ReadResource, Goto,
          Typed, Exclusive, Collected, Published, CorpusComplete, Holding
    <3> QED
      BY <3>1, <3>2, <3>3
  <2> QED
    BY <1>5, <2>1, <2>2, SearchServiceAssumption
    DEF SearchServiceAssumption, ReadResource, Goto, Typed
<1>6. ASSUME NEW s \in Searchers, Extract(s) PROVE Kept
  <2>1. CASE next[s] > N
    <3>1. Exclusive'
      <4>1. data[s] # None
        BY SearchServiceAssumption DEF SearchServiceAssumption, Typed, Resources
      <4>2. corpus' # None /\ mu' = None /\ corpus = None /\ builds' = 1
        BY <1>6, <2>1, <4>1, SearchServiceAssumption
        DEF SearchServiceAssumption, Extract, Goto, Typed, Exclusive, Holding
      <4>3. \A t \in Searchers : pc'[t] \notin Holding
        BY <1>6, <2>1 DEF Extract, Goto, Typed, Exclusive, Holding
      <4> QED
        BY <4>2, <4>3, SearchServiceAssumption DEF SearchServiceAssumption, Exclusive
    <3>2. Collected'
      BY <1>6, <2>1, SearchServiceAssumption
      DEF SearchServiceAssumption, Extract, Goto, Abort,
          Typed, Exclusive, Collected, Holding, Resources
    <3>3. Published'
      BY <1>6, <2>1, SearchServiceAssumption
      DEF SearchServiceAssumption, Extract, Goto, Abort,
          Typed, Exclusive, Collected, Published, CorpusComplete, Holding
    <3> QED
      BY <3>1, <3>2, <3>3
  <2>2. CASE ~(next[s] > N) /\ cancelled[s]
    <3>1. Exclusive'
      BY <1>6, <2>2, SearchServiceAssumption
      DEF SearchServiceAssumption, Extract, Goto, Abort,
          Typed, Exclusive, Holding
    <3>2. Collected'
      BY <1>6, <2>2, SearchServiceAssumption
      DEF SearchServiceAssumption, Extract, Goto, Abort,
          Typed, Exclusive, Collected, Holding, Resources
    <3>3. Published'
      BY <1>6, <2>2, SearchServiceAssumption
      DEF SearchServiceAssumption, Extract, Goto, Abort,
          Typed, Exclusive, Collected, Published, CorpusComplete, Holding
    <3> QED
      BY <3>1, <3>2, <3>3
  <2>3. CASE ~(next[s] > N) /\ ~cancelled[s]
    <3>1. Exclusive'
      BY <1>6, <2>3, SearchServiceAssumption
      DEF SearchServiceAssumption, Extract, Goto, Abort,
          Typed, Exclusive, Holding
    <3>2. Collected'
      BY <1>6, <2>3, SearchServiceAssumption
      DEF SearchServiceAssumption, Extract, Goto, Abort,
          Typed, Exclusive, Collected, Holding, Resources
    <3>3. Published'
      BY <1>6, <2>3, SearchServiceAssumption
      DEF SearchServiceAssumption, Extract, Goto, Abort,
          Typed, Exclusive, Collected, Published, CorpusComplete, Holding
    <3> QED
      BY <3>1, <3>2, <3>3
  <2> QED
    BY <1>6, <2>1, <2>2, <2>3, SearchServiceAssumption
    DEF SearchServiceAssumption, Extract, Goto, Abort, Typed
<1>7. ASSUME NEW s \in Searchers, Find(s) PROVE Kept
  <2>1. Exclusive'
    BY <1>7, SearchServiceAssumption
    DEF SearchServiceAssumption, Find, Goto,
        Typed, Exclusive, Holding
  <2>2. Collected'
    BY <1>7, SearchServiceAssumption
    DEF SearchServiceAssumption, Find, Goto,
        Typed, Exclusive, Collected, Holding, Resources
  <2>3. Published'
    BY <1>7, SearchServiceAssumption
    DEF SearchServiceAssumption, Find, Goto,
        Typed, Exclusive, Collected, Published, CorpusComplete, Holding
  <2> QED
    BY <2>1, <2>2, <2>3
<1>8. ASSUME NEW s \in Searchers, NextCall(s) PROVE Kept
  <2>1. Exclusive'
    BY <1>8, SearchServiceAssumption
    DEF SearchServiceAssumption, NextCall,
        Typed, Exclusive, Holding
  <2>2. Collected'
    BY <1>8, SearchServiceAssumption
    DEF SearchServiceAssumption, NextCall,
        Typed, Exclusive, Collected, Holding, Resources
  <2>3. Published'
    BY <1>8, SearchServiceAssumption
    DEF SearchServiceAssumption, NextCall,
        Typed, Exclusive, Collected, Published, CorpusComplete, Holding
  <2> QED
    BY <2>1, <2>2, <2>3
<1>9. ASSUME NEW s \in Searchers, Close(s) PROVE Kept
  <2>1. Exclusive'
    BY <1>9, SearchServiceAssumption
    DEF SearchServiceAssumption, Close, Goto,
        Typed, Exclusive, Holding
  <2>2. Collected'
    BY <1>9, SearchServiceAssumption
    DEF SearchServiceAssumption, Close, Goto,
        Typed, Exclusive, Collected, Holding, Resources
  <2>3. Published'
    BY <1>9, SearchServiceAssumption
    DEF SearchServiceAssumption, Close, Goto,
        Typed, Exclusive, Collected, Published, CorpusComplete, Holding
  <2> QED
    BY <2>1, <2>2, <2>3
<1> QED
  BY <1>0, <1>1, <1>2, <1>3, <1>4, <1>5, <1>6, <1>7, <1>8, <1>9 DEF Next, Build

\* The invariant holds throughout.
THEOREM Invariance == Spec => []IInv
  BY InitHolds, StepHolds, PTL DEF Spec

\* "The corpus is built once per service instance", however many clients search
\* at the same time and whichever of them go away.
THEOREM OneBuild == Spec => []BuiltOnce
<1>1. IInv => BuiltOnce
  BY DEF IInv, Exclusive, BuiltOnce
<1> QED
  BY <1>1, Invariance, PTL

\* As long as only broken resources and dead contexts make reads fail, no
\* cancelled build leaves a corpus that lacks a readable resource.
THEOREM CorpusWhole == ASSUME ~Transient PROVE Spec => []CorpusComplete
<1>1. IInv => CorpusComplete
  BY DEF IInv, Published
<1> QED
  BY <1>1, Invariance, PTL
-----------------------------------------------------------------------------
(* Induction and recursion on the naturals.                                *)

\* Induction on the naturals, over a set instead of a predicate.
LEMMA InductionOnNat ==
    ASSUME NEW S, 0 \in S, \A n \in Nat : n \in S => n + 1 \in S
    PROVE  Nat \subseteq S
<1> DEFINE Less == OpToRel(<, Nat)
           Bad == Nat \ S
<1> SUFFICES ASSUME Bad # {} PROVE FALSE
  OBVIOUS
<1>1. PICK n \in Bad : \A m \in Bad : ~ (<<m, n>> \in Less)
  BY NatLessThanWellFounded, WFMin
<1>2. \A m \in Nat : m < n => m \in S
  BY <1>1 DEF OpToRel
<1>3. n # 0 /\ n - 1 \in Nat /\ n - 1 \in S
  BY <1>2
<1> QED
  BY <1>3

\* A value and a step for each number up to n make a function.
LEMMA RecursionOnNat ==
    ASSUME NEW S, NEW a \in S, NEW n \in Nat, NEW step \in [1 .. n -> [S -> S]]
    PROVE  \E f \in [0 .. n -> S] :
               /\ f[0] = a
               /\ \A r \in 1 .. n : f[r] = step[r][f[r - 1]]
<1> DEFINE Upto(f, m) ==
                /\ f \in [0 .. m -> S]
                /\ f[0] = a
                /\ \A r \in 1 .. m : f[r] = step[r][f[r - 1]]
           P(m) == m <= n => \E f : Upto(f, m)
           T == {m \in Nat : P(m)}
<1>1. P(0)
  <2>1. Upto([r \in 0 .. 0 |-> a], 0)
    OBVIOUS
  <2> QED
    BY <2>1
<1>2. ASSUME NEW m \in Nat, P(m), m + 1 <= n PROVE \E f : Upto(f, m + 1)
  <2>1. \E f : Upto(f, m)
    <3>1. m <= n
      BY <1>2
    <3> HIDE DEF Upto
    <3> QED
      BY <1>2, <3>1
  <2>2. PICK f : Upto(f, m)
    BY <2>1
  <2> DEFINE g == [r \in 0 .. m + 1 |-> IF r = m + 1 THEN step[m + 1][f[m]] ELSE f[r]]
  <2>3. step[m + 1][f[m]] \in S
    BY <1>2, <2>2
  <2>4. g \in [0 .. m + 1 -> S]
    BY <2>2, <2>3
  <2>5. g[0] = a
    BY <2>2
  <2>6. ASSUME NEW r \in 1 .. m + 1 PROVE g[r] = step[r][g[r - 1]]
    <3>1. g[r - 1] = f[r - 1] /\ r - 1 \in 0 .. m
      OBVIOUS
    <3> QED
      BY <2>2, <3>1
  <2> QED
    BY <2>4, <2>5, <2>6
<1>3. PICK f : Upto(f, n)
  <2> HIDE DEF Upto
  <2>1. 0 \in T
    BY <1>1
  <2>2. \A m \in Nat : m \in T => m + 1 \in T
    BY <1>2
  <2> HIDE DEF T
  <2>3. n \in T
    BY <2>1, <2>2, InductionOnNat
  <2> QED
    BY <2>3 DEF T
<1> QED
  BY <1>3

-----------------------------------------------------------------------------
(* The matches found are a sequence.                                       *)

Match == Resources \X Nat

Piece(r, c) == IF r \in c THEN [k \in 1 .. Hits[r] |-> <<r, k>>] ELSE <<>>

\* What a function that is the walk of Found over the resources satisfies.
Walk(f, c) ==
    f = [r \in 0 .. N |-> IF r = 0 THEN <<>> ELSE f[r - 1] \o Piece(r, c)]

\* The matches found in one resource are a sequence of matches.
LEMMA PieceIsSeq == ASSUME NEW r \in Resources, NEW c PROVE Piece(r, c) \in Seq(Match)
<1>1. Hits[r] \in Nat
  BY SearchServiceAssumption DEF SearchServiceAssumption, Resources
<1>2. [k \in 1 .. Hits[r] |-> <<r, k>>] \in [1 .. Hits[r] -> Match]
  BY <1>1 DEF Match
<1>3. [k \in 1 .. Hits[r] |-> <<r, k>>] \in Seq(Match)
  BY <1>1, <1>2, SeqDef
<1> QED
  BY <1>3 DEF Piece

\* What the engine finds is a sequence of matches.
LEMMA FoundIsSeq == \A c : Found(c) \in Seq(Match)
<1> TAKE c
<1>0. N \in Nat /\ Resources = 1 .. N
  BY SearchServiceAssumption DEF SearchServiceAssumption, Resources
<1> DEFINE step == [r \in 1 .. N |-> [x \in Seq(Match) |-> x \o Piece(r, c)]]
           g == CHOOSE f : Walk(f, c)
<1>1. \A r \in 1 .. N : \A x \in Seq(Match) : x \o Piece(r, c) \in Seq(Match)
  BY <1>0, PieceIsSeq, ConcatProperties
<1>2. step \in [1 .. N -> [Seq(Match) -> Seq(Match)]]
  BY <1>1
<1>3. PICK f \in [0 .. N -> Seq(Match)] :
          f[0] = <<>> /\ \A r \in 1 .. N : f[r] = step[r][f[r - 1]]
  <2> DEFINE M == Seq(Match)
             e == <<>>
  <2>1. e \in M
    BY EmptySeq
  <2>2. step \in [1 .. N -> [M -> M]]
    BY <1>2
  <2> HIDE DEF step, M, e
  <2>3. \E f \in [0 .. N -> M] : f[0] = e /\ \A r \in 1 .. N : f[r] = step[r][f[r - 1]]
    BY <1>0, <2>1, <2>2, RecursionOnNat
  <2> QED
    BY <2>3 DEF M, e
<1>4. ASSUME NEW r \in 0 .. N
      PROVE  f[r] = IF r = 0 THEN <<>> ELSE f[r - 1] \o Piece(r, c)
  <2>1. CASE r = 0
    BY <1>3, <2>1, Zenon
  <2>2. CASE r # 0
    <3>1. r \in 1 .. N /\ r - 1 \in 0 .. N
      BY <1>0, <2>2
    <3>4. f[r - 1] \in Seq(Match)
      BY <3>1, Zenon
    <3>2. f[r] = step[r][f[r - 1]]
      BY <1>3, <3>1
    <3>3. f[r] = f[r - 1] \o Piece(r, c)
      BY <3>1, <3>2, <3>4, Zenon
    <3> QED
      BY <2>2, <3>3, Zenon
  <2> QED
    BY <2>1, <2>2
<1>5. Walk(f, c)
  BY <1>4 DEF Walk
<1>6. Walk(g, c)
  BY <1>5
<1>7. Found(c) = g[N]
  BY DEF Found, Walk, Piece
<1> HIDE DEF g, step
<1>8. g[0] = <<>> /\ \A r \in 1 .. N : g[r] = g[r - 1] \o Piece(r, c)
  <2>1. ASSUME NEW r \in 0 .. N
        PROVE  g[r] = IF r = 0 THEN <<>> ELSE g[r - 1] \o Piece(r, c)
    BY <1>6, Zenon DEF Walk
  <2>2. g[0] = <<>>
    BY <1>0, <2>1
  <2>3. ASSUME NEW r \in 1 .. N PROVE g[r] = g[r - 1] \o Piece(r, c)
    <3>1. r # 0 /\ r \in 0 .. N
      BY <1>0
    <3> QED
      BY <2>1, <3>1, Zenon
  <2> QED
    BY <2>2, <2>3
<1> DEFINE S == {n \in Nat : n <= N => g[n] \in Seq(Match)}
<1>9. 0 \in S
  <2>1. g[0] \in Seq(Match)
    BY <1>8, EmptySeq, Zenon
  <2> QED
    BY <2>1
<1>10. ASSUME NEW n \in Nat, n \in S, n + 1 <= N PROVE n + 1 \in S
  <2>1. n + 1 \in 1 .. N /\ (n + 1) - 1 = n /\ g[n] \in Seq(Match)
    BY <1>0, <1>10
  <2>2. g[n + 1] = g[n] \o Piece(n + 1, c)
    BY <1>8, <2>1
  <2>3. g[n + 1] \in Seq(Match)
    BY <1>1, <2>1, <2>2, Zenon
  <2> QED
    BY <2>3
<1>11. N \in S
  <2>1. \A n \in Nat : n \in S => n + 1 \in S
    BY <1>0, <1>10
  <2> HIDE DEF S
  <2> QED
    BY <1>0, <1>9, <2>1, InductionOnNat
<1> QED
  BY <1>0, <1>7, <1>11

\* So is what is left of it when it is cut.
LEMMA TruncatedIsSeq ==
    ASSUME NEW m \in Seq(Match) PROVE Truncated(m) \in Seq(Match)
<1>1. CASE Len(m) > MaxTotal
  <2>1. MaxTotal \in Nat /\ Len(m) \in Nat
    BY SearchServiceAssumption DEF SearchServiceAssumption
  <2>2. \A i \in 1 .. MaxTotal : m[i] \in Match
    BY <1>1, <2>1, ElementOfSeq
  <2>3. SubSeq(m, 1, MaxTotal) \in Seq(Match)
    BY <2>1, <2>2, SubSeqProperties
  <2> QED
    BY <1>1, <2>3 DEF Truncated
<1>2. CASE ~ (Len(m) > MaxTotal)
  BY <1>2 DEF Truncated
<1> QED
  BY <1>1, <1>2

\* A position at the start of page k + 1 is divided by the length of a page
\* without a rest.
LEMMA WholePages ==
    ASSUME NEW k \in Nat PROVE (k * PageLength) \div PageLength = k
<1> DEFINE p == PageLength
           q == (k * p) \div p
<1>1. p \in Nat /\ p > 0
  BY SearchServiceAssumption DEF SearchServiceAssumption
<1>2. q \in Int /\ q * p <= k * p /\ k * p < (q + 1) * p
  BY <1>1
<1> QED
  BY <1>1, <1>2


-----------------------------------------------------------------------------
(* The iterators.                                                          *)

Errors == {"none", "cancelled", "done"}

Pages == [locators : Seq(Match), number : Nat, hasNext : BOOLEAN, err : Errors]

\* An iterator over the matches m, at position p, that returned the page g last
\* and the matches d on all its pages.
Iterated(m, p, g, d) ==
    /\ m \in Seq(Match)
    /\ p \in 0 .. Len(m)
    /\ g \in Pages
    /\ d = SubSeq(m, 1, p)
    /\ p < Len(m) => \E k \in Nat : p = k * PageLength
    /\ g.number > 0 =>
          /\ g.hasNext = (p < Len(m))
          /\ g.hasNext => Len(g.locators) = PageLength
          /\ Len(g.locators) \in 1 .. PageLength
          /\ (g.number - 1) * PageLength + Len(g.locators) = p
    /\ g.err = "done" => p = Len(m)

\* So is every iterator; a search that has not got one yet has returned nothing.
Paged ==
    /\ matches \in [Searchers -> Seq(Match)]
    /\ pos \in [Searchers -> Nat]
    /\ page \in [Searchers -> Pages]
    /\ delivered \in [Searchers -> Seq(Match)]
    /\ \A s \in Searchers :
          /\ Iterated(matches[s], pos[s], page[s], delivered[s])
          /\ pc[s] \notin {"idle", "paging"} =>
                pos[s] = 0 /\ page[s] = NoPage /\ delivered[s] = <<>>

\* An iterator is made before its first page.
LEMMA FirstPage == ASSUME NEW m \in Seq(Match) PROVE Iterated(m, 0, NoPage, <<>>)
<1>1. SubSeq(m, 1, 0) = <<>>
  BY SubSeqEmpty
<1>2. Len(m) \in Nat /\ <<>> \in Seq(Match)
  BY EmptySeq
<1>3. 0 = 0 * PageLength
  BY SearchServiceAssumption DEF SearchServiceAssumption
<1> QED
  BY <1>1, <1>2, <1>3 DEF Iterated, NoPage, Pages, Errors

\* It stays one when it returns the next page.
LEMMA FollowingPage ==
    ASSUME NEW m, NEW p \in Nat, NEW g, NEW d, Iterated(m, p, g, d), p < Len(m),
           NEW end \in Nat,
           end = IF p + PageLength > Len(m) THEN Len(m) ELSE p + PageLength,
           NEW h, h = [locators |-> SubSeq(m, p + 1, end),
                       number |-> p \div PageLength + 1,
                       hasNext |-> end < Len(m),
                       err |-> "none"]
    PROVE  Iterated(m, end, h, d \o h.locators) /\ h \in Pages
<1>0. PageLength \in Nat \ {0}
  BY SearchServiceAssumption DEF SearchServiceAssumption
<1>1. m \in Seq(Match) /\ Len(m) \in Nat /\ p \in 0 .. Len(m) /\ d = SubSeq(m, 1, p)
  BY LenProperties DEF Iterated
<1>2. /\ end \in p + 1 .. Len(m) /\ end <= p + PageLength
      /\ end - (p + 1) + 1 = end - p
      /\ p + (end - p) = end
  <2>1. \A i, j \in Nat : j - (i + 1) + 1 = j - i /\ i + (j - i) = j
    OBVIOUS
  <2>2. end \in p + 1 .. Len(m) /\ end <= p + PageLength
    BY <1>0, <1>1
  <2> QED
    BY <2>1, <2>2
<1>3. /\ SubSeq(m, p + 1, end) \in Seq(Match)
      /\ Len(SubSeq(m, p + 1, end)) = end - p
  <2>1. \A i \in p + 1 .. end : m[i] \in Match
    BY <1>1, <1>2, ElementOfSeq
  <2>2. p + 1 \in Int /\ end \in Int /\ p + 1 <= end
    BY <1>1, <1>2
  <2>3. /\ SubSeq(m, p + 1, end) \in Seq(Match)
        /\ Len(SubSeq(m, p + 1, end)) = end - (p + 1) + 1
    BY <2>1, <2>2, SubSeqProperties
  <2> QED
    BY <1>2, <2>3
<1>4. d \o h.locators = SubSeq(m, 1, end)
  <2>1. h.locators = SubSeq(m, p + 1, end)
    OBVIOUS
  <2>2. 1 \in 1 .. Len(m) + 1 /\ p \in 1 - 1 .. Len(m) /\ end \in p .. Len(m)
    BY <1>1, <1>2
  <2>3. SubSeq(m, 1, p) \o SubSeq(m, p + 1, end) = SubSeq(m, 1, end)
    BY <1>1, <2>2, ConcatAdjacentSubSeq
  <2> QED
    BY <1>1, <2>1, <2>3
<1>5. PICK k \in Nat : p = k * PageLength
  BY DEF Iterated
<1>6. p \div PageLength = k
  BY <1>5, WholePages
<1>7. h \in Pages
  BY <1>3, <1>6, SMTT(20) DEF Pages, Errors
<1>8. end < Len(m) => end = (k + 1) * PageLength
  <2>1. end < Len(m) => end = p + PageLength
    BY <1>0, <1>1
  <2>2. k * PageLength + PageLength = (k + 1) * PageLength
    BY <1>0
  <2> QED
    BY <1>5, <2>1, <2>2
<1>9. /\ h.number > 0 =>
          /\ h.hasNext = (end < Len(m))
          /\ h.hasNext => Len(h.locators) = PageLength
          /\ Len(h.locators) \in 1 .. PageLength
          /\ (h.number - 1) * PageLength + Len(h.locators) = end
  <2>1. h.number - 1 = k /\ Len(h.locators) = end - p
    BY <1>3, <1>6
  <2>2. h.hasNext = (end < Len(m))
    OBVIOUS
  <2>6. (end < Len(m) => end - p = PageLength) /\ end - p \in 1 .. PageLength
    BY <1>0, <1>1, <1>2
  <2>3. h.hasNext => Len(h.locators) = PageLength
    BY <2>1, <2>2, <2>6
  <2>4. Len(h.locators) \in 1 .. PageLength
    BY <2>1, <2>6
  <2>5. (h.number - 1) * PageLength + Len(h.locators) = end
    BY <1>2, <1>5, <2>1, Zenon
  <2> QED
    BY <2>2, <2>3, <2>4, <2>5
<1>10. end \in 0 .. Len(m)
  BY <1>1, <1>2
<1>11. end < Len(m) => \E j \in Nat : end = j * PageLength
  BY <1>8
<1>12. h.err # "done"
  OBVIOUS
<1> QED
  BY <1>1, <1>4, <1>7, <1>9, <1>10, <1>11, <1>12, Zenon DEF Iterated

\* A refusal is no page.
LEMMA NoFurtherPage ==
    ASSUME NEW m, NEW p, NEW g, NEW d, Iterated(m, p, g, d),
           NEW e \in {"cancelled", "done"}, e = "done" => p >= Len(m)
    PROVE  Iterated(m, p, [g EXCEPT !.err = e], d) /\ [g EXCEPT !.err = e] \in Pages
<1> DEFINE h == [g EXCEPT !.err = e]
<1>1. g \in Pages /\ p \in 0 .. Len(m) /\ Len(m) \in Nat
  BY LenProperties DEF Iterated
<1>2. h \in Pages /\ h.err = e
      /\ h.number = g.number /\ h.hasNext = g.hasNext /\ h.locators = g.locators
  BY <1>1 DEF Pages, Errors
<1>3. h.err = "done" => p = Len(m)
  BY <1>1, <1>2
<1> HIDE DEF h
<1>4. Iterated(m, p, h, d)
  BY <1>2, <1>3 DEF Iterated
<1> QED
  BY <1>2, <1>4 DEF h

\* The iterators are right at the start.
LEMMA PagedInit == Init => Paged
<1> SUFFICES ASSUME Init PROVE Paged
  OBVIOUS
<1>1. <<>> \in Seq(Match) /\ NoPage \in Pages
  BY EmptySeq DEF NoPage, Pages, Errors
<1>2. \A s \in Searchers : Iterated(matches[s], pos[s], page[s], delivered[s])
  BY <1>1, FirstPage DEF Init
<1> QED
  BY <1>1, <1>2 DEF Init, Paged

\* No step breaks one.
LEMMA PagedStep == IInv /\ Paged /\ [Next]_vars => Paged'
<1> SUFFICES ASSUME IInv, Paged, [Next]_vars PROVE Paged'
  OBVIOUS
<1> USE DEF Paged
<1>0. CASE UNCHANGED <<pc, iterVars>>
  BY <1>0 DEF iterVars
<1>1. ASSUME NEW s \in Searchers, Search(s) PROVE Paged'
  <2>1. <<>> \in Seq(Match) /\ NoPage \in Pages
    BY EmptySeq DEF NoPage, Pages, Errors
  <2>2. Iterated(<<>>, 0, NoPage, <<>>)
    BY <2>1, FirstPage
  <2> QED
    BY <1>1, <2>1, <2>2 DEF Search
<1>2. ASSUME NEW s \in Searchers, Find(s) PROVE Paged'
  <2> DEFINE m == Truncated(Found(corpus))
  <2>1. m \in Seq(Match)
    BY FoundIsSeq, TruncatedIsSeq
  <2>2. Iterated(m, 0, NoPage, <<>>)
    BY <2>1, FirstPage
  <2> HIDE DEF m
  <2>3. CASE matches' = [matches EXCEPT ![s] = m] /\ pc' = [pc EXCEPT ![s] = "paging"]
    BY <1>2, <2>1, <2>2, <2>3 DEF Find, IInv, Typed
  <2>4. CASE UNCHANGED matches /\ pc' = [pc EXCEPT ![s] = "idle"]
    BY <1>2, <2>4 DEF Find, IInv, Typed
  <2> QED
    BY <1>2, <2>3, <2>4 DEF Find, Goto, m
<1>3. ASSUME NEW s \in Searchers, NextCall(s) PROVE Paged'
  <2>0. UNCHANGED <<pc, matches>> /\ pc[s] = "paging"
    BY <1>3 DEF NextCall
  <2>1. Iterated(matches[s], pos[s], page[s], delivered[s])
    OBVIOUS
  <2>2. ASSUME NEW e \in {"cancelled", "done"}, Refused(s, e),
               e = "done" => pos[s] >= Len(matches[s])
        PROVE  Paged'
    <3>1. /\ Iterated(matches[s], pos[s], [page[s] EXCEPT !.err = e], delivered[s])
          /\ [page[s] EXCEPT !.err = e] \in Pages
      BY <2>1, <2>2, NoFurtherPage
    <3> QED
      BY <2>0, <2>2, <3>1 DEF Refused
  <2>3. ASSUME NEW end \in Nat, pos[s] < Len(matches[s]), NextPage(s, end),
               end = IF pos[s] + PageLength > Len(matches[s])
                     THEN Len(matches[s]) ELSE pos[s] + PageLength
        PROVE  Paged'
    <3> DEFINE h == [locators |-> SubSeq(matches[s], pos[s] + 1, end),
                     number |-> pos[s] \div PageLength + 1,
                     hasNext |-> end < Len(matches[s]),
                     err |-> "none"]
    <3> HIDE DEF Paged
    <3>1. /\ Iterated(matches[s], end, h, delivered[s] \o h.locators)
          /\ h \in Pages
      <4>1. pos[s] \in Nat
        BY DEF Paged
      <4> QED
        BY <2>1, <2>3, <4>1, FollowingPage
    <3> USE DEF Paged
    <3>2. /\ pos' = [pos EXCEPT ![s] = end]
          /\ page' = [page EXCEPT ![s] = h]
          /\ delivered' = [delivered EXCEPT ![s] = @ \o page'[s].locators]
      BY <2>3 DEF NextPage
    <3> HIDE DEF h
    <3>3. page'[s] = h
      BY <3>2
    <3>4. h.locators \in Seq(Match)
      BY <3>1 DEF Pages
    <3>5. delivered[s] \o h.locators \in Seq(Match)
      BY <3>4, ConcatProperties
    <3>6. delivered' = [delivered EXCEPT ![s] = delivered[s] \o h.locators]
      BY <3>2, <3>3
    <3> QED
      BY <2>0, <3>1, <3>2, <3>5, <3>6
  <2> DEFINE end == IF pos[s] + PageLength > Len(matches[s])
                    THEN Len(matches[s]) ELSE pos[s] + PageLength
  <2>4. CASE Refused(s, "cancelled")
    BY <2>2, <2>4
  <2>5. CASE pos[s] >= Len(matches[s]) /\ Refused(s, "done")
    BY <2>2, <2>5
  <2>6. CASE ~(pos[s] >= Len(matches[s])) /\ NextPage(s, end)
    <3>1. Len(matches[s]) \in Nat /\ pos[s] \in Nat
      BY LenProperties
    <3>2. pos[s] < Len(matches[s])
      BY <2>6, <3>1
    <3>3. end \in Nat
      BY <3>1, SearchServiceAssumption DEF SearchServiceAssumption
    <3> QED
      BY <2>3, <2>6, <3>2, <3>3
  <2> QED
    BY <1>3, <2>4, <2>5, <2>6 DEF NextCall
<1>4. ASSUME NEW s \in Searchers, UNCHANGED iterVars, pc[s] # "idle", pc[s] # "paging",
             NEW label \in Labels, pc' = [pc EXCEPT ![s] = label]
      PROVE  Paged'
  BY <1>4 DEF iterVars, IInv, Typed
<1>5. ASSUME NEW s \in Searchers, Close(s) PROVE Paged'
  BY <1>5 DEF Close, Goto, iterVars, IInv, Typed
<1>6. ASSUME NEW s \in Searchers, Cancel(s) PROVE Paged'
  BY <1>0, <1>6 DEF Cancel
<1>7. ASSUME NEW s \in Searchers, Lock(s) \/ BuildCheck(s) \/ ReadResource(s) \/ Extract(s)
      PROVE  Paged'
  <2>1. UNCHANGED iterVars /\ pc[s] # "idle" /\ pc[s] # "paging"
    BY <1>7 DEF Lock, BuildCheck, ReadResource, Extract
  <2>2. UNCHANGED pc \/ \E label \in Labels : pc' = [pc EXCEPT ![s] = label]
    BY <1>7 DEF Lock, BuildCheck, ReadResource, Extract, Goto, Abort, Labels
  <2> QED
    BY <1>0, <1>4, <2>1, <2>2
<1>8. CASE UNCHANGED vars
  BY <1>0, <1>8 DEF vars, iterVars
<1> QED
  BY <1>1, <1>2, <1>3, <1>5, <1>6, <1>7, <1>8 DEF Next, Build

\* A client that asks for page after page gets its matches, each of them once and
\* in their order, whatever calls were refused in between for a dead context.
THEOREM PagesRead == Spec => []PagesInOrder
<1>1. ASSUME Paged PROVE PagesInOrder
  <2> SUFFICES ASSUME NEW s \in Searchers
               PROVE  /\ delivered[s] = SubSeq(matches[s], 1, Len(delivered[s]))
                      /\ page[s].number > 0 =>
                            /\ page[s].hasNext = (Len(delivered[s]) < Len(matches[s]))
                            /\ page[s].hasNext => Len(page[s].locators) = PageLength
                            /\ Len(page[s].locators) \in 1 .. PageLength
                            /\ (page[s].number - 1) * PageLength + Len(page[s].locators) =
                                  Len(delivered[s])
                      /\ page[s].err = "done" => delivered[s] = matches[s]
    BY DEF PagesInOrder
  <2>1. Iterated(matches[s], pos[s], page[s], delivered[s])
    BY <1>1 DEF Paged
  <2>2. Len(delivered[s]) = pos[s]
    <3>1. /\ matches[s] \in Seq(Match) /\ pos[s] \in 0 .. Len(matches[s])
          /\ delivered[s] = SubSeq(matches[s], 1, pos[s]) /\ Len(matches[s]) \in Nat
      BY <2>1, LenProperties DEF Iterated
    <3>2. \A i \in 1 .. pos[s] : matches[s][i] \in Match
      BY <3>1, ElementOfSeq
    <3>3. Len(SubSeq(matches[s], 1, pos[s])) = IF 1 <= pos[s] THEN pos[s] - 1 + 1 ELSE 0
      BY <3>1, <3>2, SubSeqProperties
    <3> QED
      BY <3>1, <3>3
  <2>3. page[s].err = "done" => delivered[s] = matches[s]
    BY <2>1, SubSeqFull DEF Iterated
  <2> QED
    BY <2>1, <2>2, <2>3 DEF Iterated
<1> QED
  BY <1>1, PagedInit, PagedStep, Invariance, PTL DEF Spec

-----------------------------------------------------------------------------
(* The search of a publication serves as the service does.                 *)

\* What the engine finds before the service starts leaves the service alone, and
\* from then on every step is one of the service's: PublicationSearch implements
\* SearchService.
THEOREM SearchServes == PSSpec => Spec
<1>1. PSInit => Init
  BY DEF PSInit
<1>2. [PSNext]_<<vars, textVars>> => [Next]_vars
  BY Zenon DEF PSNext, FindTexts, Start, Serve
<1> QED
  BY <1>1, <1>2, PTL DEF PSSpec, Spec

\* So a publication is read once for all searches, and the pages of each of them are
\* its matches.
THEOREM SearchesOfPublication == PSSpec => [](BuiltOnce /\ PagesInOrder)
  BY SearchServes, OneBuild, PagesRead, PTL

-----------------------------------------------------------------------------
(* What is found (MatchesExact).                                           *)

\* What holds of 0, and of i when it holds of i - 1, holds up to n.
LEMMA InductionUpTo ==
    ASSUME NEW n \in Nat, NEW S, 0 \in S, \A i \in 1 .. n : i - 1 \in S => i \in S
    PROVE  0 .. n \subseteq S
<1> DEFINE T == {m \in Nat : m <= n => m \in S}
<1>1. 0 \in T
  OBVIOUS
<1>2. ASSUME NEW m \in Nat, m \in T PROVE m + 1 \in T
  <2>1. CASE m + 1 <= n
    <3>1. m + 1 \in 1 .. n /\ (m + 1) - 1 = m /\ m <= n
      BY <2>1
    <3> QED
      BY <1>2, <3>1
  <2> QED
    BY <2>1
<1> HIDE DEF T
<1>3. Nat \subseteq T
  BY <1>1, <1>2, InductionOnNat
<1> QED
  BY <1>3 DEF T

\* The value of a function at each number up to n, when it starts in a set that its
\* steps do not leave.
LEMMA StaysIn ==
    ASSUME NEW n \in Nat, NEW S, NEW g, g[0] \in S,
           \A i \in 1 .. n : g[i - 1] \in S => g[i] \in S
    PROVE  \A i \in 0 .. n : g[i] \in S
<1> DEFINE T == {i \in 0 .. n : g[i] \in S}
<1>1. 0 \in T
  OBVIOUS
<1>2. ASSUME NEW i \in 1 .. n, i - 1 \in T PROVE i \in T
  BY <1>2
<1> HIDE DEF T
<1>3. 0 .. n \subseteq T
  BY <1>1, <1>2, InductionUpTo
<1> QED
  BY <1>3 DEF T

\* A function that goes from each number up to n to the next as told.
GoesBy(f, n, a, step) == f[0] = a /\ \A i \in 1 .. n : f[i] = step[i][f[i - 1]]

\* There is one.
LEMMA Recursion ==
    ASSUME NEW S, NEW a \in S, NEW n \in Nat, NEW step \in [1 .. n -> [S -> S]]
    PROVE  \E f \in [0 .. n -> S] : GoesBy(f, n, a, step)
<1>1. PICK f \in [0 .. n -> S] : f[0] = a /\ \A i \in 1 .. n : f[i] = step[i][f[i - 1]]
  BY RecursionOnNat
<1> QED
  BY <1>1, Zenon DEF GoesBy

\* A bounded set of integers has a least and a greatest element.
LEMMA LeastOf ==
    ASSUME NEW S, S # {}, NEW lo \in Int, \A x \in S : x \in Int /\ lo <= x
    PROVE  /\ Text!Min(S) \in S
           /\ \A x \in S : Text!Min(S) <= x
<1> DEFINE T == {m \in Nat : \A x \in S : lo + m <= x}
<1>1. \E m \in S : \A x \in S : m <= x
  <2> SUFFICES ASSUME \A m \in S : \E x \in S : ~ (m <= x)
               PROVE  FALSE
    OBVIOUS
  <2>1. 0 \in T
    OBVIOUS
  <2>2. ASSUME NEW m \in Nat, m \in T PROVE m + 1 \in T
    <3> SUFFICES ASSUME NEW x \in S PROVE lo + (m + 1) <= x
      OBVIOUS
    <3>1. lo + m <= x /\ x \in Int
      BY <2>2
    <3>2. x # lo + m
      BY <2>2
    <3> QED
      BY <3>1, <3>2
  <2> HIDE DEF T
  <2>3. Nat \subseteq T
    BY <2>1, <2>2, InductionOnNat
  <2>4. PICK x \in S : x \in Int /\ lo <= x
    OBVIOUS
  <2>5. (x - lo) + 1 \in T
    BY <2>3, <2>4
  <2> QED
    BY <2>4, <2>5 DEF T
<1> QED
  BY <1>1 DEF Text!Min

\* The greatest.
LEMMA GreatestOf ==
    ASSUME NEW S, S # {}, NEW hi \in Int, \A x \in S : x \in Int /\ x <= hi
    PROVE  /\ Text!Max(S) \in S
           /\ \A x \in S : x <= Text!Max(S)
<1> DEFINE T == {m \in Nat : \A x \in S : x <= hi - m}
<1>1. \E m \in S : \A x \in S : m >= x
  <2> SUFFICES ASSUME \A m \in S : \E x \in S : ~ (m >= x)
               PROVE  FALSE
    OBVIOUS
  <2>1. 0 \in T
    OBVIOUS
  <2>2. ASSUME NEW m \in Nat, m \in T PROVE m + 1 \in T
    <3> SUFFICES ASSUME NEW x \in S PROVE x <= hi - (m + 1)
      OBVIOUS
    <3>1. x <= hi - m /\ x \in Int
      BY <2>2
    <3>2. x # hi - m
      BY <2>2
    <3> QED
      BY <3>1, <3>2
  <2> HIDE DEF T
  <2>3. Nat \subseteq T
    BY <2>1, <2>2, InductionOnNat
  <2>4. PICK x \in S : x \in Int /\ x <= hi
    OBVIOUS
  <2>5. (hi - x) + 1 \in T
    BY <2>3, <2>4
  <2> QED
    BY <2>4, <2>5 DEF T
<1>2. Text!Max(S) \in S /\ \A x \in S : Text!Max(S) >= x
  BY <1>1 DEF Text!Max
<1> QED
  BY <1>2

-----------------------------------------------------------------------------
(* The extraction: three coordinate systems of one text.                   *)

\* The space.
Blank == " "

\* What is a space, and what is not.
LEMMA BlankFacts ==
    /\ Blank \in Text!Characters /\ Text!isSpace(Blank)
    /\ Blank # "sz" /\ Blank # "s" /\ Blank # "." /\ Blank # "nl"
    /\ \A x : Text!isSpace(x) <=> x = Blank \/ x = "nl"
<1>1. Blank # "sz" /\ Blank # "s" /\ Blank # "." /\ Blank # "nl"
  BY Zenon DEF Blank
<1>2. Blank \in Text!Characters /\ Text!isSpace(Blank)
  BY Zenon DEF Blank, Text!Characters, Text!isSpace
<1>3. \A x : Text!isSpace(x) <=> x = Blank \/ x = "nl"
  BY Zenon DEF Blank, Text!isSpace
<1> QED
  BY <1>1, <1>2, <1>3

\* The characters of a text token, one by one.
LEMMA CharacterFacts ==
    ASSUME NEW c \in Text!Characters
    PROVE  /\ c # "nl" /\ (Text!isSpace(c) <=> c = Blank)
           /\ Text!isWordRune(c) <=> c = "s" \/ c = "sz"
           /\ c = "s" \/ c = "sz" \/ c = "." \/ c = Blank
<1>1. c # "nl"
  BY Zenon DEF Text!Characters
<1>2. c = "s" \/ c = "sz" \/ c = "." \/ c = Blank
  BY Zenon DEF Text!Characters, Blank
<1> QED
  BY <1>1, <1>2, BlankFacts, Zenon DEF Text!isWordRune

PlainCharacters == Text!Characters \union {"nl"}

\* What the fields of the text of a resource are.
ResourceTexts ==
    [plain : Seq(PlainCharacters), norm : Seq(Text!Characters), plainOff : Seq(Nat),
     fold : Seq(Text!Characters), src : Seq(Nat), excluded : Nat, lastNL : BOOLEAN]

\* How many folded characters a place of the plain text adds, and which.
Width(plain, q) ==
    IF plain[q] = "sz" THEN 2
    ELSE IF q > 1 /\ Text!isSpace(plain[q]) /\ Text!isSpace(plain[q - 1]) THEN 0 ELSE 1
Image(c) == IF Text!isSpace(c) THEN Blank ELSE IF c = "sz" THEN "s" ELSE c

\* The folded text is what the places of the plain text add, one after the other:
\* those up to q add the first L[q] characters.
Spread(plain, fold, L) ==
    /\ L \in [0 .. Len(plain) -> Nat]
    /\ L[0] = 0
    /\ \A q \in 1 .. Len(plain) : L[q] = L[q - 1] + Width(plain, q)
    /\ Len(fold) = L[Len(plain)]
    /\ \A q \in 1 .. Len(plain) : \A j \in L[q - 1] + 1 .. L[q] : fold[j] = Image(plain[q])

\* Where the place of the next normalized character is.
NextPlace(rt, k) == IF k = Len(rt.norm) THEN Len(rt.plain) ELSE rt.plainOff[k + 1]

\* A folded character comes, through the normalized one, from the place that adds it.
\* Between the places of two normalized characters there are spaces only.
Mapped(rt, L) ==
    /\ Len(rt.plainOff) = Len(rt.norm) /\ Len(rt.src) = Len(rt.fold)
    /\ \A k \in 1 .. Len(rt.norm) :
          /\ rt.plainOff[k] < NextPlace(rt, k) /\ NextPlace(rt, k) <= Len(rt.plain)
          /\ \A q \in rt.plainOff[k] + 1 .. NextPlace(rt, k) - 1 :
                Text!isSpace(rt.plain[q]) /\ Text!isSpace(rt.plain[q + 1])
    /\ \A j \in 1 .. Len(rt.fold) :
          /\ rt.src[j] + 1 \in 1 .. Len(rt.norm)
          /\ L[rt.plainOff[rt.src[j] + 1]] < j /\ j <= L[rt.plainOff[rt.src[j] + 1] + 1]

\* What the last characters are, and when there are none.
Ended(rt) ==
    /\ rt.norm = <<>> <=> rt.plain = <<>>
    /\ rt.norm # <<>> =>
          (rt.norm[Len(rt.norm)] = Blank <=> Text!isSpace(rt.plain[Len(rt.plain)]))
    /\ rt.lastNL => rt.plain # <<>> /\ Text!isSpace(rt.plain[Len(rt.plain)])

\* A sequence of one element.
LEMMA OneElement ==
    ASSUME NEW S, NEW c \in S, NEW r, r = <<c>>
    PROVE  r \in Seq(S) /\ Len(r) = 1 /\ r[1] = c /\ DOMAIN r = 1 .. 1
  OBVIOUS

\* Two.
LEMMA TwoElements ==
    ASSUME NEW S, NEW c \in S, NEW d \in S, NEW r, r = <<c, d>>
    PROVE  r \in Seq(S) /\ Len(r) = 2 /\ r[1] = c /\ r[2] = d /\ DOMAIN r = 1 .. 2
  OBVIOUS

\* Folding, of one character: of those of a text none becomes one that marks a block.
LEMMA FoldRune ==
    ASSUME NEW c \in PlainCharacters
    PROVE  /\ c \in Text!Characters => Text!foldRune(c) \in Seq(Text!Characters)
           /\ Text!foldRune(c) \in Seq(PlainCharacters)
           /\ Len(Text!foldRune(c)) = IF c = "sz" THEN 2 ELSE 1
           /\ DOMAIN Text!foldRune(c) = 1 .. Len(Text!foldRune(c))
           /\ \A i \in 1 .. Len(Text!foldRune(c)) :
                 Text!foldRune(c)[i] = IF c = "sz" THEN "s" ELSE c
<1>0. PICK r : r = Text!foldRune(c)
  OBVIOUS
<1>1. CASE c = "sz"
  <2>1. "s" \in Text!Characters /\ "s" \in PlainCharacters
    BY DEF PlainCharacters, Text!Characters
  <2>2. r = <<"s", "s">>
    BY <1>0, <1>1 DEF Text!foldRune
  <2>3. r \in Seq(Text!Characters) /\ r \in Seq(PlainCharacters)
    BY <2>1, <2>2, TwoElements, Zenon
  <2>4. Len(r) = 2 /\ r[1] = "s" /\ r[2] = "s" /\ DOMAIN r = 1 .. 2
    BY <2>1, <2>2, TwoElements, Zenon
  <2>5. \A i \in 1 .. Len(r) : r[i] = "s"
    BY <2>4
  <2> QED
    BY <1>0, <1>1, <2>3, <2>4, <2>5, Zenon
<1>2. CASE c # "sz"
  <2>1. r = <<c>>
    BY <1>0, <1>2 DEF Text!foldRune
  <2>2. r \in Seq(PlainCharacters) /\ (c \in Text!Characters => r \in Seq(Text!Characters))
    BY <2>1, OneElement, Zenon
  <2>3. Len(r) = 1 /\ r[1] = c /\ DOMAIN r = 1 .. 1
    BY <2>1, OneElement, Zenon
  <2>4. \A i \in 1 .. Len(r) : r[i] = c
    BY <2>3
  <2> QED
    BY <1>0, <1>2, <2>2, <2>3, <2>4, Zenon
<1> QED
  BY <1>1, <1>2

\* What grows from place to place grows.
LEMMA Ascending ==
    ASSUME NEW n \in Nat, NEW L \in [0 .. n -> Nat], \A q \in 1 .. n : L[q - 1] <= L[q]
    PROVE  \A i \in 0 .. n : \A j \in 0 .. n : i <= j => L[i] <= L[j]
<1> SUFFICES ASSUME NEW i \in 0 .. n PROVE \A j \in 0 .. n : i <= j => L[i] <= L[j]
  OBVIOUS
<1> DEFINE T == {j \in 0 .. n : i <= j => L[i] <= L[j]}
<1>1. 0 \in T
  <2>1. i <= 0 => i = 0
    OBVIOUS
  <2> QED
    BY <2>1
<1>2. ASSUME NEW j \in 1 .. n, j - 1 \in T PROVE j \in T
  <2>1. L[j - 1] <= L[j] /\ L[j] \in Nat /\ L[i] \in Nat
    OBVIOUS
  <2>2. j - 1 \in 0 .. n /\ L[j - 1] \in Nat
    OBVIOUS
  <2>3. CASE i = j
    BY <2>1, <2>3
  <2>4. CASE i < j
    <3>1. i <= j - 1
      BY <2>4
    <3>2. L[i] <= L[j - 1]
      BY <1>2, <3>1
    <3> QED
      BY <2>1, <2>2, <3>2
  <2> QED
    BY <2>3, <2>4
<1> HIDE DEF T
<1>3. 0 .. n \subseteq T
  BY <1>1, <1>2, InductionUpTo
<1> QED
  BY <1>3 DEF T

\* The number of folded characters does.
LEMMA SpreadAscends ==
    ASSUME NEW plain \in Seq(PlainCharacters), NEW fold, NEW L, Spread(plain, fold, L)
    PROVE  \A i \in 0 .. Len(plain) : \A j \in 0 .. Len(plain) : i <= j => L[i] <= L[j]
<1> DEFINE n == Len(plain)
<1>1. n \in Nat /\ L \in [0 .. n -> Nat]
  BY DEF Spread
<1>2. ASSUME NEW q \in 1 .. n PROVE L[q - 1] <= L[q]
  <2>1. L[q] = L[q - 1] + Width(plain, q)
    BY DEF Spread
  <2>2. Width(plain, q) \in Nat
    BY DEF Width
  <2>3. q - 1 \in 0 .. n /\ L[q - 1] \in Nat
    BY <1>1
  <2> QED
    BY <2>1, <2>2, <2>3
<1> HIDE DEF n
<1>3. \A i \in 0 .. n : \A j \in 0 .. n : i <= j => L[i] <= L[j]
  BY <1>1, <1>2, Ascending
<1> QED
  BY <1>3 DEF n

\* The count of folded characters goes on with the place that is added.
LEMMA WidthGoesOn ==
    ASSUME NEW plain \in Seq(PlainCharacters), NEW x \in PlainCharacters
    PROVE  /\ \A q \in 1 .. Len(plain) : Width(Append(plain, x), q) = Width(plain, q)
           /\ Width(Append(plain, x), Len(plain) + 1) =
                 IF x = "sz" THEN 2
                 ELSE IF plain # <<>> /\ Text!isSpace(x) /\ Text!isSpace(plain[Len(plain)])
                      THEN 0 ELSE 1
<1> DEFINE n == Len(plain)
           more == Append(plain, x)
<1>1. n \in Nat /\ Len(more) = n + 1 /\ more[n + 1] = x /\ \A q \in 1 .. n : more[q] = plain[q]
  OBVIOUS
<1> HIDE DEF more
<1>2. ASSUME NEW q \in 1 .. n PROVE Width(more, q) = Width(plain, q)
  <2>1. q > 1 => q - 1 \in 1 .. n
    BY <1>1
  <2>2. more[q] = plain[q] /\ (q > 1 => more[q - 1] = plain[q - 1])
    BY <1>1, <2>1
  <2> QED
    BY <2>2 DEF Width
<1>3. n + 1 > 1 <=> plain # <<>>
  BY <1>1
<1>4. (n + 1) - 1 = n
  BY <1>1
<1>5. n + 1 > 1 => more[(n + 1) - 1] = plain[n]
  BY <1>1, <1>4
<1>6. Width(more, n + 1) =
                 IF x = "sz" THEN 2
                 ELSE IF plain # <<>> /\ Text!isSpace(x) /\ Text!isSpace(plain[n])
                      THEN 0 ELSE 1
  BY <1>1, <1>3, <1>5 DEF Width
<1> QED
  BY <1>2, <1>6 DEF more

\* A further place of the plain text, and the folded characters that it adds.
Adds(plain, x, y) ==
    /\ Len(y) = Width(Append(plain, x), Len(plain) + 1)
    /\ \A i \in 1 .. Len(y) : y[i] = Image(x)
SpreadOn(plain, fold, L, x, y, M) ==
    /\ Spread(Append(plain, x), fold \o y, M)
    /\ \A q \in 0 .. Len(plain) : M[q] = L[q]
    /\ M[Len(plain) + 1] = Len(fold) + Len(y)

\* The folded text goes on with these.
LEMMA SpreadMore ==
    ASSUME NEW plain \in Seq(PlainCharacters), NEW fold \in Seq(Text!Characters), NEW L,
           Spread(plain, fold, L), NEW x \in PlainCharacters, NEW y \in Seq(Text!Characters),
           Adds(plain, x, y)
    PROVE  \E M : SpreadOn(plain, fold, L, x, y, M)
<1>0. Len(y) = Width(Append(plain, x), Len(plain) + 1) /\ \A i \in 1 .. Len(y) : y[i] = Image(x)
  BY Zenon DEF Adds
<1> DEFINE n == Len(plain)
           more == Append(plain, x)
           longer == fold \o y
           w == Len(y)
           M == [q \in 0 .. n + 1 |-> IF q = n + 1 THEN L[n] + w ELSE L[q]]
<1>1. n \in Nat /\ Len(more) = n + 1 /\ more[n + 1] = x /\ \A q \in 1 .. n : more[q] = plain[q]
  OBVIOUS
<1>14. w = Width(more, n + 1) /\ \A i \in 1 .. w : y[i] = Image(x)
  BY <1>0
<1>2. w \in Nat /\ Len(longer) = Len(fold) + w
  OBVIOUS
<1>3. \A j \in 1 .. Len(fold) : longer[j] = fold[j]
  OBVIOUS
<1>4. \A i \in 1 .. w : longer[Len(fold) + i] = Image(x)
  <2>1. \A i \in 1 .. w : longer[Len(fold) + i] = y[i]
    OBVIOUS
  <2> QED
    BY <1>14, <2>1
<1>5. L \in [0 .. n -> Nat] /\ L[0] = 0 /\ Len(fold) = L[n] /\ Len(fold) \in Nat
  BY DEF Spread
<1>6. M \in [0 .. n + 1 -> Nat]
  BY <1>1, <1>2, <1>5
<1>7. /\ \A q \in 0 .. n : M[q] = L[q]
      /\ M[n + 1] = L[n] + w
      /\ M[0] = 0
  BY <1>1, <1>5
<1> HIDE DEF M
<1>8. \A q \in 1 .. n : Width(more, q) = Width(plain, q)
  BY WidthGoesOn
<1>9. ASSUME NEW q \in 1 .. n + 1 PROVE M[q] = M[q - 1] + Width(more, q)
  <2>1. CASE q = n + 1
    <3>1. q - 1 = n
      BY <1>1, <2>1
    <3> QED
      BY <1>1, <1>7, <1>14, <2>1, <3>1
  <2>2. CASE q # n + 1
    <3>1. q \in 1 .. n /\ q - 1 \in 0 .. n /\ q \in 0 .. n
      BY <1>1, <2>2
    <3>2. L[q] = L[q - 1] + Width(plain, q)
      BY <3>1 DEF Spread
    <3> QED
      BY <1>7, <1>8, <3>1, <3>2
  <2> QED
    BY <2>1, <2>2
<1> HIDE DEF more, longer
<1>10. ASSUME NEW q \in 1 .. n, NEW j \in L[q - 1] + 1 .. L[q]
       PROVE  j \in 1 .. Len(fold) /\ fold[j] = Image(plain[q])
  <2>1. fold[j] = Image(plain[q])
    BY DEF Spread
  <2>5. q \in 0 .. n /\ q - 1 \in 0 .. n /\ n \in 0 .. n /\ q <= n
    BY <1>1
  <2>6. L[q] <= L[n]
    BY <2>5, SpreadAscends
  <2>7. L[q - 1] \in Nat /\ L[q] \in Nat
    BY <1>5, <2>5
  <2> QED
    BY <1>5, <2>1, <2>6, <2>7
<1>11. ASSUME NEW q \in 1 .. n + 1, NEW j \in M[q - 1] + 1 .. M[q]
       PROVE  longer[j] = Image(more[q])
  <2>1. CASE q = n + 1
    <3>1. q - 1 = n
      BY <1>1, <2>1
    <3>2. M[q - 1] = Len(fold) /\ M[q] = Len(fold) + w
      BY <1>1, <1>5, <1>7, <2>1, <3>1
    <3>3. j - Len(fold) \in 1 .. w /\ Len(fold) + (j - Len(fold)) = j
      BY <1>2, <1>5, <3>2
    <3> QED
      BY <1>1, <1>4, <2>1, <3>3
  <2>2. CASE q # n + 1
    <3>1. q \in 1 .. n /\ q - 1 \in 0 .. n /\ q \in 0 .. n
      BY <1>1, <2>2
    <3>2. j \in L[q - 1] + 1 .. L[q]
      BY <1>7, <3>1
    <3>3. j \in 1 .. Len(fold) /\ fold[j] = Image(plain[q])
      BY <1>10, <3>1, <3>2
    <3> QED
      BY <1>1, <1>3, <3>1, <3>3
  <2> QED
    BY <2>1, <2>2
<1>12. Len(longer) = M[n + 1]
  BY <1>2, <1>5, <1>7
<1>13. Spread(more, longer, M)
  BY <1>1, <1>6, <1>7, <1>9, <1>11, <1>12 DEF Spread
<1>15. SpreadOn(plain, fold, L, x, y, M)
  BY <1>5, <1>7, <1>13 DEF SpreadOn, more, longer
<1> QED
  BY <1>15, Zenon

\* The three coordinate systems agree.
TextRight(rt, L) == Spread(rt.plain, rt.fold, L) /\ Mapped(rt, L) /\ Ended(rt)

\* What Mapped says of the fields, one by one.
LEMMA MappedFacts ==
    ASSUME NEW rt \in ResourceTexts, NEW L, Mapped(rt, L)
    PROVE  /\ Len(rt.plainOff) = Len(rt.norm) /\ Len(rt.src) = Len(rt.fold)
           /\ \A k \in 1 .. Len(rt.norm) :
                 /\ rt.plainOff[k] \in Nat /\ NextPlace(rt, k) \in Nat
                 /\ rt.plainOff[k] < NextPlace(rt, k) /\ NextPlace(rt, k) <= Len(rt.plain)
                 /\ rt.plainOff[k] \in 0 .. Len(rt.plain)
                 /\ rt.plainOff[k] + 1 \in 0 .. Len(rt.plain)
           /\ \A j \in 1 .. Len(rt.fold) :
                 /\ rt.src[j] \in Nat /\ rt.src[j] + 1 \in 1 .. Len(rt.norm)
<1>1. /\ rt.plain \in Seq(PlainCharacters) /\ rt.norm \in Seq(Text!Characters)
      /\ rt.plainOff \in Seq(Nat) /\ rt.src \in Seq(Nat)
  BY DEF ResourceTexts
<1>2. /\ Len(rt.plainOff) = Len(rt.norm) /\ Len(rt.src) = Len(rt.fold)
      /\ \A k \in 1 .. Len(rt.norm) :
            rt.plainOff[k] < NextPlace(rt, k) /\ NextPlace(rt, k) <= Len(rt.plain)
      /\ \A j \in 1 .. Len(rt.fold) : rt.src[j] + 1 \in 1 .. Len(rt.norm)
  BY DEF Mapped
<1>3. ASSUME NEW k \in 1 .. Len(rt.norm)
      PROVE  /\ rt.plainOff[k] \in Nat /\ NextPlace(rt, k) \in Nat
             /\ rt.plainOff[k] \in 0 .. Len(rt.plain)
             /\ rt.plainOff[k] + 1 \in 0 .. Len(rt.plain)
  <2>1. Len(rt.norm) \in Nat /\ Len(rt.plain) \in Nat
    BY <1>1
  <2>2. rt.plainOff[k] \in Nat
    BY <1>1, <1>2
  <2>3. NextPlace(rt, k) \in Nat
    <3>1. CASE k = Len(rt.norm)
      BY <2>1, <3>1 DEF NextPlace
    <3>2. CASE k # Len(rt.norm)
      <4>1. k + 1 \in 1 .. Len(rt.plainOff)
        BY <1>2, <2>1, <3>2
      <4>2. rt.plainOff[k + 1] \in Nat
        BY <1>1, <4>1
      <4> QED
        BY <3>2, <4>2 DEF NextPlace
    <3> QED
      BY <3>1, <3>2
  <2>4. rt.plainOff[k] < NextPlace(rt, k) /\ NextPlace(rt, k) <= Len(rt.plain)
    BY <1>2
  <2> QED
    BY <2>1, <2>2, <2>3, <2>4
<1>4. ASSUME NEW j \in 1 .. Len(rt.fold) PROVE rt.src[j] \in Nat
  BY <1>1, <1>2
<1> QED
  BY <1>2, <1>3, <1>4

\* A sequence with one more element is one, and so are two, one behind the other.
LEMMA AppendIn ==
    ASSUME NEW S, NEW s \in Seq(S), NEW x \in S PROVE Append(s, x) \in Seq(S)
  OBVIOUS

\* The latter.
LEMMA ConcatIn ==
    ASSUME NEW S, NEW s \in Seq(S), NEW y \in Seq(S) PROVE s \o y \in Seq(S)
  OBVIOUS

\* What is added for a place of the plain text: the character, or a space for it, its
\* folded form, and where that comes from.
Emitted(rt, r2, x, c, y, z) ==
    /\ Text!isSpace(x) => c = Blank
    /\ Text!isSpace(x) /\ rt.plain # <<>> => ~ Text!isSpace(rt.plain[Len(rt.plain)])
    /\ ~ Text!isSpace(x) => c = x
    /\ r2.plain = Append(rt.plain, x) /\ r2.norm = Append(rt.norm, c)
    /\ r2.plainOff = Append(rt.plainOff, Len(rt.plain))
    /\ y = Text!foldRune(c) /\ r2.fold = rt.fold \o y
    /\ Len(z) = Len(y) /\ (\A i \in 1 .. Len(z) : z[i] = Len(rt.norm))
    /\ r2.src = rt.src \o z
    /\ r2.lastNL => Text!isSpace(x)

\* A character is taken up in all of them: a letter, or the first of some spaces.
LEMMA EmitRight ==
    ASSUME NEW rt \in ResourceTexts, NEW L, TextRight(rt, L),
           NEW x \in PlainCharacters, NEW c \in Text!Characters,
           NEW r2 \in ResourceTexts,
           NEW y \in Seq(Text!Characters), NEW z \in Seq(Nat), Emitted(rt, r2, x, c, y, z)
    PROVE  \E M : TextRight(r2, M)
<1>1. /\ rt.plain \in Seq(PlainCharacters) /\ rt.norm \in Seq(Text!Characters)
      /\ rt.plainOff \in Seq(Nat) /\ rt.src \in Seq(Nat) /\ rt.fold \in Seq(Text!Characters)
  BY DEF ResourceTexts
<1>0. PICK n \in Nat, m \in Nat, f \in Nat, w \in Nat :
          n = Len(rt.plain) /\ m = Len(rt.norm) /\ f = Len(rt.fold) /\ w = Len(y)
  <2>1. Len(rt.plain) \in Nat /\ Len(rt.norm) \in Nat /\ Len(rt.fold) \in Nat /\ Len(y) \in Nat
    BY <1>1
  <2> QED
    BY <2>1, Zenon
<1>2. Text!isSpace(x) => x # "sz" /\ c # "sz" /\ c = Blank
  BY BlankFacts, Zenon DEF Emitted
<1>22. /\ ~ Text!isSpace(x) => c = x /\ c # Blank
       /\ Text!isSpace(x) /\ rt.plain # <<>> => ~ Text!isSpace(rt.plain[n])
       /\ r2.lastNL => Text!isSpace(x)
  BY <1>0, BlankFacts, Zenon DEF Emitted
<1>3. /\ w = IF c = "sz" THEN 2 ELSE 1
      /\ DOMAIN y = 1 .. w
      /\ \A i \in 1 .. w : y[i] = IF c = "sz" THEN "s" ELSE c
  <2>1. c \in PlainCharacters
    BY Zenon DEF PlainCharacters
  <2>2. y = Text!foldRune(c)
    BY Zenon DEF Emitted
  <2> QED
    BY <1>0, <2>1, <2>2, FoldRune, Zenon
<1>4. w = Width(Append(rt.plain, x), n + 1)
  <2>1. PICK v : v = Width(Append(rt.plain, x), n + 1)
    OBVIOUS
  <2>2. v = IF x = "sz" THEN 2
            ELSE IF rt.plain # <<>> /\ Text!isSpace(x) /\ Text!isSpace(rt.plain[n])
                 THEN 0 ELSE 1
    BY <1>0, <1>1, <2>1, WidthGoesOn, Zenon
  <2>3. x = "sz" <=> c = "sz"
    BY <1>2, <1>22, Zenon
  <2>4. v = w
    BY <1>3, <1>22, <2>2, <2>3, Zenon
  <2> QED
    BY <2>1, <2>4, Zenon
<1>5. \A i \in 1 .. w : y[i] = Image(x)
  <2>1. CASE Text!isSpace(x)
    BY <1>2, <1>3, <2>1, Zenon DEF Image
  <2>2. CASE ~ Text!isSpace(x)
    BY <1>3, <1>22, <2>2, Zenon DEF Image
  <2> QED
    BY <2>1, <2>2, Zenon
<1>6. Spread(rt.plain, rt.fold, L) /\ Mapped(rt, L) /\ Ended(rt)
  BY Zenon DEF TextRight
<1>7. PICK M : /\ Spread(r2.plain, r2.fold, M)
               /\ \A q \in 0 .. n : M[q] = L[q]
               /\ M[n + 1] = f + w
  <2>1. r2.plain = Append(rt.plain, x) /\ r2.fold = rt.fold \o y
    BY Zenon DEF Emitted
  <2>2. Adds(rt.plain, x, y)
    BY <1>0, <1>4, <1>5 DEF Adds
  <2>3. PICK M : SpreadOn(rt.plain, rt.fold, L, x, y, M)
    BY <1>1, <1>6, <2>2, SpreadMore, Zenon
  <2>4. /\ Spread(r2.plain, r2.fold, M)
        /\ \A q \in 0 .. Len(rt.plain) : M[q] = L[q]
        /\ M[Len(rt.plain) + 1] = Len(rt.fold) + Len(y)
    BY <2>1, <2>3, Zenon DEF SpreadOn
  <2> QED
    BY <1>0, <2>4
<1>8. /\ Len(r2.plain) = n + 1 /\ r2.plain[n + 1] = x /\ r2.plain # <<>>
      /\ \A q \in 1 .. n : r2.plain[q] = rt.plain[q]
  <2>1. r2.plain = Append(rt.plain, x)
    BY Zenon DEF Emitted
  <2>3. PICK s \in Seq(PlainCharacters) : s = rt.plain
    BY <1>1, Zenon
  <2>4. PICK r : r = Append(s, x)
    OBVIOUS
  <2>5. /\ Len(r) = Len(s) + 1 /\ r[Len(s) + 1] = x
        /\ r # <<>> /\ \A q \in 1 .. Len(s) : r[q] = s[q]
    BY <2>4, SMT
  <2>2. /\ Len(r2.plain) = Len(rt.plain) + 1 /\ r2.plain[Len(rt.plain) + 1] = x
        /\ r2.plain # <<>> /\ \A q \in 1 .. Len(rt.plain) : r2.plain[q] = rt.plain[q]
    BY <2>1, <2>3, <2>4, <2>5
  <2> QED
    BY <1>0, <2>2
<1>9. Len(r2.norm) = m + 1 /\ r2.norm[m + 1] = c /\ r2.norm # <<>>
  <2>1. r2.norm = Append(rt.norm, c)
    BY Zenon DEF Emitted
  <2>3. PICK s \in Seq(Text!Characters) : s = rt.norm
    BY <1>1, Zenon
  <2>4. PICK r : r = Append(s, c)
    OBVIOUS
  <2>5. Len(r) = Len(s) + 1 /\ r[Len(s) + 1] = c /\ r # <<>>
    BY <2>4, SMT
  <2>2. /\ Len(r2.norm) = Len(rt.norm) + 1 /\ r2.norm[Len(rt.norm) + 1] = c
        /\ r2.norm # <<>>
    BY <2>1, <2>3, <2>4, <2>5
  <2> QED
    BY <1>0, <2>2
<1>10. Len(rt.plainOff) = m /\ Len(rt.src) = f
  BY <1>0, <1>6, MappedFacts, Zenon
<1>11. /\ Len(r2.plainOff) = m + 1 /\ r2.plainOff[m + 1] = n
       /\ \A k \in 1 .. m : r2.plainOff[k] = rt.plainOff[k]
  <2>1. r2.plainOff = Append(rt.plainOff, Len(rt.plain)) /\ Len(rt.plain) \in Nat
    BY <1>1 DEF Emitted
  <2>2. /\ Len(r2.plainOff) = Len(rt.plainOff) + 1
        /\ r2.plainOff[Len(rt.plainOff) + 1] = Len(rt.plain)
        /\ \A k \in 1 .. Len(rt.plainOff) : r2.plainOff[k] = rt.plainOff[k]
    BY <1>1, <2>1, SMT
  <2> QED
    BY <1>0, <1>10, <2>2
<1>12. Len(r2.fold) = f + w
  <2>1. r2.fold = rt.fold \o y
    BY Zenon DEF Emitted
  <2>2. Len(r2.fold) = Len(rt.fold) + Len(y)
    BY <1>1, <2>1, SMT
  <2> QED
    BY <1>0, <2>2
<1>13. /\ Len(r2.src) = f + w
       /\ \A j \in 1 .. f : r2.src[j] = rt.src[j]
       /\ \A j \in f + 1 .. f + w : r2.src[j] = m
  <2>1. Len(z) = w /\ (\A i \in 1 .. w : z[i] = m) /\ r2.src = rt.src \o z
    BY <1>0, Zenon DEF Emitted
  <2>4. /\ Len(r2.src) = Len(rt.src) + Len(z)
        /\ \A j \in 1 .. Len(rt.src) : r2.src[j] = rt.src[j]
        /\ \A j \in Len(rt.src) + 1 .. Len(rt.src) + Len(z) : r2.src[j] = z[j - Len(rt.src)]
    <3>1. PICK s \in Seq(Nat) : s = rt.src
      BY <1>1, Zenon
    <3>2. PICK r : r = s \o z
      OBVIOUS
    <3>3. /\ Len(r) = Len(s) + Len(z)
          /\ \A j \in 1 .. Len(s) : r[j] = s[j]
          /\ \A j \in Len(s) + 1 .. Len(s) + Len(z) : r[j] = z[j - Len(s)]
      BY <3>2
    <3> QED
      BY <2>1, <3>1, <3>2, <3>3
  <2>2. /\ Len(r2.src) = f + w /\ \A j \in 1 .. f : r2.src[j] = rt.src[j]
        /\ \A j \in f + 1 .. f + w : r2.src[j] = z[j - f]
    <3>1. Len(z) \in Nat /\ Len(z) = w
      BY <2>1
    <3> QED
      BY <1>10, <2>4, <3>1
  <2>3. \A j \in f + 1 .. f + w : j - f \in 1 .. w
    OBVIOUS
  <2> QED
    BY <2>1, <2>2, <2>3, Zenon
<1>14. \A k \in 1 .. m : NextPlace(r2, k) = NextPlace(rt, k)
  <2> SUFFICES ASSUME NEW k \in 1 .. m PROVE NextPlace(r2, k) = NextPlace(rt, k)
    OBVIOUS
  <2>1. NextPlace(r2, k) = r2.plainOff[k + 1]
    <3>1. k # m + 1
      OBVIOUS
    <3> QED
      BY <1>9, <3>1 DEF NextPlace
  <2>2. CASE k = m
    BY <1>0, <1>11, <2>1, <2>2 DEF NextPlace
  <2>3. CASE k # m
    <3>1. k + 1 \in 1 .. m
      BY <2>3
    <3> QED
      BY <1>0, <1>11, <2>1, <2>3, <3>1 DEF NextPlace
  <2> QED
    BY <2>2, <2>3
<1>15. NextPlace(r2, m + 1) = n + 1
  BY <1>8, <1>9 DEF NextPlace
<1>16. \A k \in 1 .. m :
          /\ rt.plainOff[k] \in Nat /\ NextPlace(rt, k) \in Nat
          /\ rt.plainOff[k] < NextPlace(rt, k) /\ NextPlace(rt, k) <= n
          /\ rt.plainOff[k] \in 0 .. n /\ rt.plainOff[k] + 1 \in 0 .. n
  BY <1>0, <1>6, MappedFacts
<1>17. ASSUME NEW k \in 1 .. m + 1
       PROVE  /\ r2.plainOff[k] < NextPlace(r2, k) /\ NextPlace(r2, k) <= n + 1
              /\ \A q \in r2.plainOff[k] + 1 .. NextPlace(r2, k) - 1 :
                    Text!isSpace(r2.plain[q]) /\ Text!isSpace(r2.plain[q + 1])
  <2>1. CASE k = m + 1
    BY <1>11, <1>15, <2>1
  <2>2. CASE k # m + 1
    <3>1. k \in 1 .. m
      BY <2>2
    <3>2. r2.plainOff[k] = rt.plainOff[k] /\ NextPlace(r2, k) = NextPlace(rt, k)
      BY <1>11, <1>14, <3>1
    <3>3. ASSUME NEW q \in rt.plainOff[k] + 1 .. NextPlace(rt, k) - 1
          PROVE  Text!isSpace(r2.plain[q]) /\ Text!isSpace(r2.plain[q + 1])
      <4>1. Text!isSpace(rt.plain[q]) /\ Text!isSpace(rt.plain[q + 1])
        BY <1>0, <1>6, <3>1 DEF Mapped
      <4>2. q \in 1 .. n /\ q + 1 \in 1 .. n
        BY <1>16, <3>1, SMTT(20)
      <4> QED
        BY <1>8, <4>1, <4>2
    <3>4. rt.plainOff[k] < NextPlace(rt, k) /\ NextPlace(rt, k) <= n + 1
      BY <1>16, <3>1
    <3> QED
      BY <3>2, <3>3, <3>4
  <2> QED
    BY <2>1, <2>2
<1>18. ASSUME NEW j \in 1 .. f + w
       PROVE  /\ r2.src[j] + 1 \in 1 .. m + 1
              /\ M[r2.plainOff[r2.src[j] + 1]] < j /\ j <= M[r2.plainOff[r2.src[j] + 1] + 1]
  <2>1. CASE j \in 1 .. f
    <3>1. r2.src[j] = rt.src[j] /\ rt.src[j] + 1 \in 1 .. m
      BY <1>0, <1>6, <1>13, <2>1, MappedFacts
    <3>2. PICK k \in 1 .. m : k = rt.src[j] + 1
      BY <3>1
    <3>3. L[rt.plainOff[k]] < j /\ j <= L[rt.plainOff[k] + 1]
      BY <1>0, <1>6, <2>1, <3>2 DEF Mapped
    <3>4. r2.plainOff[k] = rt.plainOff[k]
      BY <1>11
    <3>5. M[rt.plainOff[k]] = L[rt.plainOff[k]] /\ M[rt.plainOff[k] + 1] = L[rt.plainOff[k] + 1]
      BY <1>7, <1>16
    <3>6. r2.src[j] + 1 = k
      BY <3>1, <3>2
    <3>7. M[r2.plainOff[k]] < j /\ j <= M[r2.plainOff[k] + 1]
      BY <3>3, <3>4, <3>5
    <3> QED
      BY <3>6, <3>7
  <2>2. CASE j \in f + 1 .. f + w
    <3>1. r2.src[j] = m
      BY <1>13, <2>2
    <3>2. M[n] = f
      <4>1. L[n] = f
        BY <1>0, <1>6 DEF Spread
      <4> QED
        BY <1>7, <4>1
    <3> QED
      BY <1>7, <1>11, <2>2, <3>1, <3>2
  <2> QED
    BY <2>1, <2>2
<1>19. Mapped(r2, M)
  <2>1. /\ Len(r2.plainOff) = Len(r2.norm) /\ Len(r2.src) = Len(r2.fold)
        /\ Len(r2.norm) = m + 1 /\ Len(r2.plain) = n + 1 /\ Len(r2.fold) = f + w
    BY <1>8, <1>9, <1>11, <1>12, <1>13
  <2> QED
    BY <1>17, <1>18, <2>1 DEF Mapped
<1>20. Ended(r2)
  <2>1. r2.norm[Len(r2.norm)] = c /\ r2.plain[Len(r2.plain)] = x
    BY <1>8, <1>9, Zenon
  <2>2. c = Blank <=> Text!isSpace(x)
    BY <1>2, <1>22, Zenon
  <2> QED
    BY <1>8, <1>9, <1>22, <2>1, <2>2, Zenon DEF Ended
<1>21. Spread(r2.plain, r2.fold, M)
  BY <1>7
<1> QED
  BY <1>19, <1>20, <1>21 DEF TextRight

\* A further space is taken up in the plain text only.
LEMMA SwallowRight ==
    ASSUME NEW rt \in ResourceTexts, NEW L, TextRight(rt, L),
           NEW x \in PlainCharacters, Text!isSpace(x),
           rt.plain # <<>>, Text!isSpace(rt.plain[Len(rt.plain)]),
           NEW r2 \in ResourceTexts,
           r2.plain = Append(rt.plain, x), r2.norm = rt.norm, r2.plainOff = rt.plainOff,
           r2.fold = rt.fold, r2.src = rt.src
    PROVE  \E M : TextRight(r2, M)
<1>0. PICK n \in Nat, m \in Nat, f \in Nat :
          n = Len(rt.plain) /\ m = Len(rt.norm) /\ f = Len(rt.fold)
  BY DEF ResourceTexts
<1>1. /\ rt.plain \in Seq(PlainCharacters) /\ rt.norm \in Seq(Text!Characters)
      /\ rt.plainOff \in Seq(Nat) /\ rt.src \in Seq(Nat) /\ rt.fold \in Seq(Text!Characters)
  BY DEF ResourceTexts
<1>2. Spread(rt.plain, rt.fold, L) /\ Mapped(rt, L) /\ Ended(rt)
  BY DEF TextRight
<1>3. n >= 1 /\ m >= 1
  <2>1. rt.norm # <<>>
    BY <1>2 DEF Ended
  <2> QED
    BY <1>0, <1>1, <2>1
<1>4. Width(Append(rt.plain, x), n + 1) = 0
  <2>1. x # "sz"
    BY DEF Text!isSpace
  <2> QED
    BY <1>0, <1>1, <2>1, WidthGoesOn
<1>5. PICK M : /\ Spread(Append(rt.plain, x), rt.fold, M)
               /\ \A q \in 0 .. n : M[q] = L[q]
  <2>5. <<>> \in Seq(Text!Characters)
    OBVIOUS
  <2>1. PICK y \in Seq(Text!Characters) : y = <<>>
    BY <2>5, Zenon
  <2>2. Len(y) = 0 /\ rt.fold \o y = rt.fold
    BY <1>1, <2>1
  <2>3. Adds(rt.plain, x, y)
    BY <1>0, <1>4, <2>2 DEF Adds
  <2>4. PICK M : SpreadOn(rt.plain, rt.fold, L, x, y, M)
    BY <1>1, <1>2, <2>3, SpreadMore, Zenon
  <2> QED
    BY <1>0, <2>2, <2>4 DEF SpreadOn
<1>6. /\ Len(r2.plain) = n + 1 /\ r2.plain[n + 1] = x
      /\ \A q \in 1 .. n : r2.plain[q] = rt.plain[q]
  BY <1>0, <1>1
<1>7. \A k \in 1 .. m :
          /\ rt.plainOff[k] \in Nat /\ NextPlace(rt, k) \in Nat
          /\ rt.plainOff[k] < NextPlace(rt, k) /\ NextPlace(rt, k) <= n
          /\ rt.plainOff[k] \in 0 .. n /\ rt.plainOff[k] + 1 \in 0 .. n
  BY <1>0, <1>2, MappedFacts
<1>8. ASSUME NEW k \in 1 .. m
      PROVE  NextPlace(r2, k) = IF k = m THEN NextPlace(rt, k) + 1 ELSE NextPlace(rt, k)
  BY <1>0, <1>6 DEF NextPlace
<1>9. ASSUME NEW k \in 1 .. m
      PROVE  /\ r2.plainOff[k] < NextPlace(r2, k) /\ NextPlace(r2, k) <= n + 1
             /\ \A q \in r2.plainOff[k] + 1 .. NextPlace(r2, k) - 1 :
                   Text!isSpace(r2.plain[q]) /\ Text!isSpace(r2.plain[q + 1])
  <2>1. /\ rt.plainOff[k] \in Nat /\ NextPlace(rt, k) \in Nat
        /\ rt.plainOff[k] < NextPlace(rt, k) /\ NextPlace(rt, k) <= n
    BY <1>7
  <2>2. rt.plainOff[k] < NextPlace(r2, k) /\ NextPlace(r2, k) <= n + 1
    BY <1>8, <2>1
  <2>3. ASSUME NEW q \in rt.plainOff[k] + 1 .. NextPlace(r2, k) - 1
        PROVE  Text!isSpace(r2.plain[q]) /\ Text!isSpace(r2.plain[q + 1])
    <3>1. CASE q \in rt.plainOff[k] + 1 .. NextPlace(rt, k) - 1
      <4>1. Text!isSpace(rt.plain[q]) /\ Text!isSpace(rt.plain[q + 1])
        BY <1>0, <1>2, <3>1 DEF Mapped
      <4>2. q \in 1 .. n /\ q + 1 \in 1 .. n
        BY <2>1, <3>1
      <4> QED
        BY <1>6, <4>1, <4>2
    <3>2. CASE q \notin rt.plainOff[k] + 1 .. NextPlace(rt, k) - 1
      <4>1. k = m /\ q = NextPlace(rt, k)
        BY <1>8, <2>1, <3>2
      <4>2. q = n
        BY <1>0, <4>1 DEF NextPlace
      <4> QED
        BY <1>0, <1>3, <1>6, <4>2
    <3> QED
      BY <3>1, <3>2
  <2> QED
    BY <2>2, <2>3
<1>10. ASSUME NEW j \in 1 .. f
       PROVE  /\ r2.src[j] + 1 \in 1 .. m
              /\ M[r2.plainOff[r2.src[j] + 1]] < j /\ j <= M[r2.plainOff[r2.src[j] + 1] + 1]
  <2>1. rt.src[j] + 1 \in 1 .. m
    BY <1>0, <1>2, MappedFacts
  <2>2. PICK k \in 1 .. m : k = rt.src[j] + 1
    BY <2>1
  <2>3. L[rt.plainOff[k]] < j /\ j <= L[rt.plainOff[k] + 1]
    BY <1>0, <1>2, <2>2 DEF Mapped
  <2>4. M[rt.plainOff[k]] = L[rt.plainOff[k]] /\ M[rt.plainOff[k] + 1] = L[rt.plainOff[k] + 1]
    BY <1>5, <1>7
  <2> QED
    BY <2>1, <2>2, <2>3, <2>4
<1>11. Mapped(r2, M)
  <2>1. Len(rt.plainOff) = Len(rt.norm) /\ Len(rt.src) = Len(rt.fold)
    BY <1>2, MappedFacts
  <2> QED
    BY <1>0, <1>6, <1>9, <1>10, <2>1 DEF Mapped
<1>12. Ended(r2)
  <2>1. r2.norm # <<>> /\ r2.plain # <<>> /\ r2.norm[Len(r2.norm)] = Blank
    BY <1>1, <1>2 DEF Ended
  <2> QED
    BY <1>6, <2>1 DEF Ended
<1>13. Spread(r2.plain, r2.fold, M)
  BY <1>5
<1> QED
  BY <1>11, <1>12, <1>13 DEF TextRight

\* What taking a character up does to the fields.
Taken(rt, r2, c, place, y, z) ==
    /\ r2.plain = rt.plain /\ r2.norm = Append(rt.norm, c)
    /\ r2.plainOff = Append(rt.plainOff, place)
    /\ y = Text!foldRune(c) /\ r2.fold = rt.fold \o y
    /\ Len(z) = Len(y) /\ (\A i \in 1 .. Len(z) : z[i] = Len(rt.norm))
    /\ r2.src = rt.src \o z
    /\ r2.excluded = rt.excluded /\ r2.lastNL = rt.lastNL

\* Normal does that.
LEMMA NormalFields ==
    ASSUME NEW rt \in ResourceTexts, NEW c \in Text!Characters, NEW place \in Nat,
           NEW r2, r2 = Text!Normal(rt, c, place)
    PROVE  /\ r2 \in ResourceTexts
           /\ \E y \in Seq(Text!Characters) : \E z \in Seq(Nat) : Taken(rt, r2, c, place, y, z)
<1>0. /\ rt.plain \in Seq(PlainCharacters) /\ rt.norm \in Seq(Text!Characters)
      /\ rt.plainOff \in Seq(Nat) /\ rt.src \in Seq(Nat) /\ rt.fold \in Seq(Text!Characters)
      /\ rt.excluded \in Nat /\ rt.lastNL \in BOOLEAN
  BY DEF ResourceTexts
<1>1. PICK y : y = Text!foldRune(c)
  OBVIOUS
<1>2. y \in Seq(Text!Characters) /\ DOMAIN y = 1 .. Len(y)
  <2>1. c \in PlainCharacters
    BY Zenon DEF PlainCharacters
  <2> QED
    BY <1>1, <2>1, FoldRune, Zenon
<1>3. PICK m \in Nat, w \in Nat : m = Len(rt.norm) /\ w = Len(y)
  <2>1. Len(rt.norm) \in Nat /\ Len(y) \in Nat
    BY <1>0, <1>2
  <2> QED
    BY <2>1, Zenon
<1>4. PICK z : z = [k \in 1 .. w |-> m]
  OBVIOUS
<1>5. z \in Seq(Nat) /\ Len(z) = w /\ \A i \in 1 .. w : z[i] = m
  BY <1>4
<1>6. z = [k \in DOMAIN Text!foldRune(c) |-> Len(rt.norm)]
  BY <1>1, <1>2, <1>3, <1>4, Zenon
<1>7. PICK norm \in Seq(Text!Characters) : norm = Append(rt.norm, c)
  BY <1>0, AppendIn, Zenon
<1>8. PICK plainOff \in Seq(Nat) : plainOff = Append(rt.plainOff, place)
  BY <1>0, AppendIn, Zenon
<1>9. PICK fold \in Seq(Text!Characters) : fold = rt.fold \o y
  BY <1>0, <1>2, ConcatIn, Zenon
<1>10. PICK src \in Seq(Nat) : src = rt.src \o z
  BY <1>0, <1>5, ConcatIn, Zenon
<1>11. r2 = [rt EXCEPT !.norm = norm, !.plainOff = plainOff, !.fold = fold, !.src = src]
  BY <1>1, <1>6, <1>7, <1>8, <1>9, <1>10, Zenon DEF Text!Normal
<1>12. PICK k \in ResourceTexts :
          k = [rt EXCEPT !.norm = norm, !.plainOff = plainOff, !.fold = fold, !.src = src]
  BY DEF ResourceTexts
<1>13. /\ k.plain = rt.plain /\ k.norm = norm /\ k.plainOff = plainOff /\ k.fold = fold
       /\ k.src = src /\ k.excluded = rt.excluded /\ k.lastNL = rt.lastNL
  BY <1>12 DEF ResourceTexts
<1>14. r2 = k
  BY <1>11, <1>12, Zenon
<1>15. Taken(rt, r2, c, place, y, z)
  <2>1. Len(z) = Len(y) /\ \A i \in 1 .. Len(z) : z[i] = Len(rt.norm)
    BY <1>3, <1>5, Zenon
  <2> QED
    BY <1>1, <1>7, <1>8, <1>9, <1>10, <1>13, <1>14, <2>1, Zenon DEF Taken
<1> QED
  BY <1>2, <1>5, <1>14, <1>15, Zenon

\* What a further character of the plain text alone does.
Longer(rt, r2, x) ==
    /\ r2.plain = Append(rt.plain, x) /\ r2.norm = rt.norm
    /\ r2.plainOff = rt.plainOff /\ r2.fold = rt.fold /\ r2.src = rt.src
    /\ r2.excluded = rt.excluded

\* The two places where one is added.
LEMMA LongerFields ==
    ASSUME NEW rt \in ResourceTexts, NEW x \in PlainCharacters, NEW r2,
           \/ r2 = [rt EXCEPT !.plain = Append(@, x)]
           \/ r2 = [rt EXCEPT !.plain = Append(@, x), !.lastNL = TRUE]
    PROVE  r2 \in ResourceTexts /\ Longer(rt, r2, x)
<1>0. rt.plain \in Seq(PlainCharacters)
  BY DEF ResourceTexts
<1>1. PICK plain \in Seq(PlainCharacters) : plain = Append(rt.plain, x)
  BY <1>0, AppendIn, Zenon
<1>3. CASE r2 = [rt EXCEPT !.plain = Append(@, x)]
  <2>1. r2 = [rt EXCEPT !.plain = plain]
    BY <1>1, <1>3, Zenon
  <2>2. PICK k \in ResourceTexts : k = [rt EXCEPT !.plain = plain]
    BY DEF ResourceTexts
  <2>3. /\ k.plain = plain /\ k.norm = rt.norm /\ k.plainOff = rt.plainOff /\ k.fold = rt.fold
        /\ k.src = rt.src /\ k.excluded = rt.excluded /\ k.lastNL = rt.lastNL
    BY <2>2 DEF ResourceTexts
  <2> QED
    BY <1>1, <2>1, <2>2, <2>3, Zenon DEF Longer
<1>4. CASE r2 = [rt EXCEPT !.plain = Append(@, x), !.lastNL = TRUE]
  <2>1. r2 = [rt EXCEPT !.plain = plain, !.lastNL = TRUE]
    BY <1>1, <1>4, Zenon
  <2>2. PICK k \in ResourceTexts : k = [rt EXCEPT !.plain = plain, !.lastNL = TRUE]
    BY DEF ResourceTexts
  <2>3. /\ k.plain = plain /\ k.norm = rt.norm /\ k.plainOff = rt.plainOff /\ k.fold = rt.fold
        /\ k.src = rt.src /\ k.excluded = rt.excluded /\ k.lastNL = TRUE
    BY <2>2 DEF ResourceTexts
  <2> QED
    BY <1>1, <2>1, <2>2, <2>3, Zenon DEF Longer
<1> QED
  BY <1>3, <1>4

\* The fields of the text, with the same values.
SameText(r2, rt) ==
    /\ r2.plain = rt.plain /\ r2.norm = rt.norm
    /\ r2.plainOff = rt.plainOff /\ r2.fold = rt.fold /\ r2.src = rt.src

\* What a change of the other two fields does.
LEMMA OtherFields ==
    ASSUME NEW rt \in ResourceTexts, NEW n \in Nat, NEW r2,
           \/ r2 = [rt EXCEPT !.excluded = n]
           \/ r2 = [rt EXCEPT !.lastNL = FALSE] /\ n = rt.excluded
    PROVE  /\ r2 \in ResourceTexts
           /\ SameText(r2, rt) /\ r2.excluded = n
           /\ r2.lastNL => rt.lastNL
<1>3. CASE r2 = [rt EXCEPT !.excluded = n]
  <2>2. PICK k \in ResourceTexts : k = [rt EXCEPT !.excluded = n]
    BY DEF ResourceTexts
  <2>3. /\ k.plain = rt.plain /\ k.norm = rt.norm /\ k.plainOff = rt.plainOff
        /\ k.fold = rt.fold /\ k.src = rt.src /\ k.excluded = n /\ k.lastNL = rt.lastNL
    BY <2>2 DEF ResourceTexts
  <2> QED
    BY <1>3, <2>2, <2>3, Zenon DEF SameText
<1>4. CASE r2 = [rt EXCEPT !.lastNL = FALSE] /\ n = rt.excluded
  <2>2. PICK k \in ResourceTexts : k = [rt EXCEPT !.lastNL = FALSE]
    BY DEF ResourceTexts
  <2>3. /\ k.plain = rt.plain /\ k.norm = rt.norm /\ k.plainOff = rt.plainOff
        /\ k.fold = rt.fold /\ k.src = rt.src /\ k.excluded = rt.excluded /\ k.lastNL = FALSE
    BY <2>2 DEF ResourceTexts
  <2> QED
    BY <1>4, <2>2, <2>3, Zenon DEF SameText
<1> QED
  BY <1>3, <1>4

\* What remains of a text with a further character, but for the last two fields.
Grown(r2, rt, x) ==
    /\ \E M : TextRight(r2, M)
    /\ r2.plain = Append(rt.plain, x) /\ r2.excluded = rt.excluded

\* A character that is taken up.
LEMMA TakenRight ==
    ASSUME NEW rt \in ResourceTexts, NEW L, TextRight(rt, L), NEW x \in PlainCharacters,
           NEW longer \in ResourceTexts, Longer(rt, longer, x),
           NEW c \in Text!Characters,
           Text!isSpace(x) => c = Blank,
           Text!isSpace(x) /\ rt.plain # <<>> => ~ Text!isSpace(rt.plain[Len(rt.plain)]),
           ~ Text!isSpace(x) => c = x,
           NEW r1 \in ResourceTexts, NEW y \in Seq(Text!Characters), NEW z \in Seq(Nat),
           Taken(longer, r1, c, Len(rt.plain), y, z),
           NEW r2 \in ResourceTexts,
           r2.plain = r1.plain, r2.norm = r1.norm, r2.plainOff = r1.plainOff,
           r2.fold = r1.fold, r2.src = r1.src, r2.excluded = r1.excluded,
           r2.lastNL => Text!isSpace(x)
    PROVE  Grown(r2, rt, x)
<1>1. Emitted(rt, r2, x, c, y, z)
  <2>1. /\ r2.plain = Append(rt.plain, x) /\ r2.norm = Append(rt.norm, c)
        /\ r2.plainOff = Append(rt.plainOff, Len(rt.plain))
        /\ y = Text!foldRune(c) /\ r2.fold = rt.fold \o y
    BY Zenon DEF Taken, Longer
  <2>2. /\ Len(z) = Len(y) /\ (\A i \in 1 .. Len(z) : z[i] = Len(rt.norm))
        /\ r2.src = rt.src \o z
    BY Zenon DEF Taken, Longer
  <2> QED
    BY <2>1, <2>2, Zenon DEF Emitted
<1>2. \E M : TextRight(r2, M)
  BY <1>1, EmitRight, Zenon
<1> QED
  BY <1>2, Zenon DEF Grown, Taken, Longer

\* A space or the edge of a block: taken up if it is the first of some.
LEMMA SpaceRight ==
    ASSUME NEW rt \in ResourceTexts, NEW L, TextRight(rt, L),
           NEW x \in PlainCharacters, Text!isSpace(x),
           NEW longer \in ResourceTexts, Longer(rt, longer, x),
           NEW r2, r2 = Text!addSeparator(longer, Len(rt.plain))
    PROVE  r2 \in ResourceTexts /\ Grown(r2, rt, x)
<1>1. Len(rt.plain) \in Nat
  BY DEF ResourceTexts
<1>2. Ended(rt) /\ longer.norm = rt.norm
  BY Zenon DEF TextRight, Longer
<1>3. CASE rt.norm # <<>> /\ rt.norm[Len(rt.norm)] = Blank
  <2>1. r2 = longer
    BY <1>2, <1>3, Zenon DEF Text!addSeparator, Text!Last, Blank
  <2>2. rt.plain # <<>> /\ Text!isSpace(rt.plain[Len(rt.plain)])
    BY <1>2, <1>3, Zenon DEF Ended
  <2>3. \E M : TextRight(longer, M)
    BY <2>2, SwallowRight, Zenon DEF Longer
  <2> QED
    BY <2>1, <2>3, Zenon DEF Grown, Longer
<1>4. CASE ~ (rt.norm # <<>> /\ rt.norm[Len(rt.norm)] = Blank)
  <2>1. r2 = Text!Normal(longer, Blank, Len(rt.plain))
    BY <1>2, <1>4, Zenon DEF Text!addSeparator, Text!Last, Blank
  <2>2. Blank \in Text!Characters
    BY BlankFacts, Zenon
  <2>3. PICK y \in Seq(Text!Characters), z \in Seq(Nat) :
           r2 \in ResourceTexts /\ Taken(longer, r2, Blank, Len(rt.plain), y, z)
    BY <1>1, <2>1, <2>2, NormalFields, Zenon
  <2>4. rt.plain # <<>> => ~ Text!isSpace(rt.plain[Len(rt.plain)])
    BY <1>2, <1>4, Zenon DEF Ended
  <2> QED
    BY <2>2, <2>3, <2>4, TakenRight, Zenon
<1> QED
  BY <1>3, <1>4, Zenon

\* A character.
LEMMA CharacterRight ==
    ASSUME NEW rt \in ResourceTexts, NEW L, TextRight(rt, L), NEW c \in Text!Characters,
           NEW r2, r2 = Text!AddCharacter(rt, c)
    PROVE  r2 \in ResourceTexts /\ Grown(r2, rt, c)
<1>0. c \in PlainCharacters /\ Len(rt.plain) \in Nat
  <2>1. c \in PlainCharacters
    BY Zenon DEF PlainCharacters
  <2> QED
    BY <2>1 DEF ResourceTexts
<1>1. PICK longer : longer = [rt EXCEPT !.plain = Append(@, c)]
  OBVIOUS
<1>2. longer \in ResourceTexts /\ Longer(rt, longer, c)
  BY <1>0, <1>1, LongerFields, Zenon
<1>3. CASE c = Blank
  <2>1. r2 = Text!addSeparator(longer, Len(rt.plain))
    BY <1>1, <1>3, Zenon DEF Text!AddCharacter, Blank
  <2>2. Text!isSpace(c)
    BY <1>3, BlankFacts, Zenon
  <2> QED
    BY <1>0, <1>2, <2>1, <2>2, SpaceRight, Zenon
<1>4. CASE c # Blank
  <2>1. PICK r1 : r1 = Text!Normal(longer, c, Len(rt.plain))
    OBVIOUS
  <2>2. r2 = [r1 EXCEPT !.lastNL = FALSE]
    BY <1>1, <1>4, <2>1, Zenon DEF Text!AddCharacter, Blank
  <2>3. r1 \in ResourceTexts /\ \E y \in Seq(Text!Characters) : \E z \in Seq(Nat) :
                                   Taken(longer, r1, c, Len(rt.plain), y, z)
    BY <1>0, <1>2, <2>1, NormalFields, Zenon
  <2>4. /\ r2 \in ResourceTexts /\ SameText(r2, r1) /\ r2.excluded = r1.excluded
    <3>1. r1.excluded \in Nat
      BY <2>3 DEF ResourceTexts
    <3> QED
      BY <2>2, <2>3, <3>1, OtherFields, Zenon
  <2>5. ~ r2.lastNL
    <3>1. PICK k \in ResourceTexts : k = [r1 EXCEPT !.lastNL = FALSE]
      BY <2>3 DEF ResourceTexts
    <3>2. ~ k.lastNL
      BY <2>3, <3>1 DEF ResourceTexts
    <3> QED
      BY <2>2, <3>1, <3>2, Zenon
  <2>7. ~ Text!isSpace(c)
    BY <1>4, CharacterFacts, Zenon
  <2> QED
    BY <1>0, <1>2, <2>3, <2>4, <2>5, <2>7, TakenRight, Zenon DEF SameText
<1> QED
  BY <1>3, <1>4, Zenon

\* The edge of a block.
LEMMA BoundaryRight ==
    ASSUME NEW rt \in ResourceTexts, NEW L, TextRight(rt, L),
           NEW r2, r2 = Text!ensureBoundary(rt)
    PROVE  /\ r2 \in ResourceTexts
           /\ r2 = rt \/ Grown(r2, rt, "nl")
<1>0. Ended(rt)
  BY Zenon DEF TextRight
<1>1. CASE rt.plain = <<>>
  BY <1>1, Zenon DEF Text!ensureBoundary
<1>2. CASE rt.plain # <<>> /\ rt.lastNL
  <2>1. rt.norm # <<>> /\ rt.norm[Len(rt.norm)] = Blank
    BY <1>0, <1>2, Zenon DEF Ended
  <2>2. r2 = rt
    BY <1>2, <2>1, Zenon DEF Text!ensureBoundary, Text!addSeparator, Text!Last, Blank
  <2> QED
    BY <2>2, Zenon
<1>3. CASE rt.plain # <<>> /\ ~ rt.lastNL
  <2>1. PICK longer : longer = [rt EXCEPT !.plain = Append(@, "nl"), !.lastNL = TRUE]
    OBVIOUS
  <2>2. "nl" \in PlainCharacters
    BY Zenon DEF PlainCharacters
  <2>3. Text!isSpace("nl")
    BY BlankFacts, Zenon
  <2>5. longer \in ResourceTexts /\ Longer(rt, longer, "nl")
    BY <2>1, <2>2, LongerFields, Zenon
  <2>6. r2 = Text!addSeparator(longer, Len(rt.plain))
    BY <1>3, <2>1, Zenon DEF Text!ensureBoundary
  <2> QED
    BY <2>2, <2>3, <2>5, <2>6, SpaceRight, Zenon
<1> QED
  BY <1>1, <1>2, <1>3, Zenon

\* How many excluded elements are open behind a token.
Inside(t, n) ==
    IF t = "skip" THEN n + 1 ELSE IF t = "end" /\ n > 0 THEN n - 1 ELSE n

\* The tokens.
LEMMA TokenFacts ==
    ASSUME NEW t \in Text!Tokens
    PROVE  /\ t \in Text!Characters <=> t \notin {"skip", "end", "block"}
           /\ t # "nl"
<1>1. "skip" \notin Text!Characters /\ "end" \notin Text!Characters
      /\ "block" \notin Text!Characters
  BY Zenon DEF Text!Characters
<1>2. t \in Text!Characters \/ t \in {"skip", "end", "block"}
  BY Zenon DEF Text!Tokens
<1>3. t # "nl"
  BY Zenon DEF Text!Tokens, Text!Characters
<1> QED
  BY <1>1, <1>2, <1>3, Zenon

\* What a token does to a text that is right: it remains so, and the character of a
\* token outside of what is excluded is shown.
Read(r2, rt, t) ==
    /\ r2 \in ResourceTexts /\ \E M : TextRight(r2, M)
    /\ r2.excluded = Inside(t, rt.excluded)
    /\ t \in Text!Characters /\ r2.excluded = 0 => r2.plain = Append(rt.plain, t)
    /\ ~ (t \in Text!Characters /\ r2.excluded = 0) =>
          r2.plain = rt.plain \/ r2.plain = Append(rt.plain, "nl")

\* Every token does that.
LEMMA TokenRight ==
    ASSUME NEW rt \in ResourceTexts, NEW L, TextRight(rt, L), NEW t \in Text!Tokens,
           NEW r2, r2 = Text!AddToken(rt, t)
    PROVE  Read(r2, rt, t)
<1>0. rt.excluded \in Nat
  BY DEF ResourceTexts
<1>1. ASSUME NEW n \in Nat, r2 = [rt EXCEPT !.excluded = n], n = Inside(t, rt.excluded),
             t \notin Text!Characters
      PROVE  Read(r2, rt, t)
  <2>1. /\ r2 \in ResourceTexts /\ SameText(r2, rt) /\ r2.excluded = n
        /\ r2.lastNL => rt.lastNL
    BY <1>1, OtherFields, Zenon
  <2>2. TextRight(r2, L)
    <3>1. Spread(r2.plain, r2.fold, L)
      BY <2>1, Zenon DEF TextRight, SameText
    <3>2. Ended(r2)
      BY <2>1, Zenon DEF TextRight, Ended, SameText
    <3>3. Mapped(r2, L)
      <4>1. Mapped(rt, L) /\ \A k : NextPlace(r2, k) = NextPlace(rt, k)
        BY <2>1, Zenon DEF NextPlace, SameText, TextRight
      <4> QED
        BY <2>1, <4>1, Zenon DEF Mapped, SameText
    <3> QED
      BY <3>1, <3>2, <3>3, Zenon DEF TextRight
  <2> QED
    BY <1>1, <2>1, <2>2, Zenon DEF Read, SameText
<1>2. CASE t = "skip"
  <2>1. r2 = [rt EXCEPT !.excluded = rt.excluded + 1]
    BY <1>2, Zenon DEF Text!AddToken
  <2>2. Inside(t, rt.excluded) = rt.excluded + 1 /\ rt.excluded + 1 \in Nat
    BY <1>0, <1>2 DEF Inside
  <2>3. t \notin Text!Characters
    BY <1>2, TokenFacts, Zenon
  <2> QED
    BY <1>1, <2>1, <2>2, <2>3, Zenon
<1>3. CASE t = "end"
  <2>1. r2 = [rt EXCEPT !.excluded = IF rt.excluded > 0 THEN rt.excluded - 1 ELSE 0]
    BY <1>3, Zenon DEF Text!AddToken
  <2>2. PICK n : n = IF rt.excluded > 0 THEN rt.excluded - 1 ELSE 0
    OBVIOUS
  <2>3. n \in Nat /\ Inside(t, rt.excluded) = n
    BY <1>0, <1>3, <2>2 DEF Inside
  <2>4. t \notin Text!Characters
    BY <1>3, TokenFacts, Zenon
  <2>5. r2 = [rt EXCEPT !.excluded = n]
    BY <2>1, <2>2, Zenon
  <2> QED
    BY <1>1, <2>3, <2>4, <2>5, Zenon
<1>4. CASE t = "block"
  <2>1. r2 = Text!ensureBoundary(rt)
    BY <1>4, Zenon DEF Text!AddToken
  <2>2. t \notin Text!Characters
    BY <1>4, TokenFacts, Zenon
  <2>3. Inside(t, rt.excluded) = rt.excluded
    BY <1>4 DEF Inside
  <2>4. r2 \in ResourceTexts /\ (r2 = rt \/ Grown(r2, rt, "nl"))
    BY <2>1, BoundaryRight, Zenon
  <2> QED
    BY <2>2, <2>3, <2>4, Zenon DEF Read, Grown
<1>5. CASE t \notin {"skip", "end", "block"}
  <2>1. t \in Text!Characters
    BY <1>5, TokenFacts, Zenon
  <2>5. Inside(t, rt.excluded) = rt.excluded
    BY <1>5 DEF Inside
  <2>2. r2 = IF rt.excluded > 0 THEN rt ELSE Text!AddCharacter(rt, t)
    BY <1>5, Zenon DEF Text!AddToken
  <2>3. CASE rt.excluded > 0
    <3>1. rt.excluded # 0
      BY <1>0, <2>3
    <3> QED
      BY <2>2, <2>3, <2>5, <3>1, Zenon DEF Read
  <2>4. CASE ~ (rt.excluded > 0)
    <3>1. rt.excluded = 0
      BY <1>0, <2>4
    <3>2. r2 \in ResourceTexts /\ Grown(r2, rt, t)
      BY <2>1, <2>2, <2>4, CharacterRight, Zenon
    <3> QED
      BY <2>1, <2>5, <3>1, <3>2, Zenon DEF Read, Grown
  <2> QED
    BY <2>3, <2>4, Zenon
<1> QED
  BY <1>2, <1>3, <1>4, <1>5, Zenon

\* The functions that Picked, Shown and extractResource compute.
Picking(f, seq, indices) ==
    f = [i \in 0 .. Len(seq) |->
            IF i = 0 THEN <<>>
            ELSE IF i \in indices THEN Append(f[i - 1], seq[i]) ELSE f[i - 1]]

Counting(f, tokens) ==
    f = [i \in 0 .. Len(tokens) |->
            IF i = 0 THEN 0
            ELSE IF tokens[i] = "skip" THEN f[i - 1] + 1
            ELSE IF tokens[i] = "end" /\ f[i - 1] > 0 THEN f[i - 1] - 1
            ELSE f[i - 1]]

Extracting(f, tokens) ==
    f = [i \in 0 .. Len(tokens) |->
            IF i = 0 THEN Text!NoText ELSE Text!AddToken(f[i - 1], tokens[i])]

\* What has been picked behind each element.
PicksBy(g, seq, indices) ==
    /\ Text!Picked(seq, indices) = g[Len(seq)]
    /\ g[0] = <<>>
    /\ \A i \in 1 .. Len(seq) :
          g[i] = IF i \in indices THEN Append(g[i - 1], seq[i]) ELSE g[i - 1]

\* Picked goes over the sequence element by element.
LEMMA PickedSteps ==
    ASSUME NEW V, NEW seq \in Seq(V), NEW indices
    PROVE  \E g \in [0 .. Len(seq) -> Seq(V)] : PicksBy(g, seq, indices)
<1> DEFINE n == Len(seq)
           M == Seq(V)
           e == <<>>
           after(i, x) == IF i \in indices THEN Append(x, seq[i]) ELSE x
           step == [i \in 1 .. n |-> [x \in M |-> after(i, x)]]
           g == CHOOSE f : Picking(f, seq, indices)
<1>1. n \in Nat /\ e \in M /\ \A i \in 1 .. n : seq[i] \in V
  OBVIOUS
<1>2. \A i \in 1 .. n : \A x \in M : after(i, x) \in M
  BY <1>1
<1>3. step \in [1 .. n -> [M -> M]]
  <2> HIDE DEF after, M
  <2> QED
    BY <1>2
<1>4. PICK f \in [0 .. n -> M] : f[0] = e /\ \A i \in 1 .. n : f[i] = step[i][f[i - 1]]
  <2> HIDE DEF step, M, e, n
  <2>1. PICK f \in [0 .. n -> M] : GoesBy(f, n, e, step)
    BY <1>1, <1>3, Recursion, Zenon
  <2> QED
    BY <2>1, Zenon DEF GoesBy
<1>5. ASSUME NEW i \in 1 .. n PROVE f[i] = after(i, f[i - 1])
  <2>1. i - 1 \in 0 .. n
    OBVIOUS
  <2>2. f[i - 1] \in M
    BY <1>4, <2>1, Zenon
  <2>3. step[i][f[i - 1]] = after(i, f[i - 1])
    <3> HIDE DEF after, M
    <3> QED
      BY <2>2
  <2> HIDE DEF step
  <2> QED
    BY <1>4, <2>3
<1>6. Picking(f, seq, indices)
  <2>1. ASSUME NEW i \in 0 .. n PROVE f[i] = IF i = 0 THEN e ELSE after(i, f[i - 1])
    <3>1. CASE i = 0
      BY <1>4, <3>1, Zenon
    <3>2. CASE i # 0
      <4>1. i \in 1 .. n
        BY <3>2
      <4> QED
        BY <1>5, <3>2, <4>1, Zenon
    <3> QED
      BY <3>1, <3>2
  <2>2. f = [i \in 0 .. n |-> f[i]]
    OBVIOUS
  <2>3. f = [i \in 0 .. n |-> IF i = 0 THEN e ELSE after(i, f[i - 1])]
    <3> HIDE DEF after
    <3> QED
      BY <2>1, <2>2
  <2> QED
    BY <2>3, Zenon DEF Picking
<1>7. Picking(g, seq, indices)
  BY <1>6, Zenon
<1>8. Text!Picked(seq, indices) = g[n]
  BY DEF Text!Picked, Picking
<1> HIDE DEF g
<1>9. g = [i \in 0 .. n |-> IF i = 0 THEN e ELSE after(i, g[i - 1])]
  BY <1>7, Zenon DEF Picking
<1> HIDE DEF after, e, M
<1>10. g[0] = e /\ \A i \in 1 .. n : g[i] = after(i, g[i - 1])
  <2>1. \A i \in 0 .. n : g[i] = IF i = 0 THEN e ELSE after(i, g[i - 1])
    BY <1>9, Zenon
  <2>2. 0 \in 0 .. n /\ \A i \in 1 .. n : i # 0 /\ i \in 0 .. n
    BY <1>1
  <2> QED
    BY <2>1, <2>2, Zenon
<1>11. \A i \in 0 .. n : g[i] \in M
  <2>1. \A i \in 1 .. n : g[i - 1] \in M => g[i] \in M
    BY <1>2, <1>10, Zenon
  <2>2. g[0] \in M
    BY <1>1, <1>10, Zenon
  <2> HIDE DEF n
  <2> QED
    BY <1>1, <2>1, <2>2, StaysIn
<1>12. g \in [0 .. n -> M]
  BY <1>9, <1>11
<1> QED
  BY <1>8, <1>10, <1>12, Zenon DEF PicksBy, after, e, M

\* Two sets with the same numbers up to n.
SameUpTo(I, J, n) == \A i \in 1 .. n : i \in J <=> i \in I

\* And one element further.
LEMMA PickedMore ==
    ASSUME NEW V, NEW seq \in Seq(V), NEW x \in V, NEW I, NEW J, SameUpTo(I, J, Len(seq))
    PROVE  /\ Len(seq) + 1 \in J =>
                 Text!Picked(Append(seq, x), J) = Append(Text!Picked(seq, I), x)
           /\ Len(seq) + 1 \notin J => Text!Picked(Append(seq, x), J) = Text!Picked(seq, I)
<1>1. PICK n \in Nat, more \in Seq(V) :
          /\ n = Len(seq) /\ more = Append(seq, x)
          /\ Len(more) = n + 1 /\ more[n + 1] = x /\ \A i \in 1 .. n : more[i] = seq[i]
  <2>1. /\ Append(seq, x) \in Seq(V) /\ Len(seq) \in Nat
        /\ Len(Append(seq, x)) = Len(seq) + 1 /\ Append(seq, x)[Len(seq) + 1] = x
        /\ \A i \in 1 .. Len(seq) : Append(seq, x)[i] = seq[i]
    OBVIOUS
  <2> QED
    BY <2>1, Zenon
<1>2. PICK f : /\ Text!Picked(seq, I) = f[n]
               /\ f[0] = <<>>
               /\ \A i \in 1 .. n : f[i] = IF i \in I THEN Append(f[i - 1], seq[i]) ELSE f[i - 1]
  <2>1. PICK f : PicksBy(f, seq, I)
    BY PickedSteps, Zenon
  <2> QED
    BY <1>1, <2>1, Zenon DEF PicksBy
<1>3. PICK g : /\ Text!Picked(more, J) = g[n + 1]
               /\ g[0] = <<>>
               /\ \A i \in 1 .. n + 1 :
                     g[i] = IF i \in J THEN Append(g[i - 1], more[i]) ELSE g[i - 1]
  <2>1. PICK g : PicksBy(g, more, J)
    BY PickedSteps, Zenon
  <2> QED
    BY <1>1, <2>1, Zenon DEF PicksBy
<1> DEFINE T == {i \in 0 .. n : g[i] = f[i]}
<1>4. 0 \in T
  BY <1>2, <1>3
<1>5. ASSUME NEW i \in 1 .. n, i - 1 \in T PROVE i \in T
  <2>1. i \in 1 .. n + 1 /\ i \in 0 .. n /\ more[i] = seq[i] /\ g[i - 1] = f[i - 1]
    BY <1>1, <1>5
  <2>2. i \in J <=> i \in I
    BY <1>1, Zenon DEF SameUpTo
  <2>3. g[i] = f[i]
    BY <1>2, <1>3, <2>1, <2>2, Zenon
  <2> QED
    BY <2>1, <2>3
<1> HIDE DEF T
<1>6. 0 .. n \subseteq T
  BY <1>4, <1>5, InductionUpTo
<1>7. g[n] = f[n]
  BY <1>6 DEF T
<1>8. (n + 1) - 1 = n /\ n + 1 \in 1 .. n + 1
  OBVIOUS
<1>9. g[n + 1] = IF n + 1 \in J THEN Append(g[n], x) ELSE g[n]
  BY <1>1, <1>3, <1>8
<1> QED
  BY <1>1, <1>2, <1>3, <1>7, <1>9

\* How deep in excluded elements each token is.
LEMMA ShownSteps ==
    ASSUME NEW tokens \in Seq(Text!Tokens)
    PROVE  \E g \in [0 .. Len(tokens) -> Nat] :
              /\ g[0] = 0
              /\ \A i \in 1 .. Len(tokens) : g[i] = Inside(tokens[i], g[i - 1])
              /\ Shown(tokens) =
                    Text!Picked(tokens, {i \in DOMAIN tokens :
                                            tokens[i] \in Text!Characters /\ g[i] = 0})
<1> DEFINE n == Len(tokens)
           after(i, x) == IF tokens[i] = "skip" THEN x + 1
                         ELSE IF tokens[i] = "end" /\ x > 0 THEN x - 1 ELSE x
           step == [i \in 1 .. n |-> [x \in Nat |-> after(i, x)]]
           g == CHOOSE f : Counting(f, tokens)
<1>1. n \in Nat
  OBVIOUS
<1>2. \A i \in 1 .. n : \A x \in Nat : after(i, x) \in Nat
  OBVIOUS
<1>3. step \in [1 .. n -> [Nat -> Nat]]
  <2> HIDE DEF after
  <2> QED
    BY <1>2
<1>4. PICK f \in [0 .. n -> Nat] : f[0] = 0 /\ \A i \in 1 .. n : f[i] = step[i][f[i - 1]]
  <2> HIDE DEF step, n
  <2>1. 0 \in Nat
    OBVIOUS
  <2>2. PICK f \in [0 .. n -> Nat] : GoesBy(f, n, 0, step)
    BY <1>1, <1>3, <2>1, Recursion, Zenon
  <2> QED
    BY <2>2, Zenon DEF GoesBy
<1>5. ASSUME NEW i \in 1 .. n PROVE f[i] = after(i, f[i - 1])
  <2>1. i - 1 \in 0 .. n
    OBVIOUS
  <2>2. f[i - 1] \in Nat
    BY <1>4, <2>1, Zenon
  <2>3. step[i][f[i - 1]] = after(i, f[i - 1])
    <3> HIDE DEF after
    <3> QED
      BY <2>2
  <2> HIDE DEF step
  <2> QED
    BY <1>4, <2>3
<1>6. Counting(f, tokens)
  <2>1. ASSUME NEW i \in 0 .. n PROVE f[i] = IF i = 0 THEN 0 ELSE after(i, f[i - 1])
    <3>1. CASE i = 0
      BY <1>4, <3>1, Zenon
    <3>2. CASE i # 0
      <4>1. i \in 1 .. n
        BY <3>2
      <4> QED
        BY <1>5, <3>2, <4>1, Zenon
    <3> QED
      BY <3>1, <3>2
  <2>2. f = [i \in 0 .. n |-> f[i]]
    OBVIOUS
  <2>3. f = [i \in 0 .. n |-> IF i = 0 THEN 0 ELSE after(i, f[i - 1])]
    <3> HIDE DEF after
    <3> QED
      BY <2>1, <2>2
  <2> QED
    BY <2>3, Zenon DEF Counting
<1>7. Counting(g, tokens)
  BY <1>6, Zenon
<1>8. Shown(tokens) =
          Text!Picked(tokens, {i \in DOMAIN tokens : tokens[i] \in Text!Characters /\ g[i] = 0})
  BY DEF Shown, Counting
<1> HIDE DEF g
<1>9. g = [i \in 0 .. n |-> IF i = 0 THEN 0 ELSE after(i, g[i - 1])]
  BY <1>7, Zenon DEF Counting
<1> HIDE DEF after
<1>10. g[0] = 0 /\ \A i \in 1 .. n : g[i] = after(i, g[i - 1])
  <2>1. \A i \in 0 .. n : g[i] = IF i = 0 THEN 0 ELSE after(i, g[i - 1])
    BY <1>9, Zenon
  <2>2. 0 \in 0 .. n /\ \A i \in 1 .. n : i # 0 /\ i \in 0 .. n
    BY <1>1
  <2> QED
    BY <2>1, <2>2, Zenon
<1>11. \A i \in 0 .. n : g[i] \in Nat
  <2>1. \A i \in 1 .. n : g[i - 1] \in Nat => g[i] \in Nat
    BY <1>2, <1>10, Zenon
  <2>2. g[0] \in Nat
    BY <1>10
  <2> HIDE DEF n
  <2> QED
    BY <1>1, <2>1, <2>2, StaysIn
<1>12. g \in [0 .. n -> Nat]
  BY <1>9, <1>11
<1>13. \A i \in 1 .. n : g[i] = Inside(tokens[i], g[i - 1])
  BY <1>10, Zenon DEF after, Inside
<1> QED
  BY <1>8, <1>10, <1>12, <1>13, Zenon

RightTexts == {rt \in ResourceTexts : \E L : TextRight(rt, L)}

\* Nothing read, nothing wrong.
LEMMA NoTextRight == Text!NoText \in RightTexts
<1>1. PICK e, rt : e = <<>> /\ rt = Text!NoText
  OBVIOUS
<1>2. /\ rt.plain = e /\ rt.norm = e /\ rt.plainOff = e /\ rt.fold = e /\ rt.src = e
      /\ rt.excluded = 0 /\ ~ rt.lastNL
  BY <1>1 DEF Text!NoText
<1>3. e \in Seq(PlainCharacters) /\ e \in Seq(Text!Characters) /\ e \in Seq(Nat) /\ Len(e) = 0
  BY <1>1
<1>4. rt \in ResourceTexts
  <2>1. rt = [plain |-> e, norm |-> e, plainOff |-> e, fold |-> e, src |-> e,
              excluded |-> 0, lastNL |-> FALSE]
    BY <1>1, Zenon DEF Text!NoText
  <2> QED
    BY <1>3, <2>1 DEF ResourceTexts
<1>5. PICK L : L = [q \in 0 .. 0 |-> 0]
  OBVIOUS
<1>6. Spread(rt.plain, rt.fold, L)
  <2>1. L \in [0 .. 0 -> Nat] /\ L[0] = 0
    BY <1>5
  <2> QED
    BY <1>2, <1>3, <2>1 DEF Spread
<1>7. Mapped(rt, L)
  BY <1>2, <1>3 DEF Mapped
<1>8. Ended(rt)
  BY <1>1, <1>2 DEF Ended
<1>9. TextRight(rt, L)
  BY <1>6, <1>7, <1>8 DEF TextRight
<1> QED
  BY <1>1, <1>4, <1>9 DEF RightTexts

\* A token leaves it right.
LEMMA TokensRight ==
    ASSUME NEW rt \in RightTexts, NEW t \in Text!Tokens
    PROVE  Text!AddToken(rt, t) \in RightTexts /\ Read(Text!AddToken(rt, t), rt, t)
<1>1. rt \in ResourceTexts /\ \E L : TextRight(rt, L)
  BY Zenon DEF RightTexts
<1>2. PICK r2 : r2 = Text!AddToken(rt, t)
  OBVIOUS
<1>4. Read(r2, rt, t)
  BY <1>1, <1>2, TokenRight, Zenon
<1>5. r2 \in RightTexts
  BY <1>4, Zenon DEF RightTexts, Read
<1> QED
  BY <1>2, <1>4, <1>5, Zenon

\* The text behind each token.
ExtractsBy(g, tokens) ==
    /\ g[0] = Text!NoText
    /\ \A i \in 1 .. Len(tokens) : g[i] = Text!AddToken(g[i - 1], tokens[i])

\* The extraction goes token by token.
LEMMA ExtractionSteps ==
    ASSUME NEW tokens \in Seq(Text!Tokens)
    PROVE  \E g \in [0 .. Len(tokens) -> RightTexts] :
              /\ ExtractsBy(g, tokens)
              /\ Text!extractResource(tokens) =
                    [g[Len(tokens)] EXCEPT !.plainOff = Append(@, Len(g[Len(tokens)].plain))]
<1> DEFINE n == Len(tokens)
           M == RightTexts
           e == Text!NoText
           after(i, x) == Text!AddToken(x, tokens[i])
           step == [i \in 1 .. n |-> [x \in M |-> after(i, x)]]
           g == CHOOSE f : Extracting(f, tokens)
<1>1. n \in Nat /\ e \in M /\ \A i \in 1 .. n : tokens[i] \in Text!Tokens
  BY NoTextRight
<1>2. \A i \in 1 .. n : \A x \in M : after(i, x) \in M
  BY <1>1, TokensRight
<1>3. step \in [1 .. n -> [M -> M]]
  <2> HIDE DEF after, M
  <2> QED
    BY <1>2
<1>4. PICK f \in [0 .. n -> M] : f[0] = e /\ \A i \in 1 .. n : f[i] = step[i][f[i - 1]]
  <2> HIDE DEF step, M, e, n
  <2>1. PICK f \in [0 .. n -> M] : GoesBy(f, n, e, step)
    BY <1>1, <1>3, Recursion, Zenon
  <2> QED
    BY <2>1, Zenon DEF GoesBy
<1>5. ASSUME NEW i \in 1 .. n PROVE f[i] = after(i, f[i - 1])
  <2>1. i - 1 \in 0 .. n
    OBVIOUS
  <2>2. f[i - 1] \in M
    BY <1>4, <2>1, Zenon
  <2>3. step[i][f[i - 1]] = after(i, f[i - 1])
    <3> HIDE DEF after, M
    <3> QED
      BY <2>2
  <2> HIDE DEF step
  <2> QED
    BY <1>4, <2>3
<1>6. Extracting(f, tokens)
  <2>1. ASSUME NEW i \in 0 .. n PROVE f[i] = IF i = 0 THEN e ELSE after(i, f[i - 1])
    <3>1. CASE i = 0
      BY <1>4, <3>1, Zenon
    <3>2. CASE i # 0
      <4>1. i \in 1 .. n
        BY <3>2
      <4> QED
        BY <1>5, <3>2, <4>1, Zenon
    <3> QED
      BY <3>1, <3>2
  <2>2. f = [i \in 0 .. n |-> f[i]]
    OBVIOUS
  <2>3. f = [i \in 0 .. n |-> IF i = 0 THEN e ELSE after(i, f[i - 1])]
    <3> HIDE DEF after, e
    <3> QED
      BY <2>1, <2>2
  <2> QED
    BY <2>3, Zenon DEF Extracting
<1>7. Extracting(g, tokens)
  BY <1>6, Zenon
<1>8. Text!extractResource(tokens) =
          [g[n] EXCEPT !.plainOff = Append(@, Len(g[n].plain))]
  BY DEF Text!extractResource, Extracting
<1> HIDE DEF g
<1>9. g = [i \in 0 .. n |-> IF i = 0 THEN e ELSE after(i, g[i - 1])]
  BY <1>7, Zenon DEF Extracting
<1> HIDE DEF after, e, M
<1>10. g[0] = e /\ \A i \in 1 .. n : g[i] = after(i, g[i - 1])
  <2>1. \A i \in 0 .. n : g[i] = IF i = 0 THEN e ELSE after(i, g[i - 1])
    BY <1>9, Zenon
  <2>2. 0 \in 0 .. n /\ \A i \in 1 .. n : i # 0 /\ i \in 0 .. n
    BY <1>1
  <2> QED
    BY <2>1, <2>2, Zenon
<1>11. \A i \in 0 .. n : g[i] \in M
  <2>1. \A i \in 1 .. n : g[i - 1] \in M => g[i] \in M
    BY <1>2, <1>10, Zenon
  <2>2. g[0] \in M
    BY <1>1, <1>10, Zenon
  <2> HIDE DEF n
  <2> QED
    BY <1>1, <2>1, <2>2, StaysIn
<1>12. g \in [0 .. n -> M]
  BY <1>9, <1>11
<1> QED
  BY <1>8, <1>10, <1>12, Zenon DEF ExtractsBy, after, e, M

\* The text of a plain text is what has been typed: its characters without the marks
\* of blocks.
Typings(plain) == {i \in DOMAIN plain : plain[i] # "nl"}

\* That goes on character by character.
LEMMA TypedMore ==
    ASSUME NEW plain \in Seq(PlainCharacters), NEW x \in PlainCharacters
    PROVE  /\ x # "nl" => Text!Picked(Append(plain, x), Typings(Append(plain, x)))
                              = Append(Text!Picked(plain, Typings(plain)), x)
           /\ x = "nl" => Text!Picked(Append(plain, x), Typings(Append(plain, x)))
                              = Text!Picked(plain, Typings(plain))
<1>1. PICK n \in Nat, more \in Seq(PlainCharacters) :
          /\ n = Len(plain) /\ more = Append(plain, x)
          /\ DOMAIN plain = 1 .. n
          /\ DOMAIN more = 1 .. n + 1 /\ more[n + 1] = x /\ \A i \in 1 .. n : more[i] = plain[i]
  <2>1. /\ Append(plain, x) \in Seq(PlainCharacters) /\ Len(plain) \in Nat
        /\ DOMAIN plain = 1 .. Len(plain)
        /\ DOMAIN Append(plain, x) = 1 .. Len(plain) + 1 /\ Append(plain, x)[Len(plain) + 1] = x
        /\ \A i \in 1 .. Len(plain) : Append(plain, x)[i] = plain[i]
    OBVIOUS
  <2> QED
    BY <2>1, Zenon
<1>2. \A i \in 1 .. n : i \in Typings(more) <=> i \in Typings(plain)
  BY <1>1 DEF Typings
<1>3. n + 1 \in Typings(more) <=> x # "nl"
  BY <1>1 DEF Typings
<1>4. /\ Len(plain) + 1 \in Typings(more) => Text!Picked(Append(plain, x), Typings(more))
                                                 = Append(Text!Picked(plain, Typings(plain)), x)
      /\ Len(plain) + 1 \notin Typings(more) => Text!Picked(Append(plain, x), Typings(more))
                                                    = Text!Picked(plain, Typings(plain))
  <2>1. PICK I, J : I = Typings(plain) /\ J = Typings(more)
    OBVIOUS
  <2>2. SameUpTo(I, J, Len(plain))
    BY <1>1, <1>2, <2>1, Zenon DEF SameUpTo
  <2>3. /\ Len(plain) + 1 \in J =>
              Text!Picked(Append(plain, x), J) = Append(Text!Picked(plain, I), x)
        /\ Len(plain) + 1 \notin J => Text!Picked(Append(plain, x), J) = Text!Picked(plain, I)
    BY <2>2, PickedMore
  <2> QED
    BY <2>1, <2>3
<1> QED
  BY <1>1, <1>3, <1>4, Zenon

\* Of an empty one it is empty.
LEMMA TypedNothing == Text!Picked(<<>>, Typings(<<>>)) = <<>>
<1>1. PICK e \in Seq(PlainCharacters) : e = <<>> /\ Len(e) = 0
  <2>1. <<>> \in Seq(PlainCharacters) /\ Len(<<>>) = 0
    OBVIOUS
  <2> QED
    BY <2>1, Zenon
<1>2. PICK h : PicksBy(h, e, Typings(e))
  BY PickedSteps, Zenon
<1> QED
  BY <1>1, <1>2, Zenon DEF PicksBy

\* The plain text holds what is shown.
LEMMA PlainIsShown ==
    ASSUME NEW tokens \in Seq(Text!Tokens), NEW g \in [0 .. Len(tokens) -> RightTexts],
           ExtractsBy(g, tokens)
    PROVE  Text!Picked(g[Len(tokens)].plain, Typings(g[Len(tokens)].plain)) = Shown(tokens)
<1> DEFINE Told(rt) == Text!Picked(rt.plain, Typings(rt.plain))
<1>0. PICK n \in Nat : n = Len(tokens) /\ DOMAIN tokens = 1 .. n
                      /\ \A i \in 1 .. n : tokens[i] \in Text!Tokens
  <2>1. Len(tokens) \in Nat /\ DOMAIN tokens = 1 .. Len(tokens)
        /\ \A i \in 1 .. Len(tokens) : tokens[i] \in Text!Tokens
    OBVIOUS
  <2> QED
    BY <2>1, Zenon
<1>1. PICK inside \in [0 .. n -> Nat] :
          /\ inside[0] = 0
          /\ \A i \in 1 .. n : inside[i] = Inside(tokens[i], inside[i - 1])
          /\ Shown(tokens) =
                Text!Picked(tokens, {i \in DOMAIN tokens :
                                        tokens[i] \in Text!Characters /\ inside[i] = 0})
  BY <1>0, ShownSteps, Zenon
<1>2. PICK I : I = {i \in DOMAIN tokens : tokens[i] \in Text!Characters /\ inside[i] = 0}
  OBVIOUS
<1>3. PICK s : /\ Text!Picked(tokens, I) = s[n]
               /\ s[0] = <<>>
               /\ \A i \in 1 .. n : s[i] = IF i \in I THEN Append(s[i - 1], tokens[i]) ELSE s[i - 1]
  <2>1. PICK s : PicksBy(s, tokens, I)
    BY PickedSteps, Zenon
  <2> QED
    BY <1>0, <2>1, Zenon DEF PicksBy
<1>4. /\ g[0] = Text!NoText
      /\ \A i \in 1 .. n : g[i] = Text!AddToken(g[i - 1], tokens[i])
  BY <1>0, Zenon DEF ExtractsBy
<1> HIDE DEF Told
<1> DEFINE T == {i \in 0 .. n : g[i].excluded = inside[i] /\ Told(g[i]) = s[i]}
<1>5. 0 \in T
  <2>1. PICK rt : rt = Text!NoText
    OBVIOUS
  <2>2. rt.plain = <<>> /\ rt.excluded = 0
    BY <2>1 DEF Text!NoText
  <2>3. Told(rt) = <<>>
    BY <2>2, TypedNothing, Zenon DEF Told
  <2>4. 0 \in 0 .. n
    OBVIOUS
  <2> QED
    BY <1>1, <1>3, <1>4, <2>1, <2>2, <2>3, <2>4, Zenon
<1>6. ASSUME NEW i \in 1 .. n, i - 1 \in T PROVE i \in T
  <2>0. i - 1 \in 0 .. n /\ i \in 0 .. n
    OBVIOUS
  <2>1. PICK rt \in RightTexts, t \in Text!Tokens : rt = g[i - 1] /\ t = tokens[i]
    BY <1>0, <2>0, Zenon
  <2>2. PICK r2 : r2 = g[i] /\ Read(r2, rt, t)
    BY <1>4, <2>1, TokensRight, Zenon
  <2>4. rt.excluded = inside[i - 1] /\ Told(rt) = s[i - 1]
    BY <1>6, <2>1, Zenon
  <2>5. r2.excluded = inside[i]
    BY <1>1, <2>1, <2>2, <2>4, Zenon DEF Read
  <2>6. i \in I <=> t \in Text!Characters /\ r2.excluded = 0
    BY <1>0, <1>2, <2>1, <2>5, Zenon
  <2>7. PICK p \in Seq(PlainCharacters) : p = rt.plain
    <3>1. rt.plain \in Seq(PlainCharacters)
      BY DEF RightTexts, ResourceTexts
    <3> QED
      BY <3>1, Zenon
  <2>8. Text!Picked(p, Typings(p)) = s[i - 1]
    BY <2>4, <2>7, Zenon DEF Told
  <2>9. Told(r2) = s[i]
    <3>1. CASE i \in I
      <4>1. t \in PlainCharacters /\ t # "nl"
        BY <2>6, <3>1, TokenFacts, Zenon DEF PlainCharacters
      <4>2. r2.plain = Append(p, t)
        BY <2>2, <2>6, <2>7, <3>1, Zenon DEF Read
      <4>3. Text!Picked(Append(p, t), Typings(Append(p, t)))
                = Append(Text!Picked(p, Typings(p)), t)
        BY <4>1, TypedMore, Zenon
      <4>4. s[i] = Append(s[i - 1], t)
        BY <1>3, <2>1, <3>1, Zenon
      <4> QED
        BY <2>8, <4>2, <4>3, <4>4, Zenon DEF Told
    <3>2. CASE i \notin I
      <4>1. s[i] = s[i - 1]
        BY <1>3, <3>2, Zenon
      <4>2. r2.plain = p \/ r2.plain = Append(p, "nl")
        BY <2>2, <2>6, <2>7, <3>2, Zenon DEF Read
      <4>3. "nl" \in PlainCharacters
        BY Zenon DEF PlainCharacters
      <4>4. Text!Picked(Append(p, "nl"), Typings(Append(p, "nl"))) = Text!Picked(p, Typings(p))
        BY <4>3, TypedMore, Zenon
      <4> QED
        BY <2>8, <4>1, <4>2, <4>4, Zenon DEF Told
    <3> QED
      BY <3>1, <3>2, Zenon
  <2> QED
    BY <2>0, <2>2, <2>5, <2>9, Zenon
<1> HIDE DEF T
<1>7. 0 .. n \subseteq T
  BY <1>5, <1>6, InductionUpTo, Zenon
<1>8. Told(g[n]) = s[n]
  <2>1. n \in 0 .. n
    OBVIOUS
  <2> QED
    BY <1>7, <2>1, Zenon DEF T
<1> QED
  BY <1>0, <1>1, <1>2, <1>3, <1>8, Zenon DEF Told

\* Where each folded character comes from: through the normalized one, from a place of
\* the plain text; unless that is a space, it ends where the next one starts.
Traced(rt, L) ==
    \A j \in 1 .. Len(rt.fold) : \E k \in 1 .. Len(rt.norm) : \E q \in 1 .. Len(rt.plain) :
       /\ rt.src[j] + 1 = k /\ rt.plainOff[k] + 1 = q
       /\ L[q - 1] < j /\ j <= L[q]
       /\ ~ Text!isSpace(rt.plain[q]) => rt.plainOff[k + 1] = q

\* What is right of a text that has been extracted.
Finished(rt, L) ==
    /\ rt.plain \in Seq(PlainCharacters) /\ rt.norm \in Seq(Text!Characters)
    /\ rt.plainOff \in Seq(Nat) /\ rt.fold \in Seq(Text!Characters) /\ rt.src \in Seq(Nat)
    /\ Len(rt.plainOff) = Len(rt.norm) + 1 /\ Len(rt.src) = Len(rt.fold)
    /\ Spread(rt.plain, rt.fold, L) /\ Traced(rt, L)
    /\ rt.norm = <<>> => rt.plain = <<>>

\* The extraction adds the end of the plain text to the places.
LEMMA EndPlace ==
    ASSUME NEW rt \in ResourceTexts, NEW r2, r2 = [rt EXCEPT !.plainOff = Append(@, Len(rt.plain))]
    PROVE  /\ r2.plain = rt.plain /\ r2.norm = rt.norm /\ r2.fold = rt.fold /\ r2.src = rt.src
           /\ r2.plainOff = Append(rt.plainOff, Len(rt.plain))
<1>1. PICK w \in Seq(Nat) : w = Append(rt.plainOff, Len(rt.plain))
  <2>1. rt.plainOff \in Seq(Nat) /\ Len(rt.plain) \in Nat
    BY DEF ResourceTexts
  <2> QED
    BY <2>1, AppendIn, Zenon
<1>2. r2 = [rt EXCEPT !.plainOff = w]
  BY <1>1, Zenon
<1>3. PICK k \in ResourceTexts : k = [rt EXCEPT !.plainOff = w]
  BY DEF ResourceTexts
<1>4. k.plain = rt.plain /\ k.norm = rt.norm /\ k.fold = rt.fold /\ k.src = rt.src /\ k.plainOff = w
  BY <1>3 DEF ResourceTexts
<1> QED
  BY <1>1, <1>2, <1>3, <1>4, Zenon

\* The text is right then.
LEMMA RightFinished ==
    ASSUME NEW rt \in ResourceTexts, NEW L, TextRight(rt, L),
           NEW r2, r2 = [rt EXCEPT !.plainOff = Append(@, Len(rt.plain))]
    PROVE  Finished(r2, L)
<1>1. PICK n \in Nat, m \in Nat, f \in Nat :
          n = Len(rt.plain) /\ m = Len(rt.norm) /\ f = Len(rt.fold)
  <2>1. Len(rt.plain) \in Nat /\ Len(rt.norm) \in Nat /\ Len(rt.fold) \in Nat
    BY DEF ResourceTexts
  <2> QED
    BY <2>1, Zenon
<1>2. /\ rt.plain \in Seq(PlainCharacters) /\ rt.norm \in Seq(Text!Characters)
      /\ rt.plainOff \in Seq(Nat) /\ rt.src \in Seq(Nat) /\ rt.fold \in Seq(Text!Characters)
  BY DEF ResourceTexts
<1>3. Spread(rt.plain, rt.fold, L) /\ Mapped(rt, L) /\ Ended(rt)
  BY Zenon DEF TextRight
<1>4. /\ r2.plain = rt.plain /\ r2.norm = rt.norm /\ r2.fold = rt.fold /\ r2.src = rt.src
      /\ r2.plainOff = Append(rt.plainOff, Len(rt.plain))
  BY EndPlace, Zenon
<1>5. Len(rt.plainOff) = m /\ Len(rt.src) = f
  BY <1>1, <1>3, Zenon DEF Mapped
<1>6. /\ r2.plainOff \in Seq(Nat) /\ Len(r2.plainOff) = m + 1 /\ r2.plainOff[m + 1] = n
      /\ \A k \in 1 .. m : r2.plainOff[k] = rt.plainOff[k]
  <2>1. PICK s \in Seq(Nat) : s = rt.plainOff
    BY <1>2, Zenon
  <2>2. PICK r : r = Append(s, n)
    OBVIOUS
  <2>3. /\ r \in Seq(Nat) /\ Len(r) = Len(s) + 1 /\ r[Len(s) + 1] = n
        /\ \A k \in 1 .. Len(s) : r[k] = s[k]
    BY <2>2
  <2> QED
    BY <1>1, <1>4, <1>5, <2>1, <2>2, <2>3
<1>7. \A k \in 1 .. m : r2.plainOff[k + 1] = NextPlace(rt, k)
  <2> SUFFICES ASSUME NEW k \in 1 .. m PROVE r2.plainOff[k + 1] = NextPlace(rt, k)
    OBVIOUS
  <2>1. CASE k = m
    BY <1>1, <1>6, <2>1 DEF NextPlace
  <2>2. CASE k # m
    <3>1. k + 1 \in 1 .. m
      BY <2>2
    <3> QED
      BY <1>1, <1>6, <2>2, <3>1 DEF NextPlace
  <2> QED
    BY <2>1, <2>2
<1>8. ASSUME NEW j \in 1 .. f
      PROVE  \E k \in 1 .. m : \E q \in 1 .. n :
                /\ r2.src[j] + 1 = k /\ r2.plainOff[k] + 1 = q
                /\ L[q - 1] < j /\ j <= L[q]
                /\ ~ Text!isSpace(r2.plain[q]) => r2.plainOff[k + 1] = q
  <2>1. rt.src[j] \in Nat /\ rt.src[j] + 1 \in 1 .. m
    BY <1>1, <1>3, MappedFacts
  <2>2. PICK k \in 1 .. m : k = rt.src[j] + 1
    BY <2>1
  <2>3. L[rt.plainOff[k]] < j /\ j <= L[rt.plainOff[k] + 1]
    BY <1>1, <1>3, <2>2 DEF Mapped
  <2>4. /\ rt.plainOff[k] \in Nat /\ NextPlace(rt, k) \in Nat
        /\ rt.plainOff[k] < NextPlace(rt, k) /\ NextPlace(rt, k) <= n
    BY <1>1, <1>3, MappedFacts
  <2>5. PICK q \in 1 .. n : q = rt.plainOff[k] + 1 /\ q - 1 = rt.plainOff[k]
    BY <2>4
  <2>6. ~ Text!isSpace(rt.plain[q]) => NextPlace(rt, k) = q
    <3> SUFFICES ASSUME NextPlace(rt, k) # q PROVE Text!isSpace(rt.plain[q])
      OBVIOUS
    <3>1. q \in rt.plainOff[k] + 1 .. NextPlace(rt, k) - 1
      BY <2>4, <2>5
    <3> QED
      BY <1>1, <1>3, <3>1 DEF Mapped
  <2>7. r2.src[j] + 1 = k /\ r2.plainOff[k] + 1 = q
    BY <1>4, <1>6, <2>2, <2>5
  <2>8. L[q - 1] < j /\ j <= L[q]
    BY <2>3, <2>5
  <2>9. ~ Text!isSpace(r2.plain[q]) => r2.plainOff[k + 1] = q
    BY <1>4, <1>7, <2>6
  <2> QED
    BY <2>7, <2>8, <2>9, Zenon
<1>9. Traced(r2, L)
  <2>1. Len(r2.fold) = f /\ Len(r2.norm) = m /\ Len(r2.plain) = n
    BY <1>1, <1>4, Zenon
  <2> QED
    BY <1>8, <2>1 DEF Traced
<1>10. r2.norm = <<>> => r2.plain = <<>>
  BY <1>3, <1>4, Zenon DEF Ended
<1>11. Len(r2.plainOff) = Len(r2.norm) + 1 /\ Len(r2.src) = Len(r2.fold)
  <2>1. Len(r2.norm) = m /\ Len(r2.src) = Len(rt.src) /\ Len(r2.fold) = Len(rt.fold)
    BY <1>1, <1>4, Zenon
  <2>2. Len(r2.plainOff) = m + 1
    BY <1>6, Zenon
  <2>3. Len(r2.src) = Len(r2.fold)
    BY <1>1, <1>5, <2>1, Zenon
  <2> QED
    BY <2>1, <2>2, <2>3, Zenon
<1> QED
  BY <1>2, <1>3, <1>4, <1>6, <1>9, <1>10, <1>11, Zenon DEF Finished

\* A resource is extracted as it should be, and what is shown is in its plain text.
LEMMA Extracted ==
    ASSUME NEW tokens \in Seq(Text!Tokens), NEW rt, rt = Text!extractResource(tokens)
    PROVE  /\ \E L : Finished(rt, L)
           /\ Text!Picked(rt.plain, Typings(rt.plain)) = Shown(tokens)
<1>1. PICK g \in [0 .. Len(tokens) -> RightTexts] :
          /\ ExtractsBy(g, tokens)
          /\ Text!extractResource(tokens) =
                [g[Len(tokens)] EXCEPT !.plainOff = Append(@, Len(g[Len(tokens)].plain))]
  BY ExtractionSteps, Zenon
<1>2. PICK r0 : r0 = g[Len(tokens)]
  OBVIOUS
<1>3. Text!Picked(r0.plain, Typings(r0.plain)) = Shown(tokens)
  BY <1>1, <1>2, PlainIsShown, Zenon
<1>4. r0 \in RightTexts
  <2>1. Len(tokens) \in 0 .. Len(tokens)
    OBVIOUS
  <2> QED
    BY <1>1, <1>2, <2>1, Zenon
<1>5. r0 \in ResourceTexts /\ \E L : TextRight(r0, L)
  BY <1>4, Zenon DEF RightTexts
<1>6. rt = [r0 EXCEPT !.plainOff = Append(@, Len(r0.plain))]
  BY <1>1, <1>2, Zenon
<1>7. \E L : Finished(rt, L)
  BY <1>5, <1>6, RightFinished, Zenon
<1>8. rt.plain = r0.plain
  BY <1>5, <1>6, EndPlace, Zenon
<1> QED
  BY <1>3, <1>7, <1>8, Zenon

\* The image of a character: a space of a space, and a word rune of one.
LEMMA ImageFacts ==
    ASSUME NEW x \in PlainCharacters
    PROVE  /\ Image(x) = Blank <=> Text!isSpace(x)
           /\ Text!isWordRune(Image(x)) <=> Text!isWordRune(x)
           /\ Text!isSpace(x) => x # "sz"
           /\ Text!isWordRune(Image(x)) <=> Image(x) = "s"
           /\ x = "sz" => Text!isWordRune(x)
<1>1. x \in Text!Characters \/ x = "nl"
  BY Zenon DEF PlainCharacters
<1>2. x = "s" \/ x = "sz" \/ x = "." \/ x = Blank \/ x = "nl"
  BY <1>1, CharacterFacts, Zenon
<1>3. /\ Blank # "sz" /\ Blank # "s" /\ Blank # "." /\ Blank # "nl"
      /\ Text!isSpace(x) <=> x = Blank \/ x = "nl"
  BY BlankFacts, Zenon
<1>4. \A c : Text!isWordRune(c) <=> c = "s" \/ c = "sz"
  BY Zenon DEF Text!isWordRune
<1>5. "s" # "sz" /\ "s" # "." /\ "sz" # "." /\ "s" # "nl" /\ "sz" # "nl" /\ "." # "nl"
  OBVIOUS
<1> QED
  BY <1>2, <1>3, <1>4, <1>5 DEF Image

\* The folded text up to a place ends with the image of its character; and begins with
\* that behind the place before, unless it adds none.
LEMMA SpreadEnds ==
    ASSUME NEW plain \in Seq(PlainCharacters), NEW fold, NEW L, Spread(plain, fold, L)
    PROVE  \A q \in 1 .. Len(plain) :
              /\ L[q] \in Nat /\ L[q - 1] \in Nat /\ L[q] >= 1 /\ L[q] <= Len(fold)
              /\ fold[L[q]] = Image(plain[q])
              /\ L[q - 1] < L[q] => fold[L[q - 1] + 1] = Image(plain[q])
              /\ ~ Text!isSpace(plain[q]) => L[q - 1] < L[q]
              /\ q > 1 /\ ~ Text!isSpace(plain[q - 1]) => L[q - 1] < L[q]
              /\ L[q] = L[q - 1] + Width(plain, q)
<1>0. PICK n \in Nat : n = Len(plain)
  <2>1. Len(plain) \in Nat
    OBVIOUS
  <2> QED
    BY <2>1, Zenon
<1>1. /\ L \in [0 .. n -> Nat] /\ L[0] = 0
      /\ \A q \in 1 .. n : L[q] = L[q - 1] + Width(plain, q)
      /\ Len(fold) = L[n]
      /\ \A q \in 1 .. n : \A j \in L[q - 1] + 1 .. L[q] : fold[j] = Image(plain[q])
  BY <1>0, Zenon DEF Spread
<1>2. \A q \in 1 .. n : Width(plain, q) \in {0, 1, 2}
                        /\ (Width(plain, q) = 0 => /\ q > 1 /\ Text!isSpace(plain[q])
                                                   /\ Text!isSpace(plain[q - 1]))
  BY DEF Width
<1>3. ASSUME NEW q \in 1 .. n PROVE L[q] \in Nat /\ L[q - 1] \in Nat /\ L[q] <= Len(fold)
  <2>1. q \in 0 .. n /\ q - 1 \in 0 .. n /\ n \in 0 .. n /\ q <= n
    OBVIOUS
  <2>2. \A i \in 0 .. n : \A j \in 0 .. n : i <= j => L[i] <= L[j]
    BY <1>0, SpreadAscends
  <2> QED
    BY <1>1, <2>1, <2>2
<1>4. ASSUME NEW q \in 1 .. n, L[q - 1] < L[q]
      PROVE  fold[L[q - 1] + 1] = Image(plain[q]) /\ fold[L[q]] = Image(plain[q])
  <2>1. L[q - 1] + 1 \in L[q - 1] + 1 .. L[q] /\ L[q] \in L[q - 1] + 1 .. L[q]
    BY <1>3, <1>4
  <2> QED
    BY <1>1, <2>1
<1> DEFINE T == {q \in 0 .. n : q >= 1 => L[q] >= 1 /\ fold[L[q]] = Image(plain[q])}
<1>5. 0 \in T
  OBVIOUS
<1>6. ASSUME NEW q \in 1 .. n, q - 1 \in T PROVE q \in T
  <2>1. L[q] = L[q - 1] + Width(plain, q) /\ L[q] \in Nat /\ L[q - 1] \in Nat
    BY <1>1, <1>3
  <2>2. CASE Width(plain, q) = 0
    <3>1. q > 1 /\ Text!isSpace(plain[q]) /\ Text!isSpace(plain[q - 1])
      BY <1>2, <2>2
    <3>2. L[q - 1] >= 1 /\ fold[L[q - 1]] = Image(plain[q - 1])
      BY <1>6, <3>1
    <3>3. Image(plain[q - 1]) = Image(plain[q])
      BY <3>1, Zenon DEF Image
    <3>4. L[q] = L[q - 1]
      BY <2>1, <2>2
    <3> QED
      BY <3>2, <3>3, <3>4
  <2>3. CASE Width(plain, q) # 0
    <3>1. L[q - 1] < L[q] /\ L[q] >= 1
      BY <1>2, <2>1, <2>3
    <3> QED
      BY <1>4, <3>1
  <2> QED
    BY <2>2, <2>3
<1> HIDE DEF T
<1>7. 0 .. n \subseteq T
  BY <1>5, <1>6, InductionUpTo, Zenon
<1>8. ASSUME NEW q \in 1 .. n
      PROVE  /\ L[q] >= 1 /\ fold[L[q]] = Image(plain[q])
             /\ ~ Text!isSpace(plain[q]) => L[q - 1] < L[q]
             /\ q > 1 /\ ~ Text!isSpace(plain[q - 1]) => L[q - 1] < L[q]
  <2>1. q \in T /\ q >= 1
    BY <1>7
  <2>2. L[q] = L[q - 1] + Width(plain, q)
    BY <1>1
  <2>3. Width(plain, q) # 0 => L[q - 1] < L[q]
    <3>1. PICK w \in {0, 1, 2} : w = Width(plain, q)
      BY <1>2, Zenon
    <3>2. L[q] = L[q - 1] + w /\ L[q - 1] \in Nat /\ L[q] \in Nat
      BY <1>3, <2>2, <3>1
    <3>3. w # 0 => L[q - 1] < L[q]
      BY <3>2
    <3> QED
      BY <3>1, <3>3, Zenon
  <2>4. L[q] >= 1 /\ fold[L[q]] = Image(plain[q])
    BY <2>1 DEF T
  <2> QED
    BY <1>2, <2>3, <2>4
<1> QED
  BY <1>0, <1>1, <1>3, <1>4, <1>8, Zenon

\* The same, with the two lengths as numbers.
EndsBy(plain, fold, L, n, f) ==
    \A q \in 1 .. n :
       /\ L[q] \in Nat /\ L[q - 1] \in Nat /\ L[q] >= 1 /\ L[q] <= f
       /\ fold[L[q]] = Image(plain[q])
       /\ L[q - 1] < L[q] => fold[L[q - 1] + 1] = Image(plain[q])
       /\ ~ Text!isSpace(plain[q]) => L[q - 1] < L[q]
       /\ q > 1 /\ ~ Text!isSpace(plain[q - 1]) => L[q - 1] < L[q]
       /\ L[q] = L[q - 1] + Width(plain, q)
LEMMA SpreadEndsBy ==
    ASSUME NEW plain \in Seq(PlainCharacters), NEW fold, NEW L, Spread(plain, fold, L),
           NEW n, n = Len(plain), NEW f, f = Len(fold)
    PROVE  EndsBy(plain, fold, L, n, f)
<1> SUFFICES ASSUME NEW q \in 1 .. n
             PROVE
             /\ L[q] \in Nat /\ L[q - 1] \in Nat /\ L[q] >= 1 /\ L[q] <= f
             /\ fold[L[q]] = Image(plain[q])
             /\ L[q - 1] < L[q] => fold[L[q - 1] + 1] = Image(plain[q])
             /\ ~ Text!isSpace(plain[q]) => L[q - 1] < L[q]
             /\ q > 1 /\ ~ Text!isSpace(plain[q - 1]) => L[q - 1] < L[q]
             /\ L[q] = L[q - 1] + Width(plain, q)
  BY Zenon DEF EndsBy
<1>1. q \in 1 .. Len(plain)
  OBVIOUS
<1>2.
      /\ L[q] \in Nat /\ L[q - 1] \in Nat /\ L[q] >= 1 /\ L[q] <= Len(fold)
      /\ fold[L[q]] = Image(plain[q])
      /\ L[q - 1] < L[q] => fold[L[q - 1] + 1] = Image(plain[q])
      /\ ~ Text!isSpace(plain[q]) => L[q - 1] < L[q]
      /\ q > 1 /\ ~ Text!isSpace(plain[q - 1]) => L[q - 1] < L[q]
      /\ L[q] = L[q - 1] + Width(plain, q)
  BY <1>1, SpreadEnds, Zenon
<1> QED
  BY <1>2, Zenon

\* Two sequences with the same elements are the same.
LEMMA SameSequence ==
    ASSUME NEW S, NEW s \in Seq(S), NEW t \in Seq(S), Len(s) = Len(t),
           \A i \in 1 .. Len(s) : s[i] = t[i]
    PROVE  s = t
  OBVIOUS

\* A part of a sequence.
LEMMA PartOf ==
    ASSUME NEW S, NEW s \in Seq(S), NEW a \in Nat, NEW b \in Nat, a <= b, b <= Len(s)
    PROVE  /\ SubSeq(s, a + 1, b) \in Seq(S) /\ Len(SubSeq(s, a + 1, b)) = b - a
           /\ \A i \in 1 .. b - a : SubSeq(s, a + 1, b)[i] = s[a + i]
  OBVIOUS

\* Stripped leaves a sequence that neither starts nor ends with a space, and one that
\* does not as it is.
LEMMA StrippedFacts ==
    ASSUME NEW s \in Seq(Text!Characters)
    PROVE  /\ Text!Stripped(s) \in Seq(Text!Characters)
           /\ Text!Stripped(s) # <<>> =>
                 /\ Text!Stripped(s)[1] # Blank
                 /\ Text!Stripped(s)[Len(Text!Stripped(s))] # Blank
           /\ s # <<>> /\ s[1] # Blank /\ s[Len(s)] # Blank => Text!Stripped(s) = s
<1>0. PICK n \in Nat : n = Len(s) /\ DOMAIN s = 1 .. n
  <2>1. Len(s) \in Nat /\ DOMAIN s = 1 .. Len(s)
    OBVIOUS
  <2> QED
    BY <2>1, Zenon
<1>1. PICK kept : kept = {i \in 1 .. n : s[i] # Blank}
  OBVIOUS
<1>2. Text!Stripped(s) = IF kept = {} THEN <<>> ELSE SubSeq(s, Text!Min(kept), Text!Max(kept))
  BY <1>0, <1>1, Zenon DEF Text!Stripped, Blank
<1>3. CASE kept = {}
  <2>1. Text!Stripped(s) = <<>>
    BY <1>2, <1>3, Zenon
  <2>2. <<>> \in Seq(Text!Characters)
    OBVIOUS
  <2>3. s # <<>> => 1 \in 1 .. n
    BY <1>0
  <2>4. ~ (s # <<>> /\ s[1] # Blank)
    BY <1>1, <1>3, <2>3
  <2> QED
    BY <2>1, <2>2, <2>4, Zenon
<1>4. CASE kept # {}
  <2>1. \A i \in kept : i \in Int /\ 1 <= i /\ i <= n
    BY <1>1
  <2>5. 1 \in Int /\ n \in Int
    OBVIOUS
  <2>2. Text!Min(kept) \in kept /\ \A x \in kept : Text!Min(kept) <= x
    BY <1>4, <2>1, <2>5, LeastOf, Zenon
  <2>3. Text!Max(kept) \in kept /\ \A x \in kept : x <= Text!Max(kept)
    BY <1>4, <2>1, <2>5, GreatestOf, Zenon
  <2>4. PICK a \in kept, b \in kept :
           /\ a = Text!Min(kept) /\ b = Text!Max(kept)
           /\ \A x \in kept : a <= x /\ x <= b
    BY <2>2, <2>3, Zenon
  <2>6. a \in 1 .. n /\ b \in 1 .. n /\ a <= b /\ s[a] # Blank /\ s[b] # Blank
    BY <1>1, <2>4
  <2>7. PICK t : t = SubSeq(s, a, b)
    OBVIOUS
  <2>8. /\ t \in Seq(Text!Characters) /\ Len(t) = b - a + 1
        /\ \A i \in 1 .. b - a + 1 : t[i] = s[a + i - 1]
    BY <1>0, <2>6, <2>7
  <2>9. Text!Stripped(s) = t
    BY <1>2, <1>4, <2>4, <2>7, Zenon
  <2>10. t[1] # Blank /\ t[Len(t)] # Blank
    <3>1. 1 \in 1 .. b - a + 1 /\ a + 1 - 1 = a /\ b - a + 1 \in 1 .. b - a + 1
          /\ a + (b - a + 1) - 1 = b
      BY <2>6
    <3> QED
      BY <2>6, <2>8, <3>1
  <2>11. s # <<>> /\ s[1] # Blank /\ s[Len(s)] # Blank => t = s
    <3> SUFFICES ASSUME s # <<>>, s[1] # Blank, s[Len(s)] # Blank PROVE t = s
      OBVIOUS
    <3>1. 1 \in 1 .. n /\ n \in 1 .. n
      BY <1>0
    <3>2. 1 \in kept /\ n \in kept
      BY <1>0, <1>1, <3>1
    <3>3. a = 1 /\ b = n
      BY <2>4, <2>6, <3>2
    <3>4. Len(t) = Len(s)
      BY <1>0, <2>8, <3>3
    <3>5. \A i \in 1 .. Len(t) : t[i] = s[i]
      BY <1>0, <2>8, <3>3
    <3> QED
      BY <2>8, <3>4, <3>5, SameSequence
  <2> QED
    BY <2>8, <2>9, <2>10, <2>11, Zenon
<1> QED
  BY <1>3, <1>4

\* The folded text behind each character of a query.
FoldStep(c, x, r) ==
    /\ ~ Text!isSpace(c) => r = x \o Text!foldRune(c)
    /\ Text!isSpace(c) /\ (x = <<>> \/ x[Len(x)] = Blank) => r = x
    /\ Text!isSpace(c) /\ x # <<>> /\ x[Len(x)] # Blank => r = Append(x, Blank)
FoldsBy(g, characters) ==
    /\ g[0] = <<>>
    /\ \A i \in 1 .. Len(characters) : FoldStep(characters[i], g[i - 1], g[i])
    /\ Text!foldAndNormalize(characters) = Text!Stripped(g[Len(characters)])

\* The function that foldAndNormalize computes.
Folding(f, characters) ==
    f = [i \in 0 .. Len(characters) |->
            IF i = 0 THEN <<>>
            ELSE IF ~Text!isSpace(characters[i]) THEN f[i - 1] \o Text!foldRune(characters[i])
            ELSE IF f[i - 1] = <<>> \/ Text!Last(f[i - 1]) = " " THEN f[i - 1]
            ELSE Append(f[i - 1], " ")]

\* foldAndNormalize goes character by character.
LEMMA FoldSteps ==
    ASSUME NEW characters \in Seq(PlainCharacters)
    PROVE  \E g \in [0 .. Len(characters) -> Seq(Text!Characters)] : FoldsBy(g, characters)
<1> DEFINE n == Len(characters)
           M == Seq(Text!Characters)
           e == <<>>
           after(i, x) == IF ~Text!isSpace(characters[i]) THEN x \o Text!foldRune(characters[i])
                         ELSE IF x = <<>> \/ Text!Last(x) = " " THEN x
                         ELSE Append(x, " ")
           step == [i \in 1 .. n |-> [x \in M |-> after(i, x)]]
           g == CHOOSE f : Folding(f, characters)
<1>1. n \in Nat /\ e \in M /\ \A i \in 1 .. n : characters[i] \in PlainCharacters
  OBVIOUS
<1>2. \A i \in 1 .. n : \A x \in M : after(i, x) \in M
  <2> SUFFICES ASSUME NEW i \in 1 .. n, NEW x \in M PROVE after(i, x) \in M
    BY Zenon
  <2>1. CASE ~Text!isSpace(characters[i])
    <3>1. characters[i] \in Text!Characters
      BY <1>1, <2>1, BlankFacts, Zenon DEF PlainCharacters
    <3>2. Text!foldRune(characters[i]) \in M
      BY <1>1, <3>1, FoldRune, Zenon
    <3>3. x \o Text!foldRune(characters[i]) \in M
      BY <3>2, ConcatIn, Zenon
    <3> QED
      BY <2>1, <3>3, Zenon
  <2>2. CASE Text!isSpace(characters[i])
    <3>1. Append(x, " ") \in M
      BY BlankFacts, AppendIn, Zenon DEF Blank
    <3> QED
      BY <2>2, <3>1, Zenon
  <2> QED
    BY <2>1, <2>2, Zenon
<1>3. step \in [1 .. n -> [M -> M]]
  <2> HIDE DEF after, M
  <2> QED
    BY <1>2
<1>4. PICK f \in [0 .. n -> M] : f[0] = e /\ \A i \in 1 .. n : f[i] = step[i][f[i - 1]]
  <2> HIDE DEF step, M, e, n
  <2>1. PICK f \in [0 .. n -> M] : GoesBy(f, n, e, step)
    BY <1>1, <1>3, Recursion, Zenon
  <2> QED
    BY <2>1, Zenon DEF GoesBy
<1>5. ASSUME NEW i \in 1 .. n PROVE f[i] = after(i, f[i - 1])
  <2>1. i - 1 \in 0 .. n
    OBVIOUS
  <2>2. f[i - 1] \in M
    BY <1>4, <2>1, Zenon
  <2>3. step[i][f[i - 1]] = after(i, f[i - 1])
    <3> HIDE DEF after, M
    <3> QED
      BY <2>2
  <2> HIDE DEF step
  <2> QED
    BY <1>4, <2>3, Zenon
<1>6. Folding(f, characters)
  <2>1. ASSUME NEW i \in 0 .. n PROVE f[i] = IF i = 0 THEN e ELSE after(i, f[i - 1])
    <3>1. CASE i = 0
      BY <1>4, <3>1, Zenon
    <3>2. CASE i # 0
      <4>1. i \in 1 .. n
        BY <3>2
      <4> QED
        BY <1>5, <3>2, <4>1, Zenon
    <3> QED
      BY <3>1, <3>2, Zenon
  <2>2. f = [i \in 0 .. n |-> f[i]]
    BY <1>4, Zenon
  <2>3. f = [i \in 0 .. n |-> IF i = 0 THEN e ELSE after(i, f[i - 1])]
    <3> HIDE DEF after
    <3> QED
      BY <2>1, <2>2
  <2> QED
    BY <2>3, Zenon DEF Folding
<1>7. Folding(g, characters)
  BY <1>6, Zenon
<1>8. Text!foldAndNormalize(characters) = Text!Stripped(g[n])
  BY Zenon DEF Text!foldAndNormalize, Folding
<1> HIDE DEF g
<1>9. g = [i \in 0 .. n |-> IF i = 0 THEN e ELSE after(i, g[i - 1])]
  BY <1>7, Zenon DEF Folding
<1> HIDE DEF after, e, M
<1>10. g[0] = e /\ \A i \in 1 .. n : g[i] = after(i, g[i - 1])
  <2>1. \A i \in 0 .. n : g[i] = IF i = 0 THEN e ELSE after(i, g[i - 1])
    BY <1>9, Zenon
  <2>2. 0 \in 0 .. n /\ \A i \in 1 .. n : i # 0 /\ i \in 0 .. n
    BY <1>1
  <2> QED
    BY <2>1, <2>2, Zenon
<1>11. \A i \in 0 .. n : g[i] \in M
  <2>1. \A i \in 1 .. n : g[i - 1] \in M => g[i] \in M
    BY <1>2, <1>10, Zenon
  <2>2. g[0] \in M
    BY <1>1, <1>10, Zenon
  <2> HIDE DEF n
  <2> QED
    BY <1>1, <2>1, <2>2, StaysIn
<1>12. g \in [0 .. n -> M]
  BY <1>9, <1>11
<1>13. \A i \in 1 .. n : FoldStep(characters[i], g[i - 1], g[i])
  BY <1>10, Zenon DEF FoldStep, after, Text!Last, Blank
<1> QED
  BY <1>8, <1>10, <1>12, <1>13, Zenon DEF FoldsBy, e, M

\* A sequence is the part of another from place a up to b.
IsPartFrom(s, fold, a, b) == Len(s) = b - a /\ \A j \in 1 .. Len(s) : s[j] = fold[a + j]

\* A sequence and an element behind it.
LEMMA AppendedFacts ==
    ASSUME NEW S, NEW s \in Seq(S), NEW c \in S, NEW r, r = Append(s, c)
    PROVE  /\ r \in Seq(S) /\ Len(r) = Len(s) + 1 /\ r[Len(s) + 1] = c
           /\ \A j \in 1 .. Len(s) : r[j] = s[j]
  OBVIOUS

\* What a place of the plain text adds to the a folded characters up to b: w of them.
\* d is the place before it.
NextAdds(fold, a, b, w, c, d) ==
    /\ w = (IF c = "sz" THEN 2
            ELSE IF a < b /\ Text!isSpace(c) /\ Text!isSpace(d) THEN 0 ELSE 1)
    /\ \A j \in b + 1 .. b + w : fold[j] = Image(c)
    /\ a < b => fold[b] = Image(d)
    /\ Text!isSpace(c) => a < b

\* The folded text of a phrase goes on with what the next place adds.
LEMMA PhraseStep ==
    ASSUME NEW fold \in Seq(Text!Characters), NEW a \in Nat, NEW b \in Nat, NEW w \in {0, 1, 2},
           a <= b, NEW c \in PlainCharacters, NEW d \in PlainCharacters,
           NextAdds(fold, a, b, w, c, d),
           NEW x \in Seq(Text!Characters), IsPartFrom(x, fold, a, b),
           NEW r \in Seq(Text!Characters), FoldStep(c, x, r)
    PROVE  IsPartFrom(r, fold, a, b + w)
<1>0. /\ w = (IF c = "sz" THEN 2
              ELSE IF a < b /\ Text!isSpace(c) /\ Text!isSpace(d) THEN 0 ELSE 1)
      /\ \A j \in b + 1 .. b + w : fold[j] = Image(c)
      /\ a < b => fold[b] = Image(d)
      /\ Text!isSpace(c) => a < b
  BY Zenon DEF NextAdds
<1>1. Len(x) = b - a /\ \A j \in 1 .. b - a : x[j] = fold[a + j]
  BY DEF IsPartFrom
<1>2. CASE ~ Text!isSpace(c)
  <2>1. PICK y : y = Text!foldRune(c)
    OBVIOUS
  <2>2. c \in Text!Characters
    BY <1>2, BlankFacts, Zenon DEF PlainCharacters
  <2>3. /\ y \in Seq(Text!Characters)
        /\ Len(y) = IF c = "sz" THEN 2 ELSE 1
        /\ \A i \in 1 .. Len(y) : y[i] = IF c = "sz" THEN "s" ELSE c
    BY <2>1, <2>2, FoldRune, Zenon
  <2>4. Len(y) = w
    BY <1>0, <1>2, <2>3
  <2>5. \A i \in 1 .. w : y[i] = Image(c)
    BY <1>2, <2>3, <2>4, Zenon DEF Image
  <2>6. r = x \o y
    BY <1>2, <2>1, Zenon DEF FoldStep
  <2>7. /\ Len(r) = (b - a) + w
        /\ \A j \in 1 .. b - a : r[j] = x[j]
        /\ \A j \in b - a + 1 .. b - a + w : r[j] = y[j - (b - a)]
    <3>1. /\ Len(r) = Len(x) + Len(y)
          /\ \A j \in 1 .. Len(x) : r[j] = x[j]
          /\ \A j \in 1 .. Len(y) : r[Len(x) + j] = y[j]
      <4>1. y \in Seq(Text!Characters)
        BY <2>3, Zenon
      <4> QED
        BY <2>6, <4>1
    <3>2. ASSUME NEW j \in b - a + 1 .. b - a + w PROVE r[j] = y[j - (b - a)]
      <4>1. PICK i \in 1 .. w : i = j - (b - a) /\ (b - a) + i = j
        OBVIOUS
      <4> QED
        BY <1>1, <2>4, <3>1, <4>1
    <3> QED
      BY <1>1, <2>4, <3>1, <3>2
  <2>8. ASSUME NEW j \in 1 .. b - a + w PROVE r[j] = fold[a + j]
    <3>1. CASE j <= b - a
      BY <1>1, <2>7, <3>1
    <3>2. CASE j > b - a
      <4>1. j - (b - a) \in 1 .. w /\ j \in b - a + 1 .. b - a + w /\ a + j \in b + 1 .. b + w
        BY <3>2
      <4> QED
        BY <1>0, <2>5, <2>7, <4>1
    <3> QED
      BY <3>1, <3>2
  <2> QED
    BY <2>7, <2>8 DEF IsPartFrom
<1>3. CASE Text!isSpace(c)
  <2>1. c # "sz" /\ Image(c) = Blank /\ a < b
    BY <1>0, <1>3, BlankFacts, Zenon DEF Image
  <2>2. x # <<>> /\ x[Len(x)] = Image(d)
    <3>1. Len(x) # 0 /\ Len(x) \in 1 .. b - a /\ a + Len(x) = b
      <4>1. PICK m \in Nat : m = Len(x)
        OBVIOUS
      <4>2. m = b - a /\ a < b
        BY <1>1, <2>1, <4>1, Zenon
      <4>3. m # 0 /\ m \in 1 .. b - a /\ a + m = b
        BY <4>2
      <4> QED
        BY <4>1, <4>3, Zenon
    <3>2. x[Len(x)] = fold[b]
      BY <1>1, <3>1
    <3> QED
      BY <1>0, <2>1, <3>1, <3>2
  <2>3. Image(d) = Blank <=> Text!isSpace(d)
    BY ImageFacts, Zenon
  <2>4. CASE Text!isSpace(d)
    <3>1. r = x
      BY <1>3, <2>2, <2>3, <2>4, Zenon DEF FoldStep
    <3>2. w = 0
      BY <1>0, <1>3, <2>1, <2>4
    <3> QED
      BY <1>1, <3>1, <3>2 DEF IsPartFrom
  <2>5. CASE ~ Text!isSpace(d)
    <3>1. r = Append(x, Blank)
      BY <1>3, <2>2, <2>3, <2>5, Zenon DEF FoldStep
    <3>2. w = 1
      BY <1>0, <2>1, <2>5
    <3>3. Blank \in Text!Characters
      BY BlankFacts, Zenon
    <3>4. /\ Len(r) = (b - a) + 1 /\ r[(b - a) + 1] = Blank
          /\ \A j \in 1 .. b - a : r[j] = x[j]
      <4>1. /\ Len(r) = Len(x) + 1 /\ r[Len(x) + 1] = Blank
            /\ \A j \in 1 .. Len(x) : r[j] = x[j]
        BY <3>1, <3>3, AppendedFacts
      <4> QED
        BY <1>1, <4>1
    <3>5. fold[b + 1] = Blank
      BY <1>0, <2>1, <3>2
    <3>6. ASSUME NEW j \in 1 .. (b - a) + 1 PROVE r[j] = fold[a + j]
      <4>1. CASE j = (b - a) + 1
        <5>1. a + j = b + 1
          BY <4>1
        <5> QED
          BY <3>4, <3>5, <4>1, <5>1
      <4>2. CASE j # (b - a) + 1
        <5>1. j \in 1 .. b - a
          BY <4>2
        <5> QED
          BY <1>1, <3>4, <5>1
      <4> QED
        BY <4>1, <4>2
    <3> QED
      BY <3>2, <3>4, <3>6 DEF IsPartFrom
  <2> QED
    BY <2>4, <2>5
<1> QED
  BY <1>2, <1>3

\* A part of the plain text is a phrase, and the part of the folded one it comes from.
ReadsAs(plain, fold, L, lo, hi) == Phrase(plain, lo, hi) = SubSeq(fold, L[lo] + 1, L[hi])

\* A phrase that neither starts nor ends with a space is the part of the folded text
\* that comes from it.
LEMMA PhraseOf ==
    ASSUME NEW plain \in Seq(PlainCharacters), NEW fold \in Seq(Text!Characters), NEW L,
           Spread(plain, fold, L), NEW lo \in Nat, NEW hi \in Nat, lo < hi, hi <= Len(plain),
           ~ Text!isSpace(plain[lo + 1]), ~ Text!isSpace(plain[hi])
    PROVE  ReadsAs(plain, fold, L, lo, hi)
<1>0. PICK n \in Nat, f \in Nat : n = Len(plain) /\ f = Len(fold)
  <2>1. Len(plain) \in Nat /\ Len(fold) \in Nat
    OBVIOUS
  <2> QED
    BY <2>1, Zenon
<1>1. \A q \in 1 .. n :
              /\ L[q] \in Nat /\ L[q - 1] \in Nat /\ L[q] >= 1 /\ L[q] <= f
              /\ fold[L[q]] = Image(plain[q])
              /\ L[q - 1] < L[q] => fold[L[q - 1] + 1] = Image(plain[q])
              /\ ~ Text!isSpace(plain[q]) => L[q - 1] < L[q]
              /\ q > 1 /\ ~ Text!isSpace(plain[q - 1]) => L[q - 1] < L[q]
              /\ L[q] = L[q - 1] + Width(plain, q)
  <2>1. EndsBy(plain, fold, L, n, f)
    BY <1>0, SpreadEndsBy, Zenon
  <2> QED
    BY <2>1, Zenon DEF EndsBy
<1>2. \A i \in 0 .. n : \A j \in 0 .. n : i <= j => L[i] <= L[j]
  BY <1>0, SpreadAscends, Zenon
<1>3. PICK k \in Nat : k = hi - lo /\ k >= 1 /\ lo + k = hi
  OBVIOUS
<1>4. PICK c : c = SubSeq(plain, lo + 1, hi)
  OBVIOUS
<1>5. c \in Seq(PlainCharacters) /\ Len(c) = k /\ \A i \in 1 .. k : c[i] = plain[lo + i]
  <2>1. lo <= hi
    OBVIOUS
  <2>2. c \in Seq(PlainCharacters) /\ Len(c) = hi - lo
        /\ \A i \in 1 .. hi - lo : c[i] = plain[lo + i]
    <3>1. /\ SubSeq(plain, lo + 1, hi) \in Seq(PlainCharacters)
          /\ Len(SubSeq(plain, lo + 1, hi)) = hi - lo
          /\ \A i \in 1 .. hi - lo : SubSeq(plain, lo + 1, hi)[i] = plain[lo + i]
      BY <2>1, PartOf, ZenonT(40)
    <3> QED
      BY <1>4, <3>1, Zenon
  <2> QED
    BY <1>3, <2>2, Zenon
<1>6. PICK g \in [0 .. k -> Seq(Text!Characters)] : FoldsBy(g, c)
  BY <1>5, FoldSteps, Zenon
<1>7. /\ g[0] = <<>> /\ \A i \in 1 .. k : FoldStep(c[i], g[i - 1], g[i])
      /\ Text!foldAndNormalize(c) = Text!Stripped(g[k])
  BY <1>5, <1>6, Zenon DEF FoldsBy
<1> DEFINE T == {i \in 0 .. k : IsPartFrom(g[i], fold, L[lo], L[lo + i])}
<1>8. L[lo] \in Nat
  <2>1. lo + 1 \in 1 .. n /\ (lo + 1) - 1 = lo
    BY <1>0
  <2> QED
    BY <1>1, <2>1
<1>9. 0 \in T
  <2>1. Len(g[0]) = 0 /\ lo + 0 = lo /\ L[lo] - L[lo] = 0
    BY <1>7, <1>8
  <2>2. IsPartFrom(g[0], fold, L[lo], L[lo + 0])
    BY <2>1 DEF IsPartFrom
  <2> QED
    BY <2>2
<1>10. ASSUME NEW i \in 1 .. k, i - 1 \in T PROVE i \in T
  <2>1. PICK q \in 1 .. n : q = lo + i /\ q - 1 = lo + (i - 1)
    BY <1>0, <1>3
  <2>2. PICK a \in Nat, b \in Nat : a = L[lo] /\ b = L[q - 1]
    BY <1>1, <1>8, Zenon
  <2>3. a <= b
    <3>1. lo \in 0 .. n /\ q - 1 \in 0 .. n /\ lo <= q - 1
      BY <1>0, <2>1
    <3> QED
      BY <1>2, <2>2, <3>1, Zenon
  <2>4. PICK w \in {0, 1, 2} : w = Width(plain, q)
    <3>1. Width(plain, q) \in {0, 1, 2}
      BY DEF Width
    <3> QED
      BY <3>1, Zenon
  <2>5. L[q] = b + w
    BY <1>1, <2>2, <2>4, Zenon
  <2>6. PICK d \in PlainCharacters : q > 1 => d = plain[q - 1]
    <3>1. q > 1 => plain[q - 1] \in PlainCharacters
      BY <1>0
    <3>2. "nl" \in PlainCharacters
      BY Zenon DEF PlainCharacters
    <3> QED
      BY <3>1, <3>2, Zenon
  <2>7. PICK z \in PlainCharacters : z = plain[q] /\ z = c[i]
    BY <1>0, <1>5, <2>1
  <2>8. i > 1 <=> a < b
    <3>1. CASE i > 1
      <4>1. lo + 1 \in 1 .. n /\ (lo + 1) - 1 = lo /\ lo + 1 \in 0 .. n /\ q - 1 \in 0 .. n
            /\ lo + 1 <= q - 1
        BY <1>0, <2>1, <3>1
      <4>2. L[lo] < L[lo + 1] /\ L[lo + 1] \in Nat
        BY <1>1, <4>1
      <4>3. L[lo + 1] <= L[q - 1]
        BY <1>2, <4>1
      <4> QED
        BY <2>2, <3>1, <4>2, <4>3, SMTT(20)
    <3>2. CASE ~ (i > 1)
      <4>1. q - 1 = lo
        BY <2>1, <3>2
      <4> QED
        BY <2>2, <3>2, <4>1
    <3> QED
      BY <3>1, <3>2
  <2>9. Text!isSpace(z) => i > 1
    <3>1. CASE i = 1
      BY <2>1, <2>7, <3>1
    <3>2. CASE i # 1
      BY <3>2
    <3> QED
      BY <3>1, <3>2
  <2>10. w = (IF z = "sz" THEN 2
              ELSE IF a < b /\ Text!isSpace(z) /\ Text!isSpace(d) THEN 0 ELSE 1)
    <3>1. w = IF z = "sz" THEN 2
              ELSE IF q > 1 /\ Text!isSpace(z) /\ Text!isSpace(plain[q - 1]) THEN 0 ELSE 1
      BY <2>4, <2>7, Zenon DEF Width
    <3>2. i > 1 => q > 1
      BY <2>1
    <3>3. Text!isSpace(z) => q > 1 /\ a < b /\ d = plain[q - 1]
      BY <2>6, <2>8, <2>9, <3>2, Zenon
    <3> QED
      BY <3>1, <3>3, Zenon
  <2>11. \A j \in b + 1 .. b + w : fold[j] = Image(z)
    <3>1. \A j \in L[q - 1] + 1 .. L[q] : fold[j] = Image(plain[q])
      BY <1>0, Zenon DEF Spread
    <3> QED
      BY <2>2, <2>5, <2>7, <3>1, Zenon
  <2>12. a < b => fold[b] = Image(d)
    <3> SUFFICES ASSUME a < b PROVE fold[b] = Image(d)
      OBVIOUS
    <3>1. i > 1 /\ q > 1 /\ q - 1 \in 1 .. n
      BY <2>1, <2>8
    <3> QED
      BY <1>1, <2>2, <2>6, <3>1, Zenon
  <2>13. PICK x \in Seq(Text!Characters), r \in Seq(Text!Characters) :
             x = g[i - 1] /\ r = g[i] /\ FoldStep(z, x, r)
    <3>1. i - 1 \in 0 .. k /\ i \in 0 .. k
      OBVIOUS
    <3>2. g[i - 1] \in Seq(Text!Characters) /\ g[i] \in Seq(Text!Characters)
      BY <1>6, <3>1, Zenon
    <3> QED
      BY <1>7, <2>7, <3>2, Zenon
  <2>14. IsPartFrom(x, fold, a, b)
    BY <1>10, <2>1, <2>2, <2>13, Zenon
  <2>17. NextAdds(fold, a, b, w, z, d)
    BY <2>8, <2>9, <2>10, <2>11, <2>12, Zenon DEF NextAdds
  <2>15. IsPartFrom(r, fold, a, b + w)
    BY <2>3, <2>13, <2>14, <2>17, PhraseStep, Zenon
  <2>16. i \in 0 .. k
    OBVIOUS
  <2>18. L[lo + i] = b + w
    BY <2>1, <2>5, Zenon
  <2> QED
    BY <2>2, <2>13, <2>15, <2>16, <2>18, Zenon
<1> HIDE DEF T
<1>11. 0 .. k \subseteq T
  BY <1>9, <1>10, InductionUpTo, Zenon
<1>12. PICK s \in Seq(Text!Characters) : s = g[k]
  <2>1. k \in 0 .. k
    OBVIOUS
  <2> QED
    BY <1>6, <2>1, Zenon
<1>13. Len(s) = L[hi] - L[lo] /\ \A j \in 1 .. Len(s) : s[j] = fold[L[lo] + j]
  <2>1. k \in T
    <3>1. k \in 0 .. k
      OBVIOUS
    <3> QED
      BY <1>11, <3>1, Zenon
  <2> QED
    BY <1>3, <1>12, <2>1, Zenon DEF T, IsPartFrom
<1>14. /\ L[lo] < L[lo + 1] /\ L[lo + 1] <= L[hi] /\ L[hi] \in Nat /\ L[hi] <= f
       /\ L[lo + 1] \in Nat
       /\ fold[L[lo] + 1] = Image(plain[lo + 1]) /\ fold[L[hi]] = Image(plain[hi])
  <2>1. lo + 1 \in 1 .. n /\ hi \in 1 .. n /\ (lo + 1) - 1 = lo /\ lo + 1 \in 0 .. n /\ hi \in 0 .. n
        /\ lo + 1 <= hi
    BY <1>0
  <2>2. L[lo] < L[lo + 1]
    BY <1>1, <2>1
  <2>3. fold[L[lo] + 1] = Image(plain[lo + 1])
    BY <1>1, <2>1, <2>2
  <2> QED
    BY <1>1, <1>2, <2>1, <2>2, <2>3
<1>15. Image(plain[lo + 1]) # Blank /\ Image(plain[hi]) # Blank
  <2>1. plain[lo + 1] \in PlainCharacters /\ plain[hi] \in PlainCharacters
    OBVIOUS
  <2> QED
    BY <2>1, ImageFacts, Zenon
<1>16. s # <<>> /\ s[1] # Blank /\ s[Len(s)] # Blank
  <2>1. Len(s) >= 1 /\ 1 \in 1 .. Len(s) /\ Len(s) \in 1 .. Len(s) /\ L[lo] + Len(s) = L[hi]
    <3>1. PICK m : m = Len(s)
      OBVIOUS
    <3>2. PICK a \in Nat, b \in Nat : a = L[lo] /\ b = L[hi]
      BY <1>8, <1>14, Zenon
    <3>3. m = b - a /\ a < b
      <4>1. L[lo] < L[hi]
        BY <1>8, <1>14, SMTT(20)
      <4> QED
        BY <1>13, <3>1, <3>2, <4>1, Zenon
    <3>4. m >= 1 /\ 1 \in 1 .. m /\ m \in 1 .. m /\ a + m = b
      BY <3>3
    <3> QED
      BY <3>1, <3>2, <3>4, Zenon
  <2>2. s[1] = fold[L[lo] + 1] /\ s[Len(s)] = fold[L[hi]]
    BY <1>13, <2>1
  <2>3. s # <<>>
    BY <2>1
  <2> QED
    BY <1>14, <1>15, <2>2, <2>3, Zenon
<1>17. Text!Stripped(s) = s
  BY <1>16, StrippedFacts, Zenon
<1>18. SubSeq(fold, L[lo] + 1, L[hi]) = s
  <2>1. PICK a \in Nat, b \in Nat : a = L[lo] /\ b = L[hi]
    BY <1>8, <1>14, Zenon
  <2>2. a <= b /\ b <= Len(fold)
    BY <1>0, <1>14, <2>1, SMTT(20)
  <2>3. PICK t : t = SubSeq(fold, a + 1, b)
    OBVIOUS
  <2>4. t \in Seq(Text!Characters) /\ Len(t) = b - a /\ \A j \in 1 .. b - a : t[j] = fold[a + j]
    <3>1. /\ SubSeq(fold, a + 1, b) \in Seq(Text!Characters)
          /\ Len(SubSeq(fold, a + 1, b)) = b - a
          /\ \A j \in 1 .. b - a : SubSeq(fold, a + 1, b)[j] = fold[a + j]
      BY <2>2, PartOf
    <3> QED
      BY <2>3, <3>1, Zenon
  <2>5. Len(t) = Len(s) /\ \A j \in 1 .. Len(t) : t[j] = s[j]
    BY <1>13, <2>1, <2>4, Zenon
  <2>6. t = s
    BY <2>4, <2>5, SameSequence, Zenon
  <2> QED
    BY <2>1, <2>3, <2>6, Zenon
<1> QED
  BY <1>4, <1>7, <1>12, <1>17, <1>18, Zenon DEF Phrase, ReadsAs

\* A query that has something to search for: it neither starts nor ends with a space.
Queried(query) ==
    /\ query \in Seq(Text!Characters) /\ Len(query) \in Nat \ {0}
    /\ query[1] # Blank /\ query[Len(query)] # Blank

\* The place of the plain text that adds a folded character, when it is not a space.
Around(plain, L, j, q) == L[q - 1] < j /\ j <= L[q] /\ ~ Text!isSpace(plain[q])

\* A folded character and the place of the plain text that it comes from, which is not
\* a space.
Origin(rt, L, j, q) ==
    /\ rt.plainOff[rt.src[j] + 1] + 1 = q /\ rt.plainOff[rt.src[j] + 2] = q
    /\ rt.src[j] + 1 \in 1 .. Len(rt.norm) /\ Around(rt.plain, L, j, q)

\* There is one of every character that is not a space.
LEMMA OriginOf ==
    ASSUME NEW rt, NEW L, Finished(rt, L), NEW j \in 1 .. Len(rt.fold), rt.fold[j] # Blank
    PROVE  \E q \in 1 .. Len(rt.plain) : Origin(rt, L, j, q)
<1>1. Spread(rt.plain, rt.fold, L) /\ Traced(rt, L) /\ rt.plain \in Seq(PlainCharacters)
      /\ rt.src \in Seq(Nat) /\ Len(rt.src) = Len(rt.fold)
  BY Zenon DEF Finished
<1>2. PICK k \in 1 .. Len(rt.norm), q \in 1 .. Len(rt.plain) :
          /\ rt.src[j] + 1 = k /\ rt.plainOff[k] + 1 = q
          /\ L[q - 1] < j /\ j <= L[q]
          /\ ~ Text!isSpace(rt.plain[q]) => rt.plainOff[k + 1] = q
  BY <1>1, Zenon DEF Traced
<1>3. rt.fold[j] = Image(rt.plain[q])
  <2>1. L[q] \in Nat /\ L[q - 1] \in Nat
    <3>1. EndsBy(rt.plain, rt.fold, L, Len(rt.plain), Len(rt.fold))
      BY <1>1, SpreadEndsBy, Zenon
    <3> QED
      BY <3>1, Zenon DEF EndsBy
  <2>2. j \in L[q - 1] + 1 .. L[q]
    BY <1>2, <2>1
  <2> QED
    BY <1>1, <2>2, Zenon DEF Spread
<1>4. ~ Text!isSpace(rt.plain[q])
  <2>1. rt.plain[q] \in PlainCharacters
    BY <1>1
  <2> QED
    BY <1>3, <2>1, ImageFacts, Zenon
<1>5. rt.src[j] + 2 = k + 1
  <2>1. rt.src[j] \in Nat
    BY <1>1
  <2> QED
    BY <1>2, <2>1
<1> QED
  BY <1>2, <1>4, <1>5, Zenon DEF Origin, Around

\* A place of the plain text and another, and what is between them of the folded one.
Standing(rt, L, query, lo, hi) ==
    /\ lo \in Nat /\ hi \in Nat /\ lo < hi /\ hi <= Len(rt.plain)
    /\ L[lo] \in Nat /\ L[hi] = L[lo] + Len(query) /\ L[hi] <= Len(rt.fold)
    /\ ~ Text!isSpace(rt.plain[lo + 1]) /\ ~ Text!isSpace(rt.plain[hi])
    /\ SubSeq(rt.fold, L[lo] + 1, L[hi]) = query

\* What the words at the edges of a place are, in the plain text and in the folded one.
LEMMA Edges ==
    ASSUME NEW rt, NEW L, Finished(rt, L), NEW query, Queried(query),
           NEW lo, NEW hi, Standing(rt, L, query, lo, hi)
    PROVE  /\ Text!isWordRune(query[1]) <=> Text!isWordRune(rt.plain[lo + 1])
           /\ Text!isWordRune(query[Len(query)]) <=> Text!isWordRune(rt.plain[hi])
           /\ L[lo] > 0 <=> lo > 0
           /\ lo > 0 => (Text!isWordRune(rt.fold[L[lo]]) <=> Text!isWordRune(rt.plain[lo]))
           /\ L[hi] < Len(rt.fold) <=> hi < Len(rt.plain)
           /\ hi < Len(rt.plain) =>
                 (Text!isWordRune(rt.fold[L[hi] + 1]) <=> Text!isWordRune(rt.plain[hi + 1]))
<1>1. /\ Spread(rt.plain, rt.fold, L) /\ rt.plain \in Seq(PlainCharacters)
      /\ rt.fold \in Seq(Text!Characters)
  BY Zenon DEF Finished
<1>2. PICK n \in Nat, f \in Nat : n = Len(rt.plain) /\ f = Len(rt.fold)
  <2>1. Len(rt.plain) \in Nat /\ Len(rt.fold) \in Nat
    BY <1>1
  <2> QED
    BY <2>1, Zenon
<1>3. PICK plain \in Seq(PlainCharacters), fold \in Seq(Text!Characters) :
          plain = rt.plain /\ fold = rt.fold
  BY <1>1, Zenon
<1>4. \A q \in 1 .. n :
              /\ L[q] \in Nat /\ L[q - 1] \in Nat /\ L[q] >= 1 /\ L[q] <= f
              /\ fold[L[q]] = Image(plain[q])
              /\ L[q - 1] < L[q] => fold[L[q - 1] + 1] = Image(plain[q])
              /\ ~ Text!isSpace(plain[q]) => L[q - 1] < L[q]
              /\ q > 1 /\ ~ Text!isSpace(plain[q - 1]) => L[q - 1] < L[q]
              /\ L[q] = L[q - 1] + Width(plain, q)
  <2>1. Spread(plain, fold, L) /\ n = Len(plain) /\ f = Len(fold)
    BY <1>1, <1>2, <1>3, Zenon
  <2> QED
    <3>1. EndsBy(plain, fold, L, n, f)
      BY <1>2, <1>3, <2>1, SpreadEndsBy, Zenon
    <3> QED
      BY <3>1, Zenon DEF EndsBy
<1>5. \A q \in 1 .. n : plain[q] \in PlainCharacters
                        /\ (Text!isWordRune(Image(plain[q])) <=> Text!isWordRune(plain[q]))
  <2>1. \A q \in 1 .. n : plain[q] \in PlainCharacters
    BY <1>2, <1>3
  <2> QED
    BY <2>1, ImageFacts, Zenon
<1>6. L[0] = 0 /\ f = L[n]
  BY <1>1, <1>2, <1>3, Zenon DEF Spread
<1>7. PICK a \in Nat, b \in Nat : a = L[lo] /\ b = L[hi]
  <2>1. L[lo] \in Nat /\ L[hi] = L[lo] + Len(query) /\ Len(query) \in Nat
    BY DEF Standing, Queried
  <2>2. L[hi] \in Nat
    BY <2>1
  <2> QED
    BY <2>1, <2>2, Zenon
<1>8. /\ lo \in Nat /\ hi \in Nat /\ lo < hi /\ hi <= n /\ b = a + Len(query) /\ b <= f
      /\ ~ Text!isSpace(plain[lo + 1]) /\ ~ Text!isSpace(plain[hi])
      /\ SubSeq(fold, a + 1, b) = query /\ Len(query) \in Nat \ {0}
  BY <1>2, <1>3, <1>7, Zenon DEF Standing, Queried
<1>9. query[1] = fold[a + 1] /\ query[Len(query)] = fold[b]
  <2>1. PICK w \in Nat : w = Len(query) /\ w >= 1 /\ b = a + w
    <3>1. Len(query) \in Nat /\ Len(query) # 0 /\ b = a + Len(query)
      BY <1>8, Zenon
    <3>2. PICK w \in Nat : w = Len(query)
      BY <3>1, Zenon
    <3>3. w >= 1
      BY <3>1, <3>2
    <3> QED
      BY <3>1, <3>2, <3>3, Zenon
  <2>2. a <= b /\ b <= Len(fold) /\ 1 \in 1 .. b - a /\ w \in 1 .. b - a /\ a + w = b
    BY <1>2, <1>3, <1>8, <2>1
  <2>3. \A i \in 1 .. b - a : SubSeq(fold, a + 1, b)[i] = fold[a + i]
    BY <2>2
  <2> QED
    BY <1>8, <2>1, <2>2, <2>3, Zenon
<1>10. fold[a + 1] = Image(plain[lo + 1]) /\ fold[b] = Image(plain[hi])
  <2>1. lo + 1 \in 1 .. n /\ (lo + 1) - 1 = lo /\ hi \in 1 .. n
    BY <1>8
  <2> QED
    BY <1>4, <1>7, <1>8, <2>1, Zenon
<1>11. a > 0 <=> lo > 0
  <2>1. CASE lo = 0
    BY <1>6, <1>7, <2>1
  <2>2. CASE lo # 0
    <3>1. lo \in 1 .. n
      BY <1>8, <2>2
    <3> QED
      BY <1>4, <1>7, <1>8, <2>2, <3>1
  <2> QED
    BY <2>1, <2>2
<1>12. lo > 0 => fold[a] = Image(plain[lo]) /\ lo \in 1 .. n
  <2>1. lo > 0 => lo \in 1 .. n
    BY <1>8
  <2> QED
    BY <1>4, <1>7, <2>1, Zenon
<1>13. hi < n => b < L[hi + 1] /\ fold[b + 1] = Image(plain[hi + 1]) /\ hi + 1 \in 1 .. n
                 /\ L[hi + 1] <= f /\ L[hi + 1] \in Nat
  <2>1. hi < n => hi + 1 \in 1 .. n /\ (hi + 1) - 1 = hi /\ hi + 1 > 1
    BY <1>8
  <2> QED
    BY <1>4, <1>7, <1>8, <2>1, Zenon
<1>14. b < f <=> hi < n
  <2>1. CASE hi < n
    BY <1>13, <2>1
  <2>2. CASE ~ (hi < n)
    <3>1. hi = n
      BY <1>8, <2>2
    <3> QED
      BY <1>6, <1>7, <2>2, <3>1
  <2> QED
    BY <2>1, <2>2
<1>15. lo + 1 \in 1 .. n /\ hi \in 1 .. n
  BY <1>8
<1>16. /\ Text!isWordRune(query[1]) <=> Text!isWordRune(plain[lo + 1])
       /\ Text!isWordRune(query[Len(query)]) <=> Text!isWordRune(plain[hi])
  BY <1>5, <1>9, <1>10, <1>15, Zenon
<1>17. lo > 0 => (Text!isWordRune(fold[a]) <=> Text!isWordRune(plain[lo]))
  BY <1>5, <1>12, Zenon
<1>18. hi < n => (Text!isWordRune(fold[b + 1]) <=> Text!isWordRune(plain[hi + 1]))
  BY <1>5, <1>13, Zenon
<1> QED
  BY <1>2, <1>3, <1>7, <1>11, <1>14, <1>16, <1>17, <1>18

\* Where a query stands at a standing place, it occurs, and the other way round.
LEMMA StandsAndOccurs ==
    ASSUME NEW rt, NEW L, Finished(rt, L), NEW query, Queried(query),
           NEW lo, NEW hi, Standing(rt, L, query, lo, hi)
    PROVE  Occurs(rt.plain, query, lo, hi) <=> Text!StandsAt(rt, query, L[lo])
<1>1. /\ Spread(rt.plain, rt.fold, L) /\ rt.plain \in Seq(PlainCharacters)
      /\ rt.fold \in Seq(Text!Characters)
  BY Zenon DEF Finished
<1>2. /\ lo \in Nat /\ hi \in Nat /\ lo < hi /\ hi <= Len(rt.plain)
      /\ L[lo] \in Nat /\ L[hi] = L[lo] + Len(query) /\ L[hi] <= Len(rt.fold)
      /\ ~ Text!isSpace(rt.plain[lo + 1]) /\ ~ Text!isSpace(rt.plain[hi])
      /\ SubSeq(rt.fold, L[lo] + 1, L[hi]) = query
  BY Zenon DEF Standing
<1>3. Phrase(rt.plain, lo, hi) = SubSeq(rt.fold, L[lo] + 1, L[hi])
  <2>1. PICK plain : plain = rt.plain
    OBVIOUS
  <2>2. PICK fold : fold = rt.fold
    OBVIOUS
  <2>3. /\ Spread(plain, fold, L) /\ plain \in Seq(PlainCharacters)
        /\ fold \in Seq(Text!Characters) /\ hi <= Len(plain)
        /\ ~ Text!isSpace(plain[lo + 1]) /\ ~ Text!isSpace(plain[hi])
    BY <1>1, <1>2, <2>1, <2>2, Zenon
  <2>4. ReadsAs(plain, fold, L, lo, hi)
    BY <1>2, <2>3, PhraseOf, Zenon
  <2> QED
    BY <2>1, <2>2, <2>4, Zenon DEF ReadsAs
<1>4. Phrase(rt.plain, lo, hi) = query
  BY <1>2, <1>3, Zenon
<1>5. SubSeq(rt.fold, L[lo] + 1, L[lo] + Len(query)) = query
  BY <1>2, Zenon
<1>6. Occurs(rt.plain, query, lo, hi) <=>
         /\ Text!isWordRune(rt.plain[lo + 1]) /\ lo > 0 => ~ Text!isWordRune(rt.plain[lo])
         /\ Text!isWordRune(rt.plain[hi]) /\ hi < Len(rt.plain) =>
               ~ Text!isWordRune(rt.plain[hi + 1])
  BY <1>2, <1>4, Zenon DEF Occurs
<1>7. Text!StandsAt(rt, query, L[lo]) <=>
         /\ Text!isWordRune(query[1]) /\ L[lo] > 0 => ~ Text!isWordRune(rt.fold[L[lo]])
         /\ Text!isWordRune(query[Len(query)]) /\ L[hi] < Len(rt.fold) =>
               ~ Text!isWordRune(rt.fold[L[hi] + 1])
  BY <1>2, <1>5, Zenon DEF Text!StandsAt, Text!Last
<1>8. /\ Text!isWordRune(query[1]) <=> Text!isWordRune(rt.plain[lo + 1])
      /\ Text!isWordRune(query[Len(query)]) <=> Text!isWordRune(rt.plain[hi])
      /\ L[lo] > 0 <=> lo > 0
      /\ lo > 0 => (Text!isWordRune(rt.fold[L[lo]]) <=> Text!isWordRune(rt.plain[lo]))
      /\ L[hi] < Len(rt.fold) <=> hi < Len(rt.plain)
      /\ hi < Len(rt.plain) =>
            (Text!isWordRune(rt.fold[L[hi] + 1]) <=> Text!isWordRune(rt.plain[hi + 1]))
  BY Edges, Zenon
<1> QED
  BY <1>6, <1>7, <1>8, Zenon

\* An occurrence is a standing place.
LEMMA OccursStanding ==
    ASSUME NEW rt, NEW L, Finished(rt, L), NEW query, Queried(query),
           NEW lo \in Nat, NEW hi \in Nat, lo < hi, hi <= Len(rt.plain),
           Occurs(rt.plain, query, lo, hi)
    PROVE  Standing(rt, L, query, lo, hi)
<1>1. /\ Spread(rt.plain, rt.fold, L) /\ rt.plain \in Seq(PlainCharacters)
      /\ rt.fold \in Seq(Text!Characters)
  BY Zenon DEF Finished
<1>2. /\ Phrase(rt.plain, lo, hi) = query
      /\ ~ Text!isSpace(rt.plain[lo + 1]) /\ ~ Text!isSpace(rt.plain[hi])
  BY Zenon DEF Occurs
<1>3. SubSeq(rt.fold, L[lo] + 1, L[hi]) = query
  <2>1. ReadsAs(rt.plain, rt.fold, L, lo, hi)
    BY <1>1, <1>2, PhraseOf, Zenon
  <2> QED
    BY <1>2, <2>1, Zenon DEF ReadsAs
<1>4. L[lo] \in Nat /\ L[hi] \in Nat /\ L[lo] <= L[hi] /\ L[hi] <= Len(rt.fold)
  <2>1. PICK n \in Nat : n = Len(rt.plain)
    <3>1. Len(rt.plain) \in Nat
      BY <1>1
    <3> QED
      BY <3>1, Zenon
  <2>2. lo \in 0 .. n /\ hi \in 0 .. n /\ lo <= hi /\ hi \in 1 .. n
    BY <2>1
  <2>3. L \in [0 .. n -> Nat]
    BY <1>1, <2>1, Zenon DEF Spread
  <2>4. L[lo] <= L[hi]
    BY <1>1, <2>1, <2>2, SpreadAscends, Zenon
  <2>5. L[hi] <= Len(rt.fold)
    <3>1. EndsBy(rt.plain, rt.fold, L, n, Len(rt.fold))
      BY <1>1, <2>1, SpreadEndsBy, Zenon
    <3> QED
      BY <2>2, <3>1, Zenon DEF EndsBy
  <2> QED
    BY <2>2, <2>3, <2>4, <2>5
<1>5. Len(query) = L[hi] - L[lo]
  <2>1. PICK a \in Nat, b \in Nat : a = L[lo] /\ b = L[hi]
    BY <1>4, Zenon
  <2>2. Len(SubSeq(rt.fold, a + 1, b)) = b - a
    <3>1. PICK fold \in Seq(Text!Characters) : fold = rt.fold
      BY <1>1, Zenon
    <3>2. a <= b /\ b <= Len(fold)
      BY <1>4, <2>1, <3>1, Zenon
    <3>3. Len(SubSeq(fold, a + 1, b)) = b - a
      BY <3>2
    <3> QED
      BY <3>1, <3>3, Zenon
  <2> QED
    BY <1>3, <2>1, <2>2, Zenon
<1>6. L[hi] = L[lo] + Len(query)
  BY <1>4, <1>5
<1> QED
  BY <1>2, <1>3, <1>4, <1>6, Zenon DEF Standing

\* A folded text that stands apart from the words next to it.
Apart(fold, query, i) ==
    /\ SubSeq(fold, i + 1, i + Len(query)) = query
    /\ Text!isWordRune(query[1]) /\ i > 0 => ~ Text!isWordRune(fold[i])
    /\ Text!isWordRune(query[Len(query)]) /\ i + Len(query) < Len(fold) =>
          ~ Text!isWordRune(fold[i + Len(query) + 1])

\* The places of the plain text where a query that stands in the folded one starts and
\* ends: neither in the middle of a letter that is folded to two.
LEMMA StandsBetween ==
    ASSUME NEW plain \in Seq(PlainCharacters), NEW fold \in Seq(Text!Characters), NEW L,
           Spread(plain, fold, L), NEW query, Queried(query), NEW i \in Nat, NEW e \in Nat,
           e = i + Len(query), e <= Len(fold), Apart(fold, query, i),
           NEW p \in 1 .. Len(plain), Around(plain, L, i + 1, p),
           NEW q \in 1 .. Len(plain), Around(plain, L, e, q)
    PROVE  L[p - 1] = i /\ L[q] = e /\ p <= q
<1>0. /\ L[p - 1] < i + 1 /\ i + 1 <= L[p] /\ L[q - 1] < e /\ e <= L[q]
      /\ ~ Text!isSpace(plain[p]) /\ ~ Text!isSpace(plain[q])
  BY Zenon DEF Around
<1>1. PICK n \in Nat, f \in Nat : n = Len(plain) /\ f = Len(fold)
  <2>1. Len(plain) \in Nat /\ Len(fold) \in Nat
    OBVIOUS
  <2> QED
    BY <2>1, Zenon
<1>2. \A r \in 1 .. n :
              /\ L[r] \in Nat /\ L[r - 1] \in Nat /\ L[r] <= f
              /\ L[r] = L[r - 1] + Width(plain, r)
  <2>1. EndsBy(plain, fold, L, n, f)
    BY <1>1, SpreadEndsBy, Zenon
  <2> QED
    BY <2>1, Zenon DEF EndsBy
<1>3. \A r \in 1 .. n : \A j \in L[r - 1] + 1 .. L[r] : fold[j] = Image(plain[r])
  BY <1>1, Zenon DEF Spread
<1>4. PICK w \in Nat : w = Len(query) /\ w >= 1 /\ e = i + w
  <2>1. Len(query) \in Nat /\ Len(query) # 0
    BY Zenon DEF Queried
  <2>2. PICK w \in Nat : w = Len(query)
    BY <2>1, Zenon
  <2>3. w >= 1
    BY <2>1, <2>2
  <2> QED
    BY <2>2, <2>3, Zenon
<1>5. /\ SubSeq(fold, i + 1, e) = query
      /\ Text!isWordRune(query[1]) /\ i > 0 => ~ Text!isWordRune(fold[i])
      /\ Text!isWordRune(query[w]) /\ e < f => ~ Text!isWordRune(fold[e + 1])
  BY <1>1, <1>4, Zenon DEF Apart
<1>6. query[1] = fold[i + 1] /\ query[w] = fold[e]
  <2>1. i <= e /\ e <= Len(fold) /\ 1 \in 1 .. e - i /\ w \in 1 .. e - i /\ i + w = e
    BY <1>4
  <2>2. \A j \in 1 .. e - i : SubSeq(fold, i + 1, e)[j] = fold[i + j]
    BY <2>1
  <2> QED
    BY <1>5, <2>1, <2>2, Zenon
<1>7. \A r \in 1 .. n : ~ Text!isSpace(plain[r]) =>
         /\ Width(plain, r) = 1 \/ Width(plain, r) = 2
         /\ Width(plain, r) = 2 => Text!isWordRune(Image(plain[r]))
  <2> SUFFICES ASSUME NEW r \in 1 .. n, ~ Text!isSpace(plain[r])
               PROVE  /\ Width(plain, r) = 1 \/ Width(plain, r) = 2
                      /\ Width(plain, r) = 2 => Text!isWordRune(Image(plain[r]))
    BY Zenon
  <2>1. plain[r] \in PlainCharacters
    BY <1>1
  <2>2. plain[r] = "sz" => Text!isWordRune(Image(plain[r]))
    BY <2>1, ImageFacts, Zenon
  <2>3. Width(plain, r) = IF plain[r] = "sz" THEN 2 ELSE 1
    BY Zenon DEF Width
  <2> QED
    BY <2>2, <2>3
<1>8. L[p - 1] = i
  <2> SUFFICES ASSUME L[p - 1] # i PROVE FALSE
    OBVIOUS
  <2>1. PICK a \in Nat, b \in Nat : a = L[p - 1] /\ b = L[p] /\ b = a + Width(plain, p)
    BY <1>1, <1>2, Zenon
  <2>2. a < i /\ i + 1 <= b
    BY <1>0, <2>1
  <2>3. Width(plain, p) = 1 \/ Width(plain, p) = 2
    BY <1>0, <1>1, <1>7, Zenon
  <2>4. Width(plain, p) = 2 /\ i = a + 1 /\ b = i + 1
    <3>1. Width(plain, p) = 1 => b = a + 1
      BY <2>1, Zenon
    <3>2. Width(plain, p) = 2 => b = a + 2
      BY <2>1, Zenon
    <3>3. Width(plain, p) = 2
      BY <2>2, <2>3, <3>1
    <3> QED
      BY <2>2, <3>2, <3>3
  <2>5. Text!isWordRune(Image(plain[p]))
    BY <1>0, <1>1, <1>7, <2>4, Zenon
  <2>6. i \in a + 1 .. b /\ i + 1 \in a + 1 .. b /\ i > 0
    BY <2>4
  <2>7. fold[i] = Image(plain[p]) /\ fold[i + 1] = Image(plain[p])
    BY <1>1, <1>3, <2>1, <2>6, Zenon
  <2> QED
    BY <1>5, <1>6, <2>5, <2>6, <2>7, Zenon
<1>9. L[q] = e
  <2> SUFFICES ASSUME L[q] # e PROVE FALSE
    OBVIOUS
  <2>1. PICK a \in Nat, b \in Nat : a = L[q - 1] /\ b = L[q] /\ b = a + Width(plain, q) /\ b <= f
    BY <1>1, <1>2, Zenon
  <2>2. a < e /\ e < b
    BY <1>0, <2>1
  <2>3. Width(plain, q) = 1 \/ Width(plain, q) = 2
    BY <1>0, <1>1, <1>7, Zenon
  <2>4. Width(plain, q) = 2 /\ e = a + 1 /\ b = e + 1
    <3>1. Width(plain, q) = 1 => b = a + 1
      BY <2>1, Zenon
    <3>2. Width(plain, q) = 2 => b = a + 2
      BY <2>1, Zenon
    <3>3. Width(plain, q) = 2
      BY <2>2, <2>3, <3>1
    <3> QED
      BY <2>2, <3>2, <3>3
  <2>5. Text!isWordRune(Image(plain[q]))
    BY <1>0, <1>1, <1>7, <2>4, Zenon
  <2>6. e \in a + 1 .. b /\ e + 1 \in a + 1 .. b /\ e < f
    <3>1. b <= f
      BY <2>1, Zenon
    <3> QED
      BY <2>4, <3>1
  <2>7. fold[e] = Image(plain[q]) /\ fold[e + 1] = Image(plain[q])
    BY <1>1, <1>3, <2>1, <2>6, Zenon
  <2> QED
    BY <1>5, <1>6, <2>5, <2>6, <2>7, Zenon
<1>10. p <= q
  <2> SUFFICES ASSUME q <= p - 1 PROVE FALSE
    OBVIOUS
  <2>1. q \in 0 .. n /\ p - 1 \in 0 .. n
    BY <1>1
  <2>2. L[q] <= L[p - 1]
    BY <1>1, <2>1, SpreadAscends
  <2>3. e <= i
    BY <1>8, <1>9, <2>2, Zenon
  <2> QED
    BY <1>4, <2>3
<1> QED
  BY <1>8, <1>9, <1>10

\* The places that buildMatch finds, through the normalized characters.
LEMMA MatchPlaces ==
    ASSUME NEW rt, NEW L, Finished(rt, L), NEW query, Queried(query), NEW i \in Nat,
           i + Len(query) <= Len(rt.fold), Text!StandsAt(rt, query, i)
    PROVE  \E lo \in Nat, hi \in Nat :
              /\ Standing(rt, L, query, lo, hi) /\ L[lo] = i
              /\ rt.plainOff[rt.src[i + 1] + 1] = lo
              /\ rt.plainOff[rt.src[i + Len(query)] + 2] = hi
<1>1. /\ Spread(rt.plain, rt.fold, L) /\ rt.plain \in Seq(PlainCharacters)
      /\ rt.fold \in Seq(Text!Characters) /\ rt.plainOff \in Seq(Nat)
  BY Zenon DEF Finished
<1>2. PICK w \in Nat : w = Len(query) /\ w >= 1 /\ w # 0
  <2>1. Len(query) \in Nat /\ Len(query) # 0
    BY Zenon DEF Queried
  <2>2. PICK w \in Nat : w = Len(query)
    BY <2>1, Zenon
  <2>3. w >= 1
    BY <2>1, <2>2
  <2> QED
    BY <2>1, <2>2, <2>3, Zenon
<1>3. PICK e \in Nat : e = i + w
  OBVIOUS
<1>4. Apart(rt.fold, query, i)
  BY Zenon DEF Apart, Text!StandsAt, Text!Last
<1>5. PICK fold \in Seq(Text!Characters) : fold = rt.fold
  BY <1>1, Zenon
<1>6. e <= Len(fold) /\ i + 1 \in 1 .. Len(fold) /\ e \in 1 .. Len(fold)
  <2>1. e <= Len(fold)
    BY <1>2, <1>3, <1>5, Zenon
  <2> QED
    BY <1>2, <1>3, <2>1
<1>7. SubSeq(fold, i + 1, e) = query
  BY <1>2, <1>3, <1>4, <1>5, Zenon DEF Apart
<1>8. query[1] = fold[i + 1] /\ query[w] = fold[e]
  <2>1. i <= e /\ e <= Len(fold) /\ 1 \in 1 .. e - i /\ w \in 1 .. e - i /\ i + w = e
    BY <1>2, <1>3, <1>6
  <2>2. \A j \in 1 .. e - i : SubSeq(fold, i + 1, e)[j] = fold[i + j]
    BY <2>1
  <2> QED
    BY <1>7, <2>1, <2>2, Zenon
<1>9. fold[i + 1] # Blank /\ fold[e] # Blank
  BY <1>2, <1>8, Zenon DEF Queried
<1>10. PICK p \in 1 .. Len(rt.plain) : Origin(rt, L, i + 1, p)
  BY <1>5, <1>6, <1>9, OriginOf, Zenon
<1>11. PICK q \in 1 .. Len(rt.plain) : Origin(rt, L, e, q)
  BY <1>5, <1>6, <1>9, OriginOf, Zenon
<1>12. /\ rt.plainOff[rt.src[i + 1] + 1] + 1 = p /\ rt.src[i + 1] + 1 \in 1 .. Len(rt.norm)
       /\ Around(rt.plain, L, i + 1, p) /\ ~ Text!isSpace(rt.plain[p])
       /\ rt.plainOff[rt.src[e] + 2] = q
       /\ Around(rt.plain, L, e, q) /\ ~ Text!isSpace(rt.plain[q])
  BY <1>10, <1>11, Zenon DEF Origin, Around
<1>13. L[p - 1] = i /\ L[q] = e /\ p <= q
  <2>1. e = i + Len(query) /\ e <= Len(rt.fold)
    BY <1>2, <1>3, <1>5, <1>6, Zenon
  <2>2. PICK plain \in Seq(PlainCharacters) : plain = rt.plain
    BY <1>1, Zenon
  <2>3. Spread(plain, fold, L) /\ Apart(fold, query, i) /\ e = i + Len(query) /\ e <= Len(fold)
        /\ Around(plain, L, i + 1, p) /\ Around(plain, L, e, q)
        /\ p \in 1 .. Len(plain) /\ q \in 1 .. Len(plain)
    BY <1>1, <1>4, <1>5, <1>12, <2>1, <2>2, Zenon
  <2> QED
    BY <2>3, StandsBetween
<1>14. PICK lo \in Nat, hi \in Nat : lo = p - 1 /\ hi = q /\ lo < hi /\ lo + 1 = p
                                     /\ hi <= Len(rt.plain)
  BY <1>13
<1>15. rt.plainOff[rt.src[i + 1] + 1] = lo
  <2>1. PICK m \in Nat : m = Len(rt.norm)
    <3>1. rt.norm \in Seq(Text!Characters)
      BY Zenon DEF Finished
    <3>2. Len(rt.norm) \in Nat
      BY <3>1
    <3> QED
      BY <3>2, Zenon
  <2>2. rt.src[i + 1] + 1 \in 1 .. Len(rt.plainOff)
    <3>1. Len(rt.plainOff) = m + 1
      BY <2>1, Zenon DEF Finished
    <3>2. PICK x : x = rt.src[i + 1] + 1
      OBVIOUS
    <3>3. x \in 1 .. m
      BY <1>12, <2>1, <3>2, Zenon
    <3>4. x \in 1 .. m + 1
      BY <3>3
    <3>5. PICK d : d = Len(rt.plainOff)
      OBVIOUS
    <3>6. x \in 1 .. d
      BY <3>1, <3>4, <3>5
    <3> QED
      BY <3>2, <3>5, <3>6, Zenon
  <2>3. rt.plainOff[rt.src[i + 1] + 1] \in Nat
    <3>0. PICK x : x = rt.src[i + 1] + 1
      OBVIOUS
    <3>1. PICK o \in Seq(Nat) : o = rt.plainOff
      BY <1>1, Zenon
    <3>2. x \in 1 .. Len(o)
      BY <2>2, <3>0, <3>1, Zenon
    <3>3. o[x] \in Nat
      BY <3>2
    <3> QED
      BY <3>0, <3>1, <3>3, Zenon
  <2>4. PICK z \in Nat : z = rt.plainOff[rt.src[i + 1] + 1]
    BY <2>3, Zenon
  <2>5. z + 1 = p
    BY <1>12, <2>4, Zenon
  <2>6. z = lo
    BY <1>14, <2>5
  <2> QED
    BY <2>4, <2>6, Zenon
<1>16. Standing(rt, L, query, lo, hi)
  <2>1. L[lo] = i /\ L[hi] = e /\ i + w = e
    BY <1>3, <1>13, <1>14, Zenon
  <2>2. /\ L[lo] \in Nat /\ L[hi] = L[lo] + Len(query) /\ L[hi] <= Len(rt.fold)
        /\ SubSeq(rt.fold, L[lo] + 1, L[hi]) = query
    BY <1>2, <1>5, <1>6, <1>7, <2>1, Zenon
  <2>3. ~ Text!isSpace(rt.plain[lo + 1]) /\ ~ Text!isSpace(rt.plain[hi])
    BY <1>12, <1>14, Zenon
  <2> QED
    BY <1>14, <2>2, <2>3, Zenon DEF Standing
<1> QED
  BY <1>2, <1>3, <1>12, <1>13, <1>14, <1>15, <1>16, Zenon

\* Where a trimmed text starts.
LEMMA FromTextIn ==
    ASSUME NEW rt, NEW lo \in Int, NEW hi \in Int
    PROVE  Text!FromText(rt, lo, hi) \in Int
<1> DEFINE kept == {k \in lo .. hi - 1 : ~Text!isSpace(rt.plain[k + 1])}
<1>1. \A x \in kept : x \in Int /\ lo <= x
  OBVIOUS
<1>2. Text!FromText(rt, lo, hi) = IF kept = {} THEN hi ELSE Text!Min(kept)
  BY Zenon DEF Text!FromText
<1> HIDE DEF kept
<1>3. kept # {} => Text!Min(kept) \in kept
  BY <1>1, LeastOf
<1> QED
  BY <1>1, <1>2, <1>3

\* Behind where a trimmed text ends there are marks of blocks only.
LEMMA ToTextFacts ==
    ASSUME NEW rt, NEW lo \in Int, NEW hi \in Int,
           NEW k \in Text!ToText(rt, lo, hi, TRUE) .. hi - 1
    PROVE  rt.plain[k + 1] = "nl"
<1> DEFINE kept == {j \in lo .. hi - 1 : IF TRUE THEN rt.plain[j + 1] # "nl"
                                         ELSE ~Text!isSpace(rt.plain[j + 1])}
<1>1. \A x : x \in kept <=> x \in lo .. hi - 1 /\ rt.plain[x + 1] # "nl"
  OBVIOUS
<1>2. Text!ToText(rt, lo, hi, TRUE) = IF kept = {} THEN lo ELSE Text!Max(kept) + 1
  BY Zenon DEF Text!ToText
<1> HIDE DEF kept
<1>3. CASE kept = {}
  <2>1. k \in lo .. hi - 1
    BY <1>2, <1>3
  <2> QED
    BY <1>1, <1>3, <2>1
<1>4. CASE kept # {}
  <2>1. \A x \in kept : x \in Int /\ x <= hi
    BY <1>1
  <2>2. Text!Max(kept) \in kept /\ \A x \in kept : x <= Text!Max(kept)
    BY <1>4, <2>1, GreatestOf
  <2>3. PICK m \in Int : m = Text!Max(kept) /\ lo <= m /\ \A x \in kept : x <= m
    BY <1>1, <2>2
  <2>4. k \in m + 1 .. hi - 1
    BY <1>2, <1>4, <2>3
  <2>5. k \in lo .. hi - 1 /\ k \notin kept
    BY <2>3, <2>4
  <2> QED
    BY <1>1, <2>5
<1> QED
  BY <1>3, <1>4

\* The context of a match: before it there is nothing that is left out but the ends of
\* lines, and behind it nothing.
Beside(rt, c, start, end) ==
    /\ \A k \in c.before[2] .. start - 1 : rt.plain[k + 1] = "nl"
    /\ c.after[1] = end

\* That is what contextAround finds.
LEMMA ContextFacts ==
    ASSUME NEW rt, rt.plainOff \in Seq(Nat), NEW si \in Nat, NEW se,
           si + 1 \in 1 .. Len(rt.plainOff)
    PROVE  Beside(rt, Text!contextAround(rt, si, se), rt.plainOff[si + 1], rt.plainOff[se + 1])
<1>1. PICK c : c = Text!contextAround(rt, si, se)
  OBVIOUS
<1>2. PICK b : b = IF si > DefaultContextRunes THEN si - DefaultContextRunes ELSE 0
  OBVIOUS
<1>3. b \in 0 .. si
  <2>1. DefaultContextRunes \in Nat
    BY PublicationSearchAssumption DEF Text!TextSearchAssumption
  <2> QED
    BY <1>2, <2>1
<1>4. PICK o \in Seq(Nat) : o = rt.plainOff
  BY Zenon
<1>5. o[b + 1] \in Nat /\ o[si + 1] \in Nat
  <2>1. si + 1 \in 1 .. Len(o)
    BY <1>4, Zenon
  <2>2. b + 1 \in 1 .. Len(o)
    BY <1>3, <2>1
  <2> QED
    BY <2>1, <2>2
<1>6. PICK start \in Nat, early \in Nat : start = o[si + 1] /\ early = o[b + 1]
  BY <1>5, Zenon
<1>7. PICK from \in Int : from = Text!FromText(rt, early, start)
  <2>1. Text!FromText(rt, early, start) \in Int
    <3>1. early \in Int /\ start \in Int
      OBVIOUS
    <3> QED
      BY <3>1, FromTextIn, Zenon
  <2> QED
    BY <2>1, Zenon
<1>8. PICK u : c = [before |-> <<from, Text!ToText(rt, from, start, TRUE)>>,
                    after |-> <<rt.plainOff[se + 1], u>>]
  <2>1. c = [before |-> <<Text!FromText(rt, rt.plainOff[b + 1], rt.plainOff[si + 1]),
                          Text!ToText(rt, Text!FromText(rt, rt.plainOff[b + 1],
                                                        rt.plainOff[si + 1]),
                                      rt.plainOff[si + 1], TRUE)>>,
             after |-> <<rt.plainOff[se + 1],
                         Text!ToText(rt, rt.plainOff[se + 1],
                            rt.plainOff[(IF se + DefaultContextRunes < Len(rt.norm)
                                         THEN se + DefaultContextRunes
                                         ELSE Len(rt.norm)) + 1], FALSE)>>]
    BY <1>1, <1>2, Zenon DEF Text!contextAround
  <2> QED
    BY <1>4, <1>6, <1>7, <2>1, Zenon
<1>9. PICK t : t = Text!ToText(rt, from, start, TRUE)
  OBVIOUS
<1>10. c.before[2] = t /\ c.after[1] = rt.plainOff[se + 1]
  BY <1>8, <1>9
<1>11. \A k \in t .. start - 1 : rt.plain[k + 1] = "nl"
  <2>1. start \in Int
    OBVIOUS
  <2> QED
    BY <1>9, <2>1, ToTextFacts, Zenon
<1>12. start = rt.plainOff[si + 1]
  BY <1>4, <1>6, Zenon
<1> QED
  BY <1>1, <1>10, <1>11, <1>12, Zenon DEF Beside

\* What is found of a query at place i of the folded text.
FoundAt(rt, L, query, i, m) ==
    \E lo \in Nat, hi \in Nat :
       /\ Standing(rt, L, query, lo, hi) /\ L[lo] = i
       /\ m.start = lo /\ m.end = hi /\ Beside(rt, m.context, lo, hi)

\* Each place where the query stands is one.
LEMMA MatchFound ==
    ASSUME NEW rt, NEW L, Finished(rt, L), NEW query, Queried(query), NEW i \in Nat,
           i + Len(query) <= Len(rt.fold), Text!StandsAt(rt, query, i)
    PROVE  FoundAt(rt, L, query, i, Text!buildMatch(rt, i, i + Len(query)))
<1>1. PICK lo \in Nat, hi \in Nat :
              /\ Standing(rt, L, query, lo, hi) /\ L[lo] = i
              /\ rt.plainOff[rt.src[i + 1] + 1] = lo
              /\ rt.plainOff[rt.src[i + Len(query)] + 2] = hi
  BY MatchPlaces
<1>2. PICK m : m = Text!buildMatch(rt, i, i + Len(query))
  OBVIOUS
<1>3. PICK si, se : si = rt.src[i + 1] /\ se = rt.src[i + Len(query)] + 1
  BY Zenon
<1>4. m = [start |-> rt.plainOff[si + 1], end |-> rt.plainOff[se + 1],
           context |-> Text!contextAround(rt, si, se)]
  BY <1>2, <1>3, Zenon DEF Text!buildMatch
<1>5. m.start = rt.plainOff[si + 1] /\ m.end = rt.plainOff[se + 1]
      /\ m.context = Text!contextAround(rt, si, se)
  BY <1>4
<1>6. PICK f \in Nat, w \in Nat : f = Len(rt.fold) /\ w = Len(query) /\ w >= 1 /\ i + w <= f
  <2>1. rt.fold \in Seq(Text!Characters)
    BY Zenon DEF Finished
  <2>2. Len(rt.fold) \in Nat
    BY <2>1
  <2>3. Len(query) \in Nat /\ Len(query) # 0
    BY Zenon DEF Queried
  <2>4. PICK f \in Nat, w \in Nat : f = Len(rt.fold) /\ w = Len(query)
    BY <2>2, <2>3, Zenon
  <2>5. w # 0 /\ i + w <= f
    BY <2>3, <2>4, Zenon
  <2>6. w >= 1
    BY <2>5
  <2> QED
    BY <2>4, <2>5, <2>6, Zenon
<1>7. PICK src \in Seq(Nat) : src = rt.src /\ Len(src) = f
  BY <1>6, Zenon DEF Finished
<1>8. si \in Nat /\ src[i + w] \in Nat /\ i + 1 \in 1 .. f /\ i + w \in 1 .. f
  <2>1. i + 1 \in 1 .. Len(src) /\ i + w \in 1 .. Len(src)
    BY <1>6, <1>7
  <2>2. src[i + 1] \in Nat /\ src[i + w] \in Nat
    BY <2>1
  <2> QED
    BY <1>3, <1>7, <2>1, <2>2, Zenon
<1>9. se + 1 = rt.src[i + Len(query)] + 2
  <2>1. PICK x \in Nat : x = src[i + w]
    BY <1>8, Zenon
  <2>2. (x + 1) + 1 = x + 2
    OBVIOUS
  <2> QED
    BY <1>3, <1>6, <1>7, <2>1, <2>2, Zenon
<1>10. m.start = lo /\ m.end = hi
  BY <1>1, <1>3, <1>5, <1>9, Zenon
<1>11. si + 1 \in 1 .. Len(rt.plainOff) /\ rt.plainOff \in Seq(Nat)
  <2>1. \E k \in 1 .. Len(rt.norm) : rt.src[i + 1] + 1 = k
    BY <1>6, <1>8, Zenon DEF Finished, Traced
  <2>2. PICK k \in 1 .. Len(rt.norm) : rt.src[i + 1] + 1 = k
    BY <2>1, Zenon
  <2>3. rt.norm \in Seq(Text!Characters) /\ Len(rt.plainOff) = Len(rt.norm) + 1
        /\ rt.plainOff \in Seq(Nat)
    BY Zenon DEF Finished
  <2>4. PICK n \in Nat : n = Len(rt.norm)
    <3>1. Len(rt.norm) \in Nat
      BY <2>3
    <3> QED
      BY <3>1, Zenon
  <2>5. k \in 1 .. n /\ Len(rt.plainOff) = n + 1
    BY <2>2, <2>3, <2>4, Zenon
  <2>6. k \in 1 .. Len(rt.plainOff)
    BY <2>5
  <2> QED
    BY <1>3, <2>2, <2>3, <2>6, Zenon
<1>12. Beside(rt, m.context, lo, hi)
  <2>1. Beside(rt, Text!contextAround(rt, si, se), rt.plainOff[si + 1], rt.plainOff[se + 1])
    BY <1>8, <1>11, ContextFacts, Zenon
  <2> QED
    BY <1>5, <1>10, <2>1, Zenon
<1> QED
  BY <1>1, <1>2, <1>10, <1>12, Zenon DEF FoundAt

-----------------------------------------------------------------------------
(* The scan of a resource: of what stands in it, all but what overlaps.    *)

\* The function that findInResource computes.
Scanning(f, rt, query) ==
    f = [i \in 0 .. (Len(rt.fold) - Len(query)) + 1 |->
            IF i = 0 THEN <<>>
            ELSE IF /\ f[i - 1] = <<>> \/ Text!Last(f[i - 1]) + Len(query) < i
                    /\ Text!StandsAt(rt, query, i - 1)
                 THEN Append(f[i - 1], i - 1) ELSE f[i - 1]]

\* What has been found behind each place.
ScanStep(rt, query, i, x, r) ==
    LET free == x = <<>> \/ x[Len(x)] + Len(query) < i
        here == Text!StandsAt(rt, query, i - 1)
    IN  /\ free /\ here => r = Append(x, i - 1)
        /\ ~ (free /\ here) => r = x
ScansBy(g, rt, query, n) ==
    /\ g[0] = <<>>
    /\ \A i \in 1 .. n : ScanStep(rt, query, i, g[i - 1], g[i])
    /\ Text!findInResource(rt, query) =
          [k \in DOMAIN g[n] |-> Text!buildMatch(rt, g[n][k], g[n][k] + Len(query))]

\* findInResource goes from place to place.
LEMMA ScanSteps ==
    ASSUME NEW rt, NEW query, query # <<>>, NEW n \in Nat \ {0},
           NEW last \in Nat, last = Len(rt.fold) - Len(query), n = last + 1
    PROVE  \E g \in [0 .. n -> Seq(Nat)] : ScansBy(g, rt, query, n)
<1> DEFINE M == Seq(Nat)
           e == <<>>
           after(i, x) == IF /\ x = <<>> \/ Text!Last(x) + Len(query) < i
                             /\ Text!StandsAt(rt, query, i - 1)
                          THEN Append(x, i - 1) ELSE x
           step == [i \in 1 .. n |-> [x \in M |-> after(i, x)]]
           g == CHOOSE f : Scanning(f, rt, query)
<1>1. n \in Nat /\ e \in M
  OBVIOUS
<1>2. \A i \in 1 .. n : \A x \in M : after(i, x) \in M
  <2> SUFFICES ASSUME NEW i \in 1 .. n, NEW x \in M PROVE after(i, x) \in M
    BY Zenon
  <2>1. i - 1 \in Nat
    OBVIOUS
  <2>2. Append(x, i - 1) \in M
    BY <2>1
  <2> QED
    BY <2>2, Zenon
<1>3. step \in [1 .. n -> [M -> M]]
  <2> HIDE DEF after, M
  <2> QED
    BY <1>2
<1>4. PICK f \in [0 .. n -> M] : f[0] = e /\ \A i \in 1 .. n : f[i] = step[i][f[i - 1]]
  <2> HIDE DEF step, M, e
  <2>1. PICK f \in [0 .. n -> M] : GoesBy(f, n, e, step)
    BY <1>1, <1>3, Recursion, Zenon
  <2> QED
    BY <2>1, Zenon DEF GoesBy
<1>5. ASSUME NEW i \in 1 .. n PROVE f[i] = after(i, f[i - 1])
  <2>1. i - 1 \in 0 .. n
    OBVIOUS
  <2>2. f[i - 1] \in M
    BY <1>4, <2>1, Zenon
  <2>3. step[i][f[i - 1]] = after(i, f[i - 1])
    <3> HIDE DEF after, M
    <3> QED
      BY <2>2
  <2> HIDE DEF step, after
  <2> QED
    BY <1>4, <2>3, Zenon
<1>14. n = (Len(rt.fold) - Len(query)) + 1 /\ ~ (Len(rt.fold) - Len(query) < 0)
  OBVIOUS
<1>6. Scanning(f, rt, query)
  <2>1. ASSUME NEW i \in 0 .. n PROVE f[i] = IF i = 0 THEN e ELSE after(i, f[i - 1])
    <3>1. CASE i = 0
      BY <1>4, <3>1, Zenon
    <3>2. CASE i # 0
      <4>1. i \in 1 .. n
        BY <3>2
      <4> HIDE DEF after
      <4> QED
        BY <1>5, <3>2, <4>1, Zenon
    <3> QED
      BY <3>1, <3>2, Zenon
  <2>2. f = [i \in 0 .. n |-> f[i]]
    BY <1>4, Zenon
  <2>3. f = [i \in 0 .. n |-> IF i = 0 THEN e ELSE after(i, f[i - 1])]
    <3> HIDE DEF after
    <3> QED
      BY <2>1, <2>2
  <2>4. f = [i \in 0 .. (Len(rt.fold) - Len(query)) + 1 |-> IF i = 0 THEN e ELSE after(i, f[i - 1])]
    <3> HIDE DEF after, e
    <3> QED
      BY <1>14, <2>3
  <2> QED
    BY <2>4, Zenon DEF Scanning
<1>7. Scanning(g, rt, query)
  BY <1>6, Zenon
<1>8. Text!findInResource(rt, query) =
          [k \in DOMAIN g[n] |-> Text!buildMatch(rt, g[n][k], g[n][k] + Len(query))]
  <2> DEFINE m == (Len(rt.fold) - Len(query)) + 1
  <2>1. Text!findInResource(rt, query) =
          IF query = <<>> \/ Len(rt.fold) - Len(query) < 0 THEN <<>>
          ELSE [k \in DOMAIN g[m] |-> Text!buildMatch(rt, g[m][k], g[m][k] + Len(query))]
    BY Zenon DEF Text!findInResource, Scanning
  <2> HIDE DEF g, m
  <2>2. Text!findInResource(rt, query) =
           [k \in DOMAIN g[m] |-> Text!buildMatch(rt, g[m][k], g[m][k] + Len(query))]
    BY <1>14, <2>1, Zenon
  <2>3. m = n
    BY <1>14, Zenon DEF m
  <2> QED
    BY <2>2, <2>3, Zenon
<1> HIDE DEF g
<1>9. g = [i \in 0 .. n |-> IF i = 0 THEN e ELSE after(i, g[i - 1])]
  <2>1. g = [i \in 0 .. (Len(rt.fold) - Len(query)) + 1 |-> IF i = 0 THEN e ELSE after(i, g[i - 1])]
    BY <1>7, Zenon DEF Scanning
  <2> HIDE DEF after, e
  <2> QED
    BY <1>14, <2>1
<1> HIDE DEF after, e, M
<1>10. g[0] = e /\ \A i \in 1 .. n : g[i] = after(i, g[i - 1])
  <2>1. \A i \in 0 .. n : g[i] = IF i = 0 THEN e ELSE after(i, g[i - 1])
    BY <1>9, Zenon
  <2>2. 0 \in 0 .. n /\ \A i \in 1 .. n : i # 0 /\ i \in 0 .. n
    BY <1>1
  <2> QED
    BY <2>1, <2>2, Zenon
<1>11. \A i \in 0 .. n : g[i] \in M
  <2>1. \A i \in 1 .. n : g[i - 1] \in M => g[i] \in M
    BY <1>2, <1>10, Zenon
  <2>2. g[0] \in M
    BY <1>1, <1>10, Zenon
  <2> QED
    BY <1>1, <2>1, <2>2, StaysIn
<1>12. g \in [0 .. n -> M]
  BY <1>9, <1>11
<1>13. \A i \in 1 .. n : ScanStep(rt, query, i, g[i - 1], g[i])
  BY <1>10, Zenon DEF ScanStep, after, Text!Last
<1> QED
  BY <1>8, <1>10, <1>12, <1>13, Zenon DEF ScansBy, e, M

\* The places up to i where the query stands, but for those in what has been found.
Scanned(s, rt, query, w, i) ==
    /\ s \in Seq(Nat)
    /\ \A k \in 1 .. Len(s) : s[k] < i /\ Text!StandsAt(rt, query, s[k])
    /\ \A k \in 1 .. Len(s) : \A j \in k + 1 .. Len(s) : s[k] < s[j]
    /\ \A j \in 0 .. i - 1 : Text!StandsAt(rt, query, j) =>
          \E k \in 1 .. Len(s) : s[k] <= j /\ j < s[k] + w

\* One place further.
LEMMA ScannedMore ==
    ASSUME NEW rt, NEW query, NEW w \in Nat \ {0}, w = Len(query), NEW i \in Nat \ {0},
           NEW x, Scanned(x, rt, query, w, i - 1), NEW r, ScanStep(rt, query, i, x, r)
    PROVE  Scanned(r, rt, query, w, i)
<1>1. PICK s \in Seq(Nat), n \in Nat : s = x /\ n = Len(s)
  <2>1. x \in Seq(Nat)
    BY Zenon DEF Scanned
  <2>2. Len(x) \in Nat
    BY <2>1
  <2> QED
    BY <2>1, <2>2, Zenon
<1>2. /\ \A k \in 1 .. n : s[k] < i - 1 /\ Text!StandsAt(rt, query, s[k])
      /\ \A k \in 1 .. n : \A j \in k + 1 .. n : s[k] < s[j]
      /\ \A j \in 0 .. (i - 1) - 1 : Text!StandsAt(rt, query, j) =>
            \E k \in 1 .. n : s[k] <= j /\ j < s[k] + w
  BY <1>1, Zenon DEF Scanned
<1>3. \A k \in 1 .. n : s[k] \in Nat
  BY <1>1
<1>4. CASE (n = 0 \/ s[n] + w < i) /\ Text!StandsAt(rt, query, i - 1)
  <2>1. s = <<>> \/ s[Len(s)] + Len(query) < i
    BY <1>1, <1>4
  <2>2. r = Append(s, i - 1)
    BY <1>1, <1>4, <2>1, Zenon DEF ScanStep
  <2>3. i - 1 \in Nat
    OBVIOUS
  <2>4. /\ r \in Seq(Nat) /\ Len(r) = n + 1 /\ r[n + 1] = i - 1
        /\ \A k \in 1 .. n : r[k] = s[k]
    BY <1>1, <2>2, <2>3
  <2>5. ASSUME NEW k \in 1 .. n + 1 PROVE r[k] < i /\ Text!StandsAt(rt, query, r[k])
    <3>1. CASE k = n + 1
      BY <1>4, <2>4, <3>1
    <3>2. CASE k # n + 1
      <4>1. k \in 1 .. n
        BY <3>2
      <4>2. r[k] = s[k] /\ s[k] < i - 1 /\ Text!StandsAt(rt, query, s[k])
        BY <1>2, <2>4, <4>1, Zenon
      <4> QED
        BY <1>3, <4>1, <4>2
    <3> QED
      BY <3>1, <3>2
  <2>6. ASSUME NEW k \in 1 .. n + 1, NEW j \in k + 1 .. n + 1 PROVE r[k] < r[j]
    <3>1. k \in 1 .. n /\ r[k] = s[k]
      BY <2>4
    <3>2. CASE j = n + 1
      BY <1>2, <2>4, <3>1, <3>2
    <3>3. CASE j # n + 1
      <4>1. j \in 1 .. n /\ j \in k + 1 .. n
        BY <3>1, <3>3
      <4> QED
        BY <1>2, <2>4, <3>1, <4>1, Zenon
    <3> QED
      BY <3>2, <3>3
  <2>7. ASSUME NEW j \in 0 .. i - 1, Text!StandsAt(rt, query, j)
        PROVE  \E k \in 1 .. n + 1 : r[k] <= j /\ j < r[k] + w
    <3>1. CASE j = i - 1
      <4>1. n + 1 \in 1 .. n + 1 /\ i - 1 <= j /\ j < (i - 1) + w
        BY <3>1
      <4> QED
        BY <2>4, <4>1
    <3>2. CASE j # i - 1
      <4>1. j \in 0 .. (i - 1) - 1
        BY <3>2
      <4>2. PICK k \in 1 .. n : s[k] <= j /\ j < s[k] + w
        BY <1>2, <2>7, <4>1, Zenon
      <4>3. k \in 1 .. n + 1 /\ r[k] = s[k]
        BY <2>4
      <4> QED
        BY <4>2, <4>3, Zenon
    <3> QED
      BY <3>1, <3>2
  <2> QED
    BY <2>4, <2>5, <2>6, <2>7 DEF Scanned
<1>5. CASE ~ ((n = 0 \/ s[n] + w < i) /\ Text!StandsAt(rt, query, i - 1))
  <2>1. n = 0 \/ s[n] + w < i <=> s = <<>> \/ s[Len(s)] + Len(query) < i
    BY <1>1
  <2>2. r = s
    BY <1>1, <1>5, <2>1, Zenon DEF ScanStep
  <2>3. ASSUME NEW k \in 1 .. n PROVE s[k] < i /\ Text!StandsAt(rt, query, s[k])
    BY <1>2, <1>3
  <2>4. ASSUME NEW j \in 0 .. i - 1, Text!StandsAt(rt, query, j)
        PROVE  \E k \in 1 .. n : s[k] <= j /\ j < s[k] + w
    <3>1. CASE j = i - 1
      <4>1. n # 0 /\ ~ (s[n] + w < i)
        BY <1>5, <2>4, <3>1, Zenon
      <4>2. n \in 1 .. n
        BY <4>1
      <4>3. s[n] < i - 1 /\ s[n] \in Nat
        BY <1>2, <1>3, <4>2, Zenon
      <4>4. s[n] <= j /\ j < s[n] + w
        BY <3>1, <4>1, <4>3
      <4> QED
        BY <4>2, <4>4, Zenon
    <3>2. CASE j # i - 1
      <4>1. j \in 0 .. (i - 1) - 1
        BY <3>2
      <4> QED
        BY <1>2, <2>4, <4>1, Zenon
    <3> QED
      BY <3>1, <3>2
  <2> QED
    BY <1>1, <1>2, <2>2, <2>3, <2>4, Zenon DEF Scanned
<1> QED
  BY <1>4, <1>5

\* The matches that are built at places.
BuiltAt(r, s, rt, query) ==
    r = [k \in DOMAIN s |-> Text!buildMatch(rt, s[k], s[k] + Len(query))]

\* What is found in a resource: matches at places from left to right, each where the
\* query stands; and each place where it stands is in one of them.
LEMMA ScanFinds ==
    ASSUME NEW rt, rt.fold \in Seq(Text!Characters), NEW query, Queried(query),
           NEW last \in Nat, last = Len(rt.fold) - Len(query)
    PROVE  \E s : /\ Scanned(s, rt, query, Len(query), last + 1)
                  /\ BuiltAt(Text!findInResource(rt, query), s, rt, query)
<1>1. PICK w \in Nat \ {0} : w = Len(query)
  <2>1. Len(query) \in Nat /\ Len(query) # 0
    BY Zenon DEF Queried
  <2>2. PICK w \in Nat : w = Len(query)
    BY <2>1, Zenon
  <2>3. w \in Nat \ {0}
    BY <2>1, <2>2
  <2> QED
    BY <2>2, <2>3, Zenon
<1>2. PICK n \in Nat \ {0} : n = last + 1
  <2>1. last + 1 \in Nat \ {0}
    OBVIOUS
  <2> QED
    BY <2>1, Zenon
<1>3. query # <<>>
  <2>1. query \in Seq(Text!Characters) /\ Len(query) # 0
    BY Zenon DEF Queried
  <2> QED
    BY <2>1
<1>4. PICK g \in [0 .. n -> Seq(Nat)] : ScansBy(g, rt, query, n)
  BY <1>2, <1>3, ScanSteps, Zenon
<1>5. /\ g[0] = <<>>
      /\ \A i \in 1 .. n : ScanStep(rt, query, i, g[i - 1], g[i])
      /\ Text!findInResource(rt, query) =
            [k \in DOMAIN g[n] |-> Text!buildMatch(rt, g[n][k], g[n][k] + Len(query))]
  BY <1>4, Zenon DEF ScansBy
<1> DEFINE T == {i \in 0 .. n : Scanned(g[i], rt, query, w, i)}
<1>6. 0 \in T
  <2>1. Len(g[0]) = 0 /\ g[0] \in Seq(Nat)
    BY <1>5
  <2>2. Scanned(g[0], rt, query, w, 0)
    BY <2>1 DEF Scanned
  <2> QED
    BY <2>2
<1>7. ASSUME NEW i \in 1 .. n, i - 1 \in T PROVE i \in T
  <2>1. Scanned(g[i - 1], rt, query, w, i - 1)
    BY <1>7, Zenon
  <2>2. ScanStep(rt, query, i, g[i - 1], g[i])
    BY <1>5, Zenon
  <2>3. i \in Nat \ {0} /\ i \in 0 .. n
    OBVIOUS
  <2>4. Scanned(g[i], rt, query, w, i)
    BY <1>1, <2>1, <2>2, <2>3, ScannedMore, Zenon
  <2> QED
    BY <2>3, <2>4, Zenon
<1> HIDE DEF T
<1>8. 0 .. n \subseteq T
  BY <1>6, <1>7, InductionUpTo, Zenon
<1>9. Scanned(g[n], rt, query, w, n)
  <2>1. n \in 0 .. n
    OBVIOUS
  <2> QED
    BY <1>8, <2>1, Zenon DEF T
<1>10. BuiltAt(Text!findInResource(rt, query), g[n], rt, query)
  BY <1>5, Zenon DEF BuiltAt
<1> QED
  BY <1>1, <1>2, <1>9, <1>10, Zenon

\* A match of a resource: the query occurs there, and the context is next to it.
MatchIn(rt, query, m) ==
    /\ m.start \in Nat /\ m.end \in Nat /\ m.start < m.end /\ m.end <= Len(rt.plain)
    /\ Occurs(rt.plain, query, m.start, m.end) /\ Beside(rt, m.context, m.start, m.end)

\* Where the query occurs there is a match, or one that overlaps.
Covered(rt, query, r, n) ==
    \A lo \in 0 .. Len(rt.plain) - 1 : \A hi \in lo + 1 .. Len(rt.plain) :
       query # <<>> /\ Occurs(rt.plain, query, lo, hi) =>
          \E k \in 1 .. n : r[k].start < hi /\ lo < r[k].end

\* All that is found in a resource.
AllFound(rt, query, r, n) ==
    /\ n \in Nat /\ DOMAIN r = 1 .. n
    /\ \A k \in 1 .. n : MatchIn(rt, query, r[k])
    /\ \A k \in 1 .. n : \A j \in k + 1 .. n : r[k].start < r[j].start
    /\ Covered(rt, query, r, n)

\* One place is before another when as much of the folded text is.
LEMMA PlacesCompare ==
    ASSUME NEW rt, NEW L, Finished(rt, L), NEW p \in Nat, NEW q \in Nat,
           p <= Len(rt.plain), q <= Len(rt.plain), L[p] < L[q]
    PROVE  p < q
<1> SUFFICES ASSUME q <= p PROVE FALSE
  OBVIOUS
<1>1. Spread(rt.plain, rt.fold, L) /\ rt.plain \in Seq(PlainCharacters)
  BY Zenon DEF Finished
<1>2. PICK n \in Nat : n = Len(rt.plain)
  <2>1. Len(rt.plain) \in Nat
    BY <1>1
  <2> QED
    BY <2>1, Zenon
<1>3. p \in 0 .. n /\ q \in 0 .. n
  BY <1>2
<1>4. L[q] <= L[p]
  BY <1>1, <1>2, <1>3, SpreadAscends, Zenon
<1>5. L[p] \in Nat /\ L[q] \in Nat
  <2>1. L \in [0 .. n -> Nat]
    BY <1>1, <1>2, Zenon DEF Spread
  <2> QED
    BY <1>3, <2>1
<1> QED
  BY <1>4, <1>5

\* A match that comes from place i of the folded text.
FoundFrom(rt, L, query, i, m) ==
    MatchIn(rt, query, m) /\ L[m.start] = i /\ L[m.end] = i + Len(query)

\* What is found at a place is a match.
LEMMA FoundIsMatch ==
    ASSUME NEW rt, NEW L, Finished(rt, L), NEW query, Queried(query), NEW i,
           Text!StandsAt(rt, query, i), NEW m, FoundAt(rt, L, query, i, m)
    PROVE  FoundFrom(rt, L, query, i, m)
<1>1. PICK lo \in Nat, hi \in Nat :
       /\ Standing(rt, L, query, lo, hi) /\ L[lo] = i
       /\ m.start = lo /\ m.end = hi /\ Beside(rt, m.context, lo, hi)
  BY Zenon DEF FoundAt
<1>2. /\ lo < hi /\ hi <= Len(rt.plain) /\ L[hi] = L[lo] + Len(query) /\ L[lo] \in Nat
  BY <1>1, Zenon DEF Standing
<1>3. Text!StandsAt(rt, query, L[lo])
  BY <1>1, Zenon
<1>4. Occurs(rt.plain, query, lo, hi)
  BY <1>1, <1>3, StandsAndOccurs, Zenon
<1>5. MatchIn(rt, query, m)
  BY <1>1, <1>2, <1>4, Zenon DEF MatchIn
<1> QED
  BY <1>1, <1>2, <1>5, Zenon DEF FoundFrom

\* Nothing is found where there is not enough text, or no query.
LEMMA NothingFound ==
    ASSUME NEW rt, NEW L, Finished(rt, L), NEW query, query = <<>> \/ Queried(query),
           query = <<>> \/ Len(rt.fold) - Len(query) < 0
    PROVE  AllFound(rt, query, Text!findInResource(rt, query), 0)
<1>1. Text!findInResource(rt, query) = <<>>
  BY Zenon DEF Text!findInResource
<1>2. DOMAIN Text!findInResource(rt, query) = 1 .. 0
  BY <1>1
<1>3. Covered(rt, query, Text!findInResource(rt, query), 0)
  <2>1. ASSUME NEW lo \in 0 .. Len(rt.plain) - 1, NEW hi \in lo + 1 .. Len(rt.plain),
               query # <<>>, Occurs(rt.plain, query, lo, hi)
        PROVE  FALSE
    <3>1. rt.plain \in Seq(PlainCharacters) /\ rt.fold \in Seq(Text!Characters)
      BY Zenon DEF Finished
    <3>2. lo \in Nat /\ hi \in Nat /\ lo < hi /\ hi <= Len(rt.plain)
      <4>1. Len(rt.plain) \in Nat
        BY <3>1
      <4> QED
        BY <4>1
    <3>3. Queried(query)
      BY <2>1, Zenon
    <3>4. Standing(rt, L, query, lo, hi)
      BY <2>1, <3>2, <3>3, OccursStanding, Zenon
    <3>5. L[lo] \in Nat /\ L[hi] = L[lo] + Len(query) /\ L[hi] <= Len(rt.fold)
      BY <3>4, Zenon DEF Standing
    <3>6. Len(query) \in Nat
      BY <3>3 DEF Queried
    <3>7. Len(rt.fold) \in Nat
      BY <3>1
    <3>8. Len(rt.fold) - Len(query) < 0
      BY <2>1, Zenon
    <3> QED
      BY <3>5, <3>6, <3>7, <3>8
  <2> QED
    BY <2>1, Zenon DEF Covered
<1>4. \A k : k \notin 1 .. 0
  OBVIOUS
<1>5. 0 \in Nat
  OBVIOUS
<1> QED
  BY <1>2, <1>3, <1>4, <1>5, Zenon DEF AllFound

\* What the scan of a resource finds is right, and all there is.
LEMMA SomethingFound ==
    ASSUME NEW rt, NEW L, Finished(rt, L), NEW query, Queried(query),
           NEW last \in Nat, last = Len(rt.fold) - Len(query)
    PROVE  \E n : AllFound(rt, query, Text!findInResource(rt, query), n)
<1>1. /\ rt.fold \in Seq(Text!Characters) /\ rt.plain \in Seq(PlainCharacters)
      /\ Spread(rt.plain, rt.fold, L)
  BY Zenon DEF Finished
<1>2. PICK s : /\ Scanned(s, rt, query, Len(query), last + 1)
               /\ BuiltAt(Text!findInResource(rt, query), s, rt, query)
  BY <1>1, ScanFinds, Zenon
<1>3. PICK w \in Nat, f \in Nat : w = Len(query) /\ f = Len(rt.fold) /\ w # 0
  <2>1. Len(query) \in Nat /\ Len(query) # 0
    BY Zenon DEF Queried
  <2>2. Len(rt.fold) \in Nat
    BY <1>1
  <2> QED
    BY <2>1, <2>2, Zenon
<1>4. PICK n \in Nat : DOMAIN s = 1 .. n /\ n = Len(s) /\ s \in Seq(Nat)
  <2>1. s \in Seq(Nat)
    BY <1>2, Zenon DEF Scanned
  <2>2. Len(s) \in Nat /\ DOMAIN s = 1 .. Len(s)
    BY <2>1
  <2> QED
    BY <2>1, <2>2, Zenon
<1>5. /\ \A k \in 1 .. n : s[k] < last + 1 /\ Text!StandsAt(rt, query, s[k])
      /\ \A k \in 1 .. n : \A j \in k + 1 .. n : s[k] < s[j]
      /\ \A j \in 0 .. (last + 1) - 1 : Text!StandsAt(rt, query, j) =>
            \E k \in 1 .. n : s[k] <= j /\ j < s[k] + w
  BY <1>2, <1>3, <1>4, Zenon DEF Scanned
<1>6. PICK r : r = Text!findInResource(rt, query)
  BY Zenon
<1>7. /\ DOMAIN r = 1 .. n
      /\ \A k \in 1 .. n : r[k] = Text!buildMatch(rt, s[k], s[k] + Len(query))
  <2>1. r = [k \in DOMAIN s |-> Text!buildMatch(rt, s[k], s[k] + Len(query))]
    BY <1>2, <1>6, Zenon DEF BuiltAt
  <2> QED
    BY <1>4, <2>1
<1>8. \A k \in 1 .. n : s[k] \in Nat
  BY <1>4
<1>9. ASSUME NEW k \in 1 .. n
      PROVE  /\ MatchIn(rt, query, r[k])
             /\ L[r[k].start] = s[k] /\ L[r[k].end] = s[k] + Len(query)
  <2>1. PICK i \in Nat : i = s[k] /\ Text!StandsAt(rt, query, i) /\ i < last + 1
    BY <1>5, <1>8, Zenon
  <2>2. i + Len(query) <= Len(rt.fold)
    BY <1>3, <2>1
  <2>3. FoundAt(rt, L, query, i, r[k])
    <3>1. FoundAt(rt, L, query, i, Text!buildMatch(rt, i, i + Len(query)))
      BY <2>1, <2>2, MatchFound, Zenon
    <3>2. r[k] = Text!buildMatch(rt, i, i + Len(query))
      BY <1>7, <2>1
    <3> QED
      BY <3>1, <3>2, Zenon
  <2>4. MatchIn(rt, query, r[k]) /\ L[r[k].start] = i /\ L[r[k].end] = i + Len(query)
    <3>1. FoundFrom(rt, L, query, i, r[k])
      BY <2>1, <2>3, FoundIsMatch, Zenon
    <3> QED
      BY <3>1, Zenon DEF FoundFrom
  <2> QED
    BY <2>1, <2>4, Zenon
<1>10. ASSUME NEW k \in 1 .. n
       PROVE  /\ r[k].start \in Nat /\ r[k].end \in Nat /\ r[k].start < r[k].end
              /\ r[k].end <= Len(rt.plain) /\ r[k].start <= Len(rt.plain)
  <2>1. /\ r[k].start \in Nat /\ r[k].end \in Nat /\ r[k].start < r[k].end
        /\ r[k].end <= Len(rt.plain)
    BY <1>9, Zenon DEF MatchIn
  <2>2. Len(rt.plain) \in Nat
    BY <1>1
  <2> QED
    BY <2>1, <2>2
<1>11. ASSUME NEW k \in 1 .. n, NEW j \in k + 1 .. n PROVE r[k].start < r[j].start
  <2>1. j \in 1 .. n
    OBVIOUS
  <2>2. s[k] < s[j]
    BY <1>5, Zenon
  <2>3. L[r[k].start] < L[r[j].start]
    BY <1>9, <2>1, <2>2, Zenon
  <2> QED
    BY <1>10, <2>1, <2>3, PlacesCompare, Zenon
<1>12. Covered(rt, query, r, n)
  <2>1. ASSUME NEW lo \in 0 .. Len(rt.plain) - 1, NEW hi \in lo + 1 .. Len(rt.plain),
               Occurs(rt.plain, query, lo, hi)
        PROVE  \E k \in 1 .. n : r[k].start < hi /\ lo < r[k].end
    <3>1. lo \in Nat /\ hi \in Nat /\ lo < hi /\ hi <= Len(rt.plain) /\ lo <= Len(rt.plain)
      <4>1. Len(rt.plain) \in Nat
        BY <1>1
      <4> QED
        BY <4>1
    <3>2. Standing(rt, L, query, lo, hi)
      BY <2>1, <3>1, OccursStanding, Zenon
    <3>3. Text!StandsAt(rt, query, L[lo])
      BY <2>1, <3>2, StandsAndOccurs, Zenon
    <3>4. L[lo] \in Nat /\ L[hi] = L[lo] + Len(query) /\ L[hi] <= Len(rt.fold)
      BY <3>2, Zenon DEF Standing
    <3>5. PICK a \in Nat, b \in Nat : a = L[lo] /\ b = L[hi] /\ b = a + w /\ b <= f
      <4>1. PICK a \in Nat : a = L[lo]
        BY <3>4, Zenon
      <4>2. PICK b \in Nat : b = a + w
        OBVIOUS
      <4>3. b = L[hi]
        BY <1>3, <3>4, <4>1, <4>2, Zenon
      <4> QED
        BY <1>3, <3>4, <4>1, <4>2, <4>3, Zenon
    <3>6. a \in 0 .. (last + 1) - 1
      BY <1>3, <3>5
    <3>7. PICK k \in 1 .. n : s[k] <= a /\ a < s[k] + w
      BY <1>5, <3>3, <3>5, <3>6, Zenon
    <3>8. L[r[k].start] = s[k] /\ L[r[k].end] = s[k] + w
      BY <1>3, <1>9, Zenon
    <3>9. L[lo] < L[r[k].end]
      BY <3>5, <3>7, <3>8, Zenon
    <3>10. L[r[k].start] < L[hi]
      <4>1. s[k] \in Nat
        BY <1>8
      <4>2. s[k] < b
        BY <1>3, <3>5, <3>7, <4>1
      <4> QED
        BY <3>5, <3>8, <4>2, Zenon
    <3>11. lo < r[k].end
      BY <1>10, <3>1, <3>9, PlacesCompare, Zenon
    <3>12. r[k].start < hi
      BY <1>10, <3>1, <3>10, PlacesCompare, Zenon
    <3> QED
      BY <3>11, <3>12, Zenon
  <2> QED
    BY <2>1, Zenon DEF Covered
<1>13. AllFound(rt, query, r, n)
  BY <1>7, <1>9, <1>11, <1>12, Zenon DEF AllFound
<1> QED
  BY <1>6, <1>13, Zenon

\* Of any query.
LEMMA ResourceFound ==
    ASSUME NEW rt, NEW L, Finished(rt, L), NEW query, query = <<>> \/ Queried(query)
    PROVE  \E n : AllFound(rt, query, Text!findInResource(rt, query), n)
<1>1. CASE query = <<>> \/ Len(rt.fold) - Len(query) < 0
  BY <1>1, NothingFound, Zenon
<1>2. CASE ~ (query = <<>> \/ Len(rt.fold) - Len(query) < 0)
  <2>1. Queried(query)
    BY <1>2, Zenon
  <2>2. Len(query) \in Nat
    BY <2>1 DEF Queried
  <2>3. Len(rt.fold) \in Nat
    <3>1. rt.fold \in Seq(Text!Characters)
      BY Zenon DEF Finished
    <3> QED
      BY <3>1
  <2>4. PICK last \in Nat : last = Len(rt.fold) - Len(query)
    <3>1. Len(rt.fold) - Len(query) \in Nat
      BY <1>2, <2>2, <2>3
    <3> QED
      BY <3>1, Zenon
  <2> QED
    BY <2>1, <2>4, SomethingFound, Zenon
<1> QED
  BY <1>1, <1>2, Zenon

\* A query as it is searched for.
LEMMA QueriesFolded ==
    ASSUME NEW characters \in Seq(Text!Characters), NEW query,
           query = Text!foldAndNormalize(characters)
    PROVE  query = <<>> \/ Queried(query)
<1>1. characters \in Seq(PlainCharacters)
  <2>1. Text!Characters \subseteq PlainCharacters
    BY Zenon DEF PlainCharacters
  <2> QED
    BY <2>1
<1>2. PICK g \in [0 .. Len(characters) -> Seq(Text!Characters)] : FoldsBy(g, characters)
  BY <1>1, FoldSteps, Zenon
<1>3. PICK n \in Nat : n = Len(characters)
  <2>1. Len(characters) \in Nat
    OBVIOUS
  <2> QED
    BY <2>1, Zenon
<1>4. PICK s \in Seq(Text!Characters) : s = g[n]
  <2>1. n \in 0 .. n
    OBVIOUS
  <2> QED
    BY <1>2, <1>3, <2>1, Zenon
<1>5. query = Text!Stripped(s)
  BY <1>2, <1>3, <1>4, Zenon DEF FoldsBy
<1>6. /\ query \in Seq(Text!Characters)
      /\ query # <<>> => query[1] # Blank /\ query[Len(query)] # Blank
  BY <1>5, StrippedFacts, Zenon
<1>7. query # <<>> => Len(query) \in Nat \ {0}
  BY <1>6
<1> QED
  BY <1>6, <1>7, Zenon DEF Queried

-----------------------------------------------------------------------------
(* The corpus, and what is found in it.                                    *)

\* A function that goes from each number from 1 up to n to the next as told.
GoesOnBy(f, n, a, step) == f[1] = a /\ \A i \in 2 .. n : f[i] = step[i][f[i - 1]]

\* There is one.
LEMMA RecursionFromOne ==
    ASSUME NEW S, NEW a \in S, NEW n \in Nat \ {0}, NEW step \in [2 .. n -> [S -> S]]
    PROVE  \E f \in [1 .. n -> S] : GoesOnBy(f, n, a, step)
<1>1. PICK m \in Nat : m = n - 1 /\ n = m + 1
  OBVIOUS
<1> DEFINE later == [i \in 1 .. m |-> step[i + 1]]
<1>2. later \in [1 .. m -> [S -> S]]
  <2>1. ASSUME NEW i \in 1 .. m PROVE step[i + 1] \in [S -> S]
    <3>1. i + 1 \in 2 .. n
      BY <1>1
    <3> QED
      BY <3>1, Zenon
  <2> QED
    BY <2>1, Zenon
<1>3. \A i \in 1 .. m : later[i] = step[i + 1]
  BY Zenon
<1> HIDE DEF later
<1>4. PICK g \in [0 .. m -> S] : GoesBy(g, m, a, later)
  BY <1>2, Recursion, Zenon
<1>5. g[0] = a /\ \A i \in 1 .. m : g[i] = later[i][g[i - 1]]
  BY <1>4, Zenon DEF GoesBy
<1> DEFINE f == [i \in 1 .. n |-> g[i - 1]]
<1>6. f \in [1 .. n -> S]
  <2>1. ASSUME NEW i \in 1 .. n PROVE g[i - 1] \in S
    <3>1. i - 1 \in 0 .. m
      BY <1>1
    <3> QED
      BY <3>1, Zenon
  <2> QED
    BY <2>1, Zenon
<1>7. \A i \in 1 .. n : f[i] = g[i - 1]
  BY Zenon
<1> HIDE DEF f
<1>8. f[1] = a
  <2>1. 1 \in 1 .. n /\ 1 - 1 = 0
    OBVIOUS
  <2> QED
    BY <1>5, <1>7, <2>1
<1>9. ASSUME NEW i \in 2 .. n PROVE f[i] = step[i][f[i - 1]]
  <2>1. PICK j \in 1 .. m : j = i - 1 /\ j + 1 = i
    BY <1>1
  <2>2. i \in 1 .. n /\ j \in 1 .. n
    BY <1>1, <2>1
  <2>3. f[i] = g[j] /\ f[j] = g[j - 1]
    BY <1>7, <2>1, <2>2, Zenon
  <2>4. g[j] = step[i][g[j - 1]]
    BY <1>3, <1>5, <2>1, Zenon
  <2> QED
    BY <2>1, <2>3, <2>4
<1> QED
  BY <1>6, <1>8, <1>9, Zenon DEF GoesOnBy

\* Sequences one after the other, up to the i-th; what R says is in order is.
Merged(s, seqs, V, R, i) ==
    /\ s \in Seq(V)
    /\ \A k \in 1 .. Len(s) : \E p \in 1 .. i : \E j \in 1 .. Len(seqs[p]) : s[k] = seqs[p][j]
    /\ \A p \in 1 .. i : \A j \in 1 .. Len(seqs[p]) : \E k \in 1 .. Len(s) : s[k] = seqs[p][j]
    /\ \A k \in 1 .. Len(s) : \A l \in k + 1 .. Len(s) : <<s[k], s[l]>> \in R

\* Sequences whose elements are in order, within each and from one to another.
InOrder(seqs, R, n) ==
    /\ \A p \in 1 .. n : \A k \in 1 .. Len(seqs[p]) : \A l \in k + 1 .. Len(seqs[p]) :
          <<seqs[p][k], seqs[p][l]>> \in R
    /\ \A p \in 1 .. n : \A q \in p + 1 .. n :
          \A k \in 1 .. Len(seqs[p]) : \A l \in 1 .. Len(seqs[q]) : <<seqs[p][k], seqs[q][l]>> \in R

\* The first.
LEMMA MergedOne ==
    ASSUME NEW V, NEW R, NEW n \in Nat \ {0}, NEW seqs \in [1 .. n -> Seq(V)], InOrder(seqs, R, n)
    PROVE  Merged(seqs[1], seqs, V, R, 1)
<1>1. 1 \in 1 .. n /\ seqs[1] \in Seq(V)
  OBVIOUS
<1>2. \A k \in 1 .. Len(seqs[1]) : \A l \in k + 1 .. Len(seqs[1]) :
         <<seqs[1][k], seqs[1][l]>> \in R
  BY <1>1, Zenon DEF InOrder
<1>3. \A p \in 1 .. 1 : p = 1
  OBVIOUS
<1>4. 1 \in 1 .. 1
  OBVIOUS
<1> QED
  BY <1>1, <1>2, <1>3, <1>4, Zenon DEF Merged

\* And one more.
LEMMA MergedMore ==
    ASSUME NEW V, NEW R, NEW n \in Nat \ {0}, NEW seqs \in [1 .. n -> Seq(V)], InOrder(seqs, R, n),
           NEW i \in 2 .. n, NEW x, Merged(x, seqs, V, R, i - 1), NEW r, r = x \o seqs[i]
    PROVE  Merged(r, seqs, V, R, i)
<1>1. PICK h \in Nat : h = i - 1 /\ i = h + 1 /\ h \in 1 .. n /\ i \in 1 .. n
  OBVIOUS
<1>2. PICK s \in Seq(V), a \in Nat : s = x /\ a = Len(s)
  <2>1. x \in Seq(V)
    BY Zenon DEF Merged
  <2>2. Len(x) \in Nat
    BY <2>1
  <2> QED
    BY <2>1, <2>2, Zenon
<1>3. PICK y \in Seq(V), b \in Nat : y = seqs[i] /\ b = Len(y)
  <2>1. seqs[i] \in Seq(V)
    BY <1>1, Zenon
  <2>2. Len(seqs[i]) \in Nat
    BY <2>1
  <2> QED
    BY <2>1, <2>2, Zenon
<1>4. r = s \o y
  BY <1>2, <1>3, Zenon
<1>5. /\ r \in Seq(V) /\ Len(r) = a + b
      /\ \A k \in 1 .. a : r[k] = s[k]
      /\ \A k \in a + 1 .. a + b : r[k] = y[k - a]
  BY <1>2, <1>3, <1>4
<1>6. /\ \A k \in 1 .. a : \E p \in 1 .. h : \E j \in 1 .. Len(seqs[p]) : s[k] = seqs[p][j]
      /\ \A p \in 1 .. h : \A j \in 1 .. Len(seqs[p]) : \E k \in 1 .. a : s[k] = seqs[p][j]
      /\ \A k \in 1 .. a : \A l \in k + 1 .. a : <<s[k], s[l]>> \in R
  BY <1>1, <1>2, ZenonT(40) DEF Merged
<1>7. /\ \A k \in 1 .. b : \A l \in k + 1 .. b : <<y[k], y[l]>> \in R
      /\ \A p \in 1 .. h : \A k \in 1 .. Len(seqs[p]) : \A l \in 1 .. b : <<seqs[p][k], y[l]>> \in R
  <2>1. \A k \in 1 .. b : \A l \in k + 1 .. b : <<y[k], y[l]>> \in R
    BY <1>1, <1>3, Zenon DEF InOrder
  <2>2. ASSUME NEW p \in 1 .. h, NEW k \in 1 .. Len(seqs[p]), NEW l \in 1 .. b
        PROVE  <<seqs[p][k], y[l]>> \in R
    <3>1. p \in 1 .. n /\ i \in p + 1 .. n
      BY <1>1
    <3> QED
      BY <1>3, <3>1, Zenon DEF InOrder
  <2> QED
    BY <2>1, <2>2, Zenon
<1>8. \A p \in 1 .. h : p \in 1 .. i
  BY <1>1
<1>9. \A k \in 1 .. a + b : k \in 1 .. a \/ (k \in a + 1 .. a + b /\ k - a \in 1 .. b)
  OBVIOUS
<1>10. ASSUME NEW k \in 1 .. a + b
       PROVE  \E p \in 1 .. i : \E j \in 1 .. Len(seqs[p]) : r[k] = seqs[p][j]
  <2>1. CASE k \in 1 .. a
    <3>1. PICK p \in 1 .. h : \E j \in 1 .. Len(seqs[p]) : s[k] = seqs[p][j]
      BY <1>6, <2>1, Zenon
    <3>2. PICK j \in 1 .. Len(seqs[p]) : s[k] = seqs[p][j]
      BY <3>1, Zenon
    <3>3. r[k] = seqs[p][j]
      BY <1>5, <2>1, <3>2
    <3> QED
      BY <1>8, <3>3, Zenon
  <2>2. CASE k \in a + 1 .. a + b /\ k - a \in 1 .. b
    <3>1. r[k] = seqs[i][k - a]
      BY <1>3, <1>5, <2>2
    <3>2. k - a \in 1 .. Len(seqs[i])
      BY <1>3, <2>2, Zenon
    <3>3. i \in 1 .. i
      BY <1>1
    <3> QED
      BY <3>1, <3>2, <3>3, Zenon
  <2> QED
    BY <1>9, <2>1, <2>2, Zenon
<1>11. ASSUME NEW p \in 1 .. i, NEW j \in 1 .. Len(seqs[p])
       PROVE  \E k \in 1 .. a + b : r[k] = seqs[p][j]
  <2>1. CASE p \in 1 .. h
    <3>1. PICK k \in 1 .. a : s[k] = seqs[p][j]
      BY <1>6, <2>1, Zenon
    <3>2. k \in 1 .. a + b
      OBVIOUS
    <3>3. r[k] = seqs[p][j]
      BY <1>5, <3>1
    <3> QED
      BY <3>2, <3>3, Zenon
  <2>2. CASE p = i
    <3>1. j \in 1 .. b
      BY <1>3, <2>2, Zenon
    <3>2. PICK k \in a + 1 .. a + b : k = a + j /\ k - a = j
      BY <3>1
    <3>3. r[k] = y[j]
      BY <1>5, <3>2
    <3>4. k \in 1 .. a + b
      BY <3>2
    <3>5. y[j] = seqs[p][j]
      BY <1>3, <2>2, Zenon
    <3> QED
      BY <3>3, <3>4, <3>5, Zenon
  <2>3. p \in 1 .. h \/ p = i
    BY <1>1
  <2> QED
    BY <2>1, <2>2, <2>3, Zenon
<1>12. ASSUME NEW k \in 1 .. a + b, NEW l \in k + 1 .. a + b PROVE <<r[k], r[l]>> \in R
  <2>1. CASE l \in 1 .. a
    <3>1. k \in 1 .. a /\ l \in k + 1 .. a
      BY <2>1
    <3>2. r[k] = s[k] /\ r[l] = s[l]
      BY <1>5, <2>1, <3>1, Zenon
    <3>3. <<s[k], s[l]>> \in R
      BY <1>6, <3>1, Zenon
    <3> QED
      BY <3>2, <3>3
  <2>2. CASE k \in 1 .. a /\ l \in a + 1 .. a + b
    <3>1. l - a \in 1 .. b
      BY <2>2
    <3>2. r[k] = s[k] /\ r[l] = y[l - a]
      BY <1>5, <2>2, Zenon
    <3>3. PICK p \in 1 .. h : \E j \in 1 .. Len(seqs[p]) : s[k] = seqs[p][j]
      BY <1>6, <2>2, Zenon
    <3>4. PICK j \in 1 .. Len(seqs[p]) : s[k] = seqs[p][j]
      BY <3>3, Zenon
    <3>5. <<seqs[p][j], y[l - a]>> \in R
      BY <1>7, <3>1, Zenon
    <3> QED
      BY <3>2, <3>4, <3>5
  <2>3. CASE k \in a + 1 .. a + b
    <3>1. k - a \in 1 .. b /\ l - a \in (k - a) + 1 .. b /\ l \in a + 1 .. a + b
      BY <2>3
    <3>2. r[k] = y[k - a] /\ r[l] = y[l - a]
      BY <1>5, <2>3, <3>1, Zenon
    <3>3. <<y[k - a], y[l - a]>> \in R
      BY <1>7, <3>1, Zenon
    <3> QED
      BY <3>2, <3>3
  <2>4. l \in 1 .. a \/ (k \in 1 .. a /\ l \in a + 1 .. a + b) \/ k \in a + 1 .. a + b
    OBVIOUS
  <2> QED
    BY <2>1, <2>2, <2>3, <2>4, Zenon
<1>13. PICK d : d = Len(r)
  OBVIOUS
<1>14. d = a + b
  BY <1>5, <1>13, Zenon
<1>15. /\ \A k \in 1 .. d : \E p \in 1 .. i : \E j \in 1 .. Len(seqs[p]) : r[k] = seqs[p][j]
       /\ \A p \in 1 .. i : \A j \in 1 .. Len(seqs[p]) : \E k \in 1 .. d : r[k] = seqs[p][j]
       /\ \A k \in 1 .. d : \A l \in k + 1 .. d : <<r[k], r[l]>> \in R
  BY <1>10, <1>11, <1>12, <1>14
<1> QED
  BY <1>5, <1>13, <1>15, Zenon DEF Merged

\* The function that FlattenSeq computes.
Flattening(f, seqs) ==
    f = [i \in 1 .. Len(seqs) |-> IF i = 1 THEN seqs[i] ELSE f[i - 1] \o seqs[i]]

\* FlattenSeq puts the sequences one after the other.
LEMMA Flattened ==
    ASSUME NEW V, NEW R, NEW n \in Nat, NEW seqs \in [1 .. n -> Seq(V)], InOrder(seqs, R, n)
    PROVE  Merged(Text!FlattenSeq(seqs), seqs, V, R, n)
<1>1. seqs \in Seq(Seq(V)) /\ Len(seqs) = n
  OBVIOUS
<1>2. CASE n = 0
  <2>1. Text!FlattenSeq(seqs) = seqs
    BY <1>1, <1>2 DEF Text!FlattenSeq
  <2>2. seqs = <<>>
    BY <1>1, <1>2
  <2>3. Merged(<<>>, seqs, V, R, 0)
    BY DEF Merged
  <2> QED
    BY <1>2, <2>1, <2>2, <2>3, Zenon
<1>3. CASE n # 0
  <2> DEFINE M == Seq(V)
             a == seqs[1]
             after(i, x) == x \o seqs[i]
             step == [i \in 2 .. n |-> [x \in M |-> after(i, x)]]
             g == CHOOSE f : Flattening(f, seqs)
  <2>1. n \in Nat \ {0} /\ a \in M /\ \A i \in 1 .. n : seqs[i] \in M
    BY <1>3
  <2>2. \A i \in 2 .. n : \A x \in M : after(i, x) \in M
    <3> SUFFICES ASSUME NEW i \in 2 .. n, NEW x \in M PROVE after(i, x) \in M
      BY Zenon
    <3>1. i \in 1 .. n
      OBVIOUS
    <3>2. seqs[i] \in Seq(V)
      BY <2>1, <3>1, Zenon
    <3> QED
      BY <3>2, ConcatIn, Zenon
  <2>3. step \in [2 .. n -> [M -> M]]
    <3> HIDE DEF after, M
    <3> QED
      BY <2>2
  <2>4. PICK f \in [1 .. n -> M] : f[1] = a /\ \A i \in 2 .. n : f[i] = step[i][f[i - 1]]
    <3> HIDE DEF step, M, a
    <3>1. PICK f \in [1 .. n -> M] : GoesOnBy(f, n, a, step)
      BY <2>1, <2>3, RecursionFromOne, Zenon
    <3> QED
      BY <3>1, Zenon DEF GoesOnBy
  <2>5. ASSUME NEW i \in 2 .. n PROVE f[i] = after(i, f[i - 1])
    <3>1. i - 1 \in 1 .. n
      OBVIOUS
    <3>2. f[i - 1] \in M
      BY <2>4, <3>1, Zenon
    <3>3. step[i][f[i - 1]] = after(i, f[i - 1])
      <4> HIDE DEF after, M
      <4> QED
        BY <3>2
    <3> HIDE DEF step, after
    <3> QED
      BY <2>4, <3>3, Zenon
  <2>6. Flattening(f, seqs)
    <3>1. ASSUME NEW i \in 1 .. n PROVE f[i] = IF i = 1 THEN seqs[i] ELSE after(i, f[i - 1])
      <4>1. CASE i = 1
        BY <2>4, <4>1
      <4>2. CASE i # 1
        <5>1. i \in 2 .. n
          BY <4>2
        <5> HIDE DEF after
        <5> QED
          BY <2>5, <4>2, <5>1, Zenon
      <4> HIDE DEF after
      <4> QED
        BY <4>1, <4>2
    <3>2. f = [i \in 1 .. n |-> f[i]]
      BY <2>4, Zenon
    <3>3. f = [i \in 1 .. n |-> IF i = 1 THEN seqs[i] ELSE after(i, f[i - 1])]
      <4> HIDE DEF after
      <4> QED
        BY <3>1, <3>2
    <3>4. f = [i \in 1 .. Len(seqs) |-> IF i = 1 THEN seqs[i] ELSE after(i, f[i - 1])]
      <4> HIDE DEF after
      <4> QED
        BY <1>1, <3>3
    <3> QED
      BY <3>4, Zenon DEF Flattening
  <2>7. Flattening(g, seqs)
    BY <2>6, Zenon
  <2>8. Text!FlattenSeq(seqs) = g[n]
    <3>1. Text!FlattenSeq(seqs) = IF Len(seqs) = 0 THEN seqs ELSE g[Len(seqs)]
      BY Zenon DEF Text!FlattenSeq, Flattening
    <3> HIDE DEF g
    <3> QED
      BY <1>1, <1>3, <3>1
  <2> HIDE DEF g
  <2>9. g = [i \in 1 .. n |-> IF i = 1 THEN seqs[i] ELSE after(i, g[i - 1])]
    <3>1. g = [i \in 1 .. Len(seqs) |-> IF i = 1 THEN seqs[i] ELSE after(i, g[i - 1])]
      BY <2>7, Zenon DEF Flattening
    <3> HIDE DEF after
    <3> QED
      BY <1>1, <3>1
  <2>10. g[1] = seqs[1] /\ \A i \in 2 .. n : g[i] = g[i - 1] \o seqs[i]
    <3>1. \A i \in 1 .. n : g[i] = IF i = 1 THEN seqs[i] ELSE after(i, g[i - 1])
      BY <2>9, Zenon
    <3>2. 1 \in 1 .. n /\ \A i \in 2 .. n : i # 1 /\ i \in 1 .. n
      BY <2>1
    <3> QED
      BY <3>1, <3>2, Zenon
  <2> HIDE DEF after, M, a
  <2> DEFINE T == {i \in 0 .. n : i # 0 => Merged(g[i], seqs, V, R, i)}
  <2>11. 0 \in T
    OBVIOUS
  <2>12. ASSUME NEW i \in 1 .. n, i - 1 \in T PROVE i \in T
    <3>1. CASE i = 1
      <4>1. Merged(seqs[1], seqs, V, R, 1)
        BY <2>1, MergedOne, Zenon
      <4>2. i \in 0 .. n
        OBVIOUS
      <4> QED
        BY <2>10, <3>1, <4>1, <4>2, Zenon
    <3>2. CASE i # 1
      <4>1. i \in 2 .. n /\ i \in 0 .. n /\ i - 1 # 0
        BY <3>2
      <4>2. Merged(g[i - 1], seqs, V, R, i - 1)
        BY <2>12, <4>1, Zenon
      <4>3. g[i] = g[i - 1] \o seqs[i]
        BY <2>10, <4>1, Zenon
      <4>4. Merged(g[i], seqs, V, R, i)
        BY <2>1, <4>1, <4>2, <4>3, MergedMore, Zenon
      <4> QED
        BY <4>1, <4>4, Zenon
    <3> QED
      BY <3>1, <3>2
  <2> HIDE DEF T
  <2>13. 0 .. n \subseteq T
    BY <2>11, <2>12, InductionUpTo, Zenon
  <2>14. n \in 0 .. n
    OBVIOUS
  <2>15. Merged(g[n], seqs, V, R, n)
    BY <1>3, <2>13, <2>14, Zenon DEF T
  <2> QED
    BY <2>8, <2>15, Zenon
<1> QED
  BY <1>2, <1>3

\* The numbers from 1 to i that are in a set, in their order.
Sorted(s, I, i) ==
    /\ s \in Seq(Nat)
    /\ \A k \in 1 .. Len(s) : s[k] \in 1 .. i /\ s[k] \in I
    /\ \A k \in 1 .. Len(s) : \A l \in k + 1 .. Len(s) : s[k] < s[l]
    /\ \A j \in 1 .. i : j \in I => \E k \in 1 .. Len(s) : s[k] = j

\* One more number.
LEMMA SortedMore ==
    ASSUME NEW I, NEW i \in Nat \ {0}, NEW x, Sorted(x, I, i - 1), NEW r,
           i \in I => r = Append(x, i), i \notin I => r = x
    PROVE  Sorted(r, I, i)
<1>1. PICK s \in Seq(Nat), n \in Nat : s = x /\ n = Len(s)
  <2>1. x \in Seq(Nat)
    BY Zenon DEF Sorted
  <2>2. Len(x) \in Nat
    BY <2>1
  <2> QED
    BY <2>1, <2>2, Zenon
<1>2. /\ \A k \in 1 .. n : s[k] \in 1 .. i - 1 /\ s[k] \in I
      /\ \A k \in 1 .. n : \A l \in k + 1 .. n : s[k] < s[l]
      /\ \A j \in 1 .. i - 1 : j \in I => \E k \in 1 .. n : s[k] = j
  BY <1>1, Zenon DEF Sorted
<1>3. CASE i \in I
  <2>1. r = Append(s, i)
    BY <1>1, <1>3, Zenon
  <2>2. /\ r \in Seq(Nat) /\ Len(r) = n + 1 /\ r[n + 1] = i
        /\ \A k \in 1 .. n : r[k] = s[k]
    BY <1>1, <2>1
  <2>3. ASSUME NEW k \in 1 .. n + 1 PROVE r[k] \in 1 .. i /\ r[k] \in I
    <3>1. CASE k = n + 1
      BY <1>3, <2>2, <3>1
    <3>2. CASE k # n + 1
      <4>1. k \in 1 .. n
        BY <3>2
      <4>2. s[k] \in 1 .. i - 1 /\ s[k] \in I /\ r[k] = s[k]
        BY <1>2, <2>2, <4>1, Zenon
      <4> QED
        BY <4>2
    <3> QED
      BY <3>1, <3>2
  <2>4. ASSUME NEW k \in 1 .. n + 1, NEW l \in k + 1 .. n + 1 PROVE r[k] < r[l]
    <3>1. k \in 1 .. n /\ r[k] = s[k]
      BY <2>2
    <3>2. CASE l = n + 1
      <4>1. s[k] \in 1 .. i - 1
        BY <1>2, <3>1, Zenon
      <4> QED
        BY <2>2, <3>1, <3>2, <4>1
    <3>3. CASE l # n + 1
      <4>1. l \in 1 .. n /\ l \in k + 1 .. n
        BY <3>1, <3>3
      <4> QED
        BY <1>2, <2>2, <3>1, <4>1, Zenon
    <3> QED
      BY <3>2, <3>3
  <2>5. ASSUME NEW j \in 1 .. i, j \in I PROVE \E k \in 1 .. n + 1 : r[k] = j
    <3>1. CASE j = i
      <4>1. n + 1 \in 1 .. n + 1
        OBVIOUS
      <4> QED
        BY <2>2, <3>1, <4>1
    <3>2. CASE j # i
      <4>1. j \in 1 .. i - 1
        BY <3>2
      <4>2. PICK k \in 1 .. n : s[k] = j
        BY <1>2, <2>5, <4>1, Zenon
      <4>3. k \in 1 .. n + 1
        OBVIOUS
      <4>4. r[k] = j
        BY <2>2, <4>2
      <4> QED
        BY <4>3, <4>4, Zenon
    <3> QED
      BY <3>1, <3>2
  <2>6. PICK d : d = Len(r)
    OBVIOUS
  <2>7. d = n + 1
    BY <2>2, <2>6, Zenon
  <2>8. /\ \A k \in 1 .. d : r[k] \in 1 .. i /\ r[k] \in I
        /\ \A k \in 1 .. d : \A l \in k + 1 .. d : r[k] < r[l]
        /\ \A j \in 1 .. i : j \in I => \E k \in 1 .. d : r[k] = j
    BY <2>3, <2>4, <2>5, <2>7
  <2> QED
    BY <2>2, <2>6, <2>8, Zenon DEF Sorted
<1>4. CASE i \notin I
  <2>1. r = s
    BY <1>1, <1>4, Zenon
  <2>2. \A k \in 1 .. n : s[k] \in 1 .. i /\ s[k] \in I
    <3> SUFFICES ASSUME NEW k \in 1 .. n PROVE s[k] \in 1 .. i /\ s[k] \in I
      BY Zenon
    <3>1. s[k] \in 1 .. i - 1 /\ s[k] \in I
      BY <1>2, Zenon
    <3> QED
      BY <3>1
  <2>3. \A j \in 1 .. i : j \in I => j \in 1 .. i - 1
    BY <1>4
  <2> QED
    BY <1>1, <1>2, <2>1, <2>2, <2>3, Zenon DEF Sorted
<1> QED
  BY <1>3, <1>4

\* Picked from the numbers themselves.
LEMMA PickedNumbers ==
    ASSUME NEW n \in Nat, NEW I, NEW ids, ids = [i \in 1 .. n |-> i]
    PROVE  Sorted(Text!Picked(ids, I), I, n)
<1>1. ids \in Seq(Nat) /\ Len(ids) = n /\ \A i \in 1 .. n : ids[i] = i
  OBVIOUS
<1>2. PICK g \in [0 .. Len(ids) -> Seq(Nat)] : PicksBy(g, ids, I)
  BY <1>1, PickedSteps, Zenon
<1>3. /\ Text!Picked(ids, I) = g[n] /\ g[0] = <<>>
      /\ \A i \in 1 .. n : g[i] = IF i \in I THEN Append(g[i - 1], ids[i]) ELSE g[i - 1]
  <2>1. /\ Text!Picked(ids, I) = g[Len(ids)] /\ g[0] = <<>>
        /\ \A i \in 1 .. Len(ids) : g[i] = IF i \in I THEN Append(g[i - 1], ids[i]) ELSE g[i - 1]
    BY <1>2, Zenon DEF PicksBy
  <2> QED
    BY <1>1, <2>1
<1> DEFINE T == {i \in 0 .. n : Sorted(g[i], I, i)}
<1>4. 0 \in T
  <2>1. Sorted(<<>>, I, 0)
    BY DEF Sorted
  <2>2. 0 \in 0 .. n
    OBVIOUS
  <2> QED
    BY <1>3, <2>1, <2>2
<1>5. ASSUME NEW i \in 1 .. n, i - 1 \in T PROVE i \in T
  <2>1. Sorted(g[i - 1], I, i - 1)
    BY <1>5, Zenon
  <2>2. (i \in I => g[i] = Append(g[i - 1], i)) /\ (i \notin I => g[i] = g[i - 1])
    BY <1>1, <1>3
  <2>3. i \in Nat \ {0} /\ i \in 0 .. n
    OBVIOUS
  <2>4. Sorted(g[i], I, i)
    BY <2>1, <2>2, <2>3, SortedMore
  <2> QED
    BY <2>3, <2>4, Zenon
<1> HIDE DEF T
<1>6. 0 .. n \subseteq T
  BY <1>4, <1>5, InductionUpTo, Zenon
<1>7. n \in 0 .. n
  OBVIOUS
<1>8. Sorted(g[n], I, n)
  BY <1>6, <1>7, Zenon DEF T
<1> QED
  BY <1>3, <1>8, Zenon

\* The function that says how long the texts before each one are.
Befores(f, rts, kept) ==
    f = [p \in 1 .. Len(kept) + 1 |->
            IF p = 1 THEN 0 ELSE f[p - 1] + Len(rts[kept[p - 1]].plain)]

\* What it says, of n texts.
BeforesBy(g, rts, kept, n) ==
    /\ \A p \in 1 .. n + 1 : g[p] \in Nat
    /\ \A p \in 1 .. n : g[p + 1] = g[p] + Len(rts[kept[p]].plain)

\* It exists.
LEMMA BeforeSteps ==
    ASSUME NEW rts, NEW kept, NEW n \in Nat, n = Len(kept),
           \A p \in 1 .. n : Len(rts[kept[p]].plain) \in Nat
    PROVE  BeforesBy(CHOOSE f : Befores(f, rts, kept), rts, kept, n)
<1>0. PICK g : g = CHOOSE f : Befores(f, rts, kept)
  BY Zenon
<1> DEFINE after(i, x) == x + Len(rts[kept[i - 1]].plain)
           step == [i \in 2 .. n + 1 |-> [x \in Nat |-> after(i, x)]]
<1>1. \A i \in 2 .. n + 1 : \A x \in Nat : after(i, x) \in Nat
  <2> SUFFICES ASSUME NEW i \in 2 .. n + 1, NEW x \in Nat PROVE after(i, x) \in Nat
    BY Zenon
  <2>1. i - 1 \in 1 .. n
    OBVIOUS
  <2>2. Len(rts[kept[i - 1]].plain) \in Nat
    BY <2>1, Zenon
  <2> QED
    BY <2>2
<1>2. step \in [2 .. n + 1 -> [Nat -> Nat]]
  <2> HIDE DEF after
  <2> QED
    BY <1>1
<1>3. PICK f \in [1 .. n + 1 -> Nat] : f[1] = 0 /\ \A i \in 2 .. n + 1 : f[i] = step[i][f[i - 1]]
  <2> HIDE DEF step
  <2>1. n + 1 \in Nat \ {0} /\ 0 \in Nat
    OBVIOUS
  <2>2. PICK f \in [1 .. n + 1 -> Nat] : GoesOnBy(f, n + 1, 0, step)
    BY <1>2, <2>1, RecursionFromOne, Zenon
  <2> QED
    BY <2>2, Zenon DEF GoesOnBy
<1>4. ASSUME NEW i \in 2 .. n + 1 PROVE f[i] = after(i, f[i - 1])
  <2>1. i - 1 \in 1 .. n + 1
    OBVIOUS
  <2>2. f[i - 1] \in Nat
    BY <1>3, <2>1, Zenon
  <2>3. step[i][f[i - 1]] = after(i, f[i - 1])
    <3> HIDE DEF after
    <3> QED
      BY <2>2
  <2> HIDE DEF step, after
  <2> QED
    BY <1>3, <2>3, Zenon
<1>5. Befores(f, rts, kept)
  <2>1. ASSUME NEW i \in 1 .. n + 1 PROVE f[i] = IF i = 1 THEN 0 ELSE after(i, f[i - 1])
    <3> HIDE DEF after
    <3>1. CASE i = 1
      BY <1>3, <3>1
    <3>2. CASE i # 1
      <4>1. i \in 2 .. n + 1
        BY <3>2
      <4> QED
        BY <1>4, <3>2, <4>1, Zenon
    <3> QED
      BY <3>1, <3>2
  <2>2. f = [i \in 1 .. n + 1 |-> f[i]]
    BY <1>3, Zenon
  <2>3. f = [i \in 1 .. n + 1 |-> IF i = 1 THEN 0 ELSE after(i, f[i - 1])]
    <3> HIDE DEF after
    <3> QED
      BY <2>1, <2>2
  <2>4. f = [i \in 1 .. Len(kept) + 1 |-> IF i = 1 THEN 0 ELSE after(i, f[i - 1])]
    <3> HIDE DEF after
    <3> QED
      BY <2>3
  <2> QED
    BY <2>4, Zenon DEF Befores
<1>6. Befores(g, rts, kept)
  <2>1. Befores(CHOOSE h : Befores(h, rts, kept), rts, kept)
    BY <1>5, Zenon
  <2> QED
    BY <1>0, <2>1, Zenon
<1>7. g = [i \in 1 .. n + 1 |-> IF i = 1 THEN 0 ELSE after(i, g[i - 1])]
  <2>1. g = [i \in 1 .. Len(kept) + 1 |-> IF i = 1 THEN 0 ELSE after(i, g[i - 1])]
    BY <1>6, Zenon DEF Befores
  <2> HIDE DEF after
  <2> QED
    BY <2>1
<1>8. \A i \in 1 .. n + 1 : g[i] = IF i = 1 THEN 0 ELSE after(i, g[i - 1])
  <2> HIDE DEF after
  <2> QED
    BY <1>7, Zenon
<1>9. \A p \in 1 .. n : g[p + 1] = g[p] + Len(rts[kept[p]].plain)
  <2> SUFFICES ASSUME NEW p \in 1 .. n PROVE g[p + 1] = g[p] + Len(rts[kept[p]].plain)
    BY Zenon
  <2>1. PICK i \in 1 .. n + 1 : i = p + 1 /\ i # 1 /\ i - 1 = p
    OBVIOUS
  <2>2. g[i] = after(i, g[i - 1])
    <3> HIDE DEF after
    <3> QED
      BY <1>8, <2>1, Zenon
  <2> QED
    BY <2>1, <2>2
<1>10. g[1] = 0
  <2>1. 1 \in 1 .. n + 1
    OBVIOUS
  <2> HIDE DEF after
  <2> QED
    BY <1>8, <2>1
<1> HIDE DEF after, step
<1> DEFINE T == {i \in 0 .. n : g[i + 1] \in Nat}
<1>11. 0 \in T
  <2>1. 0 + 1 = 1 /\ 0 \in 0 .. n
    OBVIOUS
  <2> QED
    BY <1>10, <2>1
<1>12. ASSUME NEW i \in 1 .. n, i - 1 \in T PROVE i \in T
  <2>1. (i - 1) + 1 = i /\ i \in 0 .. n
    OBVIOUS
  <2>2. g[i] \in Nat
    <3>1. g[(i - 1) + 1] \in Nat
      BY <1>12, Zenon
    <3> HIDE DEF T
    <3> QED
      BY <2>1, <3>1
  <2>3. g[i + 1] \in Nat
    <3> HIDE DEF T
    <3>1. g[i + 1] = g[i] + Len(rts[kept[i]].plain) /\ Len(rts[kept[i]].plain) \in Nat
      BY <1>9, Zenon
    <3> QED
      BY <2>2, <3>1
  <2> QED
    BY <2>1, <2>3
<1> HIDE DEF T
<1>13. 0 .. n \subseteq T
  BY <1>11, <1>12, InductionUpTo, Zenon
<1>14. \A p \in 1 .. n + 1 : g[p] \in Nat
  <2> SUFFICES ASSUME NEW p \in 1 .. n + 1 PROVE g[p] \in Nat
    BY Zenon
  <2>1. p - 1 \in 0 .. n /\ (p - 1) + 1 = p
    OBVIOUS
  <2>2. p - 1 \in T
    BY <1>13, <2>1, Zenon
  <2> QED
    BY <2>1, <2>2 DEF T
<1>15. BeforesBy(g, rts, kept, n)
  BY <1>9, <1>14, Zenon DEF BeforesBy
<1> QED
  BY <1>0, <1>15, Zenon

\* A corpus of n resources: which, their texts in their order, and where each starts.
Corpus(built, resources, n) ==
    /\ n \in Nat /\ DOMAIN built.index = 1 .. n
    /\ \A p \in 1 .. n : /\ built.index[p] \in 1 .. Len(resources) /\ built.before[p] \in Nat
                         /\ built.text[p] = Text!extractResource(resources[built.index[p]])
    /\ \A p \in 1 .. n : \A q \in p + 1 .. n :
          /\ built.index[p] < built.index[q]
          /\ built.before[p] + Len(built.text[p].plain) <= built.before[q]
    /\ \A i \in 1 .. Len(resources) :
          (\A p \in 1 .. n : built.index[p] # i) =>
             Text!extractResource(resources[i]).norm = <<>>

\* That is what Build builds.
LEMMA CorpusBuilt ==
    ASSUME NEW resources \in Seq(Seq(Text!Tokens))
    PROVE  \E n : Corpus(Text!Build(resources), resources, n)
<1>1. PICK m \in Nat : m = Len(resources) /\ DOMAIN resources = 1 .. m
                       /\ \A i \in 1 .. m : resources[i] \in Seq(Text!Tokens)
  <2>1. Len(resources) \in Nat /\ DOMAIN resources = 1 .. Len(resources)
        /\ \A i \in 1 .. Len(resources) : resources[i] \in Seq(Text!Tokens)
    OBVIOUS
  <2> QED
    BY <2>1, Zenon
<1> DEFINE rts == [i \in DOMAIN resources |-> Text!extractResource(resources[i])]
           I == {i \in DOMAIN rts : rts[i].norm # <<>>}
           ids == [i \in DOMAIN rts |-> i]
           kept == Text!Picked(ids, I)
           g == CHOOSE f : Befores(f, rts, kept)
           built == Text!Build(resources)
<1>2. built = [index |-> kept,
               text |-> [p \in DOMAIN kept |-> rts[kept[p]]],
               before |-> [p \in DOMAIN kept |-> g[p]],
               total |-> g[Len(kept) + 1]]
  BY Zenon DEF Text!Build, Befores
<1>3. DOMAIN rts = 1 .. m /\ \A i \in 1 .. m : rts[i] = Text!extractResource(resources[i])
  <2>1. DOMAIN rts = DOMAIN resources
        /\ \A i \in DOMAIN resources : rts[i] = Text!extractResource(resources[i])
    BY Zenon
  <2> QED
    BY <1>1, <2>1, Zenon
<1> HIDE DEF rts, built
<1>4. \A i : i \in I <=> i \in 1 .. m /\ rts[i].norm # <<>>
  BY <1>3
<1>5. ids = [i \in 1 .. m |-> i]
  BY <1>3
<1> HIDE DEF I, ids
<1>6. Sorted(kept, I, m)
  BY <1>5, PickedNumbers, Zenon
<1> HIDE DEF kept
<1>7. PICK n \in Nat : n = Len(kept) /\ DOMAIN kept = 1 .. n /\ kept \in Seq(Nat)
  <2>1. kept \in Seq(Nat)
    BY <1>6, Zenon DEF Sorted
  <2>2. Len(kept) \in Nat /\ DOMAIN kept = 1 .. Len(kept)
    BY <2>1
  <2> QED
    BY <2>1, <2>2, Zenon
<1>8. /\ \A k \in 1 .. n : kept[k] \in 1 .. m /\ kept[k] \in I
      /\ \A k \in 1 .. n : \A l \in k + 1 .. n : kept[k] < kept[l]
      /\ \A j \in 1 .. m : j \in I => \E k \in 1 .. n : kept[k] = j
  BY <1>6, <1>7, Zenon DEF Sorted
<1>9. \A i \in 1 .. m : Len(rts[i].plain) \in Nat
  <2> SUFFICES ASSUME NEW i \in 1 .. m PROVE Len(rts[i].plain) \in Nat
    BY Zenon
  <2>1. PICK t \in Seq(Text!Tokens) : t = resources[i]
    BY <1>1, Zenon
  <2>2. rts[i] = Text!extractResource(t)
    BY <1>3, <2>1, Zenon
  <2>3. PICK L : Finished(rts[i], L)
    BY <2>2, Extracted, Zenon
  <2>4. rts[i].plain \in Seq(PlainCharacters)
    BY <2>3, Zenon DEF Finished
  <2> QED
    BY <2>4
<1>10. \A p \in 1 .. n : Len(rts[kept[p]].plain) \in Nat
  BY <1>8, <1>9, Zenon
<1>11. /\ \A p \in 1 .. n + 1 : g[p] \in Nat
       /\ \A p \in 1 .. n : g[p + 1] = g[p] + Len(rts[kept[p]].plain)
  <2>1. BeforesBy(g, rts, kept, n)
    BY <1>7, <1>10, BeforeSteps, Zenon
  <2> HIDE DEF g
  <2> QED
    BY <2>1, Zenon DEF BeforesBy
<1> HIDE DEF g
<1>12. /\ built.index = kept
       /\ built.text = [p \in 1 .. n |-> rts[kept[p]]]
       /\ built.before = [p \in 1 .. n |-> g[p]]
  BY <1>2, <1>7
<1>13. \A p \in 1 .. n : built.index[p] = kept[p] /\ built.text[p] = rts[kept[p]]
                         /\ built.before[p] = g[p]
  BY <1>12
<1>14. ASSUME NEW p \in 1 .. n
       PROVE  /\ built.index[p] \in 1 .. m /\ built.before[p] \in Nat
              /\ built.text[p] = Text!extractResource(resources[built.index[p]])
  <2>1. p \in 1 .. n + 1
    OBVIOUS
  <2>2. g[p] \in Nat /\ kept[p] \in 1 .. m
    BY <1>8, <1>11, <2>1, Zenon
  <2>3. rts[kept[p]] = Text!extractResource(resources[kept[p]])
    BY <1>3, <2>2, Zenon
  <2> QED
    BY <1>13, <2>2, <2>3
<1>15. ASSUME NEW p \in 1 .. n, NEW q \in p + 1 .. n
       PROVE  /\ built.index[p] < built.index[q]
              /\ built.before[p] + Len(built.text[p].plain) <= built.before[q]
  <2>1. q \in 1 .. n
    OBVIOUS
  <2> DEFINE h == [i \in 0 .. n |-> g[i + 1]]
  <2>2. h \in [0 .. n -> Nat]
    <3>1. \A i \in 0 .. n : i + 1 \in 1 .. n + 1
      OBVIOUS
    <3> QED
      BY <1>11, <3>1
  <2>3. \A i \in 0 .. n : h[i] = g[i + 1]
    BY Zenon
  <2> HIDE DEF h
  <2>4. \A i \in 1 .. n : h[i - 1] <= h[i]
    <3> SUFFICES ASSUME NEW i \in 1 .. n PROVE h[i - 1] <= h[i]
      BY Zenon
    <3>1. i - 1 \in 0 .. n /\ i \in 0 .. n /\ (i - 1) + 1 = i
      OBVIOUS
    <3>2. h[i - 1] = g[i] /\ h[i] = g[i + 1] /\ h[i - 1] \in Nat
      BY <2>2, <2>3, <3>1
    <3>3. g[i + 1] = g[i] + Len(rts[kept[i]].plain) /\ Len(rts[kept[i]].plain) \in Nat
      BY <1>10, <1>11, Zenon
    <3> QED
      BY <3>2, <3>3
  <2>5. \A i \in 0 .. n : \A j \in 0 .. n : i <= j => h[i] <= h[j]
    BY <2>2, <2>4, Ascending
  <2>6. PICK r \in 0 .. n : r = q - 1 /\ p <= r /\ r + 1 = q /\ p \in 0 .. n
    BY <2>1
  <2>7. h[p] <= h[r]
    BY <2>5, <2>6, Zenon
  <2>8. g[p + 1] <= g[q]
    BY <2>3, <2>6, <2>7
  <2>9. g[p] + Len(rts[kept[p]].plain) <= g[q]
    BY <1>11, <2>8, Zenon
  <2>10. kept[p] < kept[q]
    BY <1>8, Zenon
  <2>11. built.text[p] = rts[kept[p]] /\ built.before[p] = g[p] /\ built.before[q] = g[q]
         /\ built.index[p] = kept[p] /\ built.index[q] = kept[q]
    BY <1>13, <2>1, Zenon
  <2> QED
    BY <2>9, <2>10, <2>11
<1>16. ASSUME NEW i \in 1 .. m, \A p \in 1 .. n : built.index[p] # i
       PROVE  Text!extractResource(resources[i]).norm = <<>>
  <2>1. \A p \in 1 .. n : kept[p] # i
    BY <1>13, <1>16
  <2>2. i \notin I
    BY <1>8, <2>1, Zenon
  <2>3. rts[i].norm = <<>>
    BY <1>4, <2>2, Zenon
  <2>4. rts[i] = Text!extractResource(resources[i])
    BY <1>3, Zenon
  <2> QED
    BY <2>3, <2>4
<1>17. DOMAIN built.index = 1 .. n
  BY <1>7, <1>12, Zenon
<1>18. Corpus(built, resources, n)
  BY <1>1, <1>14, <1>15, <1>16, <1>17, Zenon DEF Corpus
<1> QED
  BY <1>18, Zenon DEF built

\* Which text the index of a resource stands for.
LEMMA ProgressionOf ==
    ASSUME NEW built, NEW resources, NEW n, Corpus(built, resources, n),
           NEW p \in 1 .. n, NEW place
    PROVE  Text!ProgressionAt(built, built.index[p], place) = built.before[p] + place
<1>1. /\ n \in Nat /\ DOMAIN built.index = 1 .. n
      /\ \A q \in 1 .. n : built.index[q] \in 1 .. Len(resources)
      /\ \A q \in 1 .. n : \A r \in q + 1 .. n : built.index[q] < built.index[r]
  BY Zenon DEF Corpus
<1>2. \A q \in 1 .. n : built.index[q] = built.index[p] => q = p
  <2> SUFFICES ASSUME NEW q \in 1 .. n, built.index[q] = built.index[p], q # p PROVE FALSE
    BY Zenon
  <2>1. p \in q + 1 .. n \/ q \in p + 1 .. n
    BY <1>1
  <2>2. built.index[p] < built.index[q] \/ built.index[q] < built.index[p]
    BY <1>1, <2>1, Zenon
  <2>3. built.index[p] \in Int
    BY <1>1
  <2> QED
    BY <2>2, <2>3
<1> DEFINE position == CHOOSE q \in DOMAIN built.index : built.index[q] = built.index[p]
<1>3. position \in 1 .. n /\ built.index[position] = built.index[p]
  BY <1>1, Zenon
<1>4. position = p
  <2> HIDE DEF position
  <2> QED
    BY <1>2, <1>3, Zenon
<1>5. Text!ProgressionAt(built, built.index[p], place) = built.before[position] + place
  BY Zenon DEF Text!ProgressionAt
<1> HIDE DEF position
<1> QED
  BY <1>4, <1>5, Zenon

\* The texts of a corpus are extracted as they should be.
LEMMA CorpusTexts ==
    ASSUME NEW resources \in Seq(Seq(Text!Tokens)), NEW built, NEW n,
           Corpus(built, resources, n), NEW p \in 1 .. n
    PROVE  /\ \E L : Finished(built.text[p], L)
           /\ Text!Picked(built.text[p].plain, Typings(built.text[p].plain))
                 = Shown(resources[built.index[p]])
<1>1. built.index[p] \in 1 .. Len(resources)
      /\ built.text[p] = Text!extractResource(resources[built.index[p]])
  BY Zenon DEF Corpus
<1>2. PICK i \in 1 .. Len(resources) : i = built.index[p]
  BY <1>1, Zenon
<1>3. resources[i] \in Seq(Text!Tokens)
  OBVIOUS
<1>4. PICK t \in Seq(Text!Tokens) : t = resources[i]
  BY <1>3, Zenon
<1>5. PICK rt : rt = Text!extractResource(t)
  OBVIOUS
<1>6. rt = built.text[p]
  BY <1>1, <1>2, <1>4, <1>5, Zenon
<1>7. (\E L : Finished(rt, L)) /\ Text!Picked(rt.plain, Typings(rt.plain)) = Shown(t)
  BY <1>5, Extracted, Zenon
<1> QED
  BY <1>2, <1>4, <1>6, <1>7, Zenon

\* Nothing is shown of what is left out of it.
LEMMA CorpusLeaves ==
    ASSUME NEW resources \in Seq(Seq(Text!Tokens)), NEW built, NEW n,
           Corpus(built, resources, n), NEW i \in 1 .. Len(resources),
           \A p \in 1 .. n : built.index[p] # i
    PROVE  Shown(resources[i]) = <<>>
<1>1. Text!extractResource(resources[i]).norm = <<>>
  BY Zenon DEF Corpus
<1>2. resources[i] \in Seq(Text!Tokens)
  OBVIOUS
<1>3. PICK t \in Seq(Text!Tokens) : t = resources[i]
  BY <1>2, Zenon
<1>4. PICK rt : rt = Text!extractResource(t)
  OBVIOUS
<1>5. (\E L : Finished(rt, L)) /\ Text!Picked(rt.plain, Typings(rt.plain)) = Shown(t)
  BY <1>4, Extracted, Zenon
<1>6. rt.plain = <<>>
  <2>1. PICK L : Finished(rt, L)
    BY <1>5, Zenon
  <2>2. rt.norm = <<>>
    BY <1>1, <1>3, <1>4, Zenon
  <2> QED
    BY <2>1, <2>2, Zenon DEF Finished
<1>7. Text!Picked(<<>>, Typings(<<>>)) = Shown(t)
  BY <1>5, <1>6, Zenon
<1>8. Shown(t) = <<>>
  BY <1>7, TypedNothing, Zenon
<1> QED
  BY <1>3, <1>8, Zenon

\* What Find finds in each resource.
HitsIn(built, query) ==
    [p \in DOMAIN built.index |->
       [k \in DOMAIN Text!findInResource(built.text[p], query) |->
          [index |-> built.index[p], match |-> Text!findInResource(built.text[p], query)[k]]]]

\* Where a hit is in the publication.
PlaceOf(built, x) == Text!ProgressionAt(built, x.index, x.match.start)

\* One hit of a resource: the k-th match there.
HitAt(built, query, p, k, x) ==
    /\ x = [index |-> built.index[p], match |-> Text!findInResource(built.text[p], query)[k]]
    /\ x.index = built.index[p] /\ x.match = Text!findInResource(built.text[p], query)[k]

\* A resource gives as many hits as there are matches in it.
HitsOf(built, query, hs, p, c) ==
    /\ AllFound(built.text[p], query, Text!findInResource(built.text[p], query), c)
    /\ DOMAIN hs = 1 .. c
    /\ \A k \in 1 .. c : HitAt(built, query, p, k, hs[k])

\* Each resource does.
LEMMA HitsFound ==
    ASSUME NEW resources \in Seq(Seq(Text!Tokens)), NEW built, NEW n,
           Corpus(built, resources, n), NEW query, query = <<>> \/ Queried(query),
           NEW p \in 1 .. n
    PROVE  \E c : HitsOf(built, query, HitsIn(built, query)[p], p, c)
<1>1. PICK L : Finished(built.text[p], L)
  BY CorpusTexts, Zenon
<1>2. PICK r : r = Text!findInResource(built.text[p], query)
  OBVIOUS
<1>3. PICK c : AllFound(built.text[p], query, r, c)
  BY <1>1, <1>2, ResourceFound, Zenon
<1>4. DOMAIN r = 1 .. c
  BY <1>3, Zenon DEF AllFound
<1>5. PICK hs : hs = HitsIn(built, query)[p]
  OBVIOUS
<1>6. hs = [k \in DOMAIN r |-> [index |-> built.index[p], match |-> r[k]]]
  <2>1. p \in DOMAIN built.index
    BY Zenon DEF Corpus
  <2>2. hs = [k \in DOMAIN Text!findInResource(built.text[p], query) |->
                [index |-> built.index[p],
                 match |-> Text!findInResource(built.text[p], query)[k]]]
    BY <1>5, <2>1, Zenon DEF HitsIn
  <2> QED
    BY <1>2, <2>2, Zenon
<1>7. DOMAIN hs = 1 .. c
  BY <1>4, <1>6
<1>8. ASSUME NEW k \in 1 .. c PROVE HitAt(built, query, p, k, hs[k])
  <2>1. hs[k] = [index |-> built.index[p], match |-> r[k]]
    BY <1>4, <1>6
  <2>2. hs[k].index = built.index[p] /\ hs[k].match = r[k]
    BY <2>1
  <2> QED
    BY <1>2, <2>1, <2>2, Zenon DEF HitAt
<1> QED
  BY <1>2, <1>3, <1>5, <1>7, <1>8, Zenon DEF HitsOf

\* A hit and its place.
LEMMA HitPlace ==
    ASSUME NEW built, NEW resources, NEW n, Corpus(built, resources, n), NEW query,
           NEW p \in 1 .. n, NEW hs, NEW c, HitsOf(built, query, hs, p, c), NEW k \in 1 .. c
    PROVE  /\ hs[k].index = built.index[p] /\ MatchIn(built.text[p], query, hs[k].match)
           /\ PlaceOf(built, hs[k]) = built.before[p] + hs[k].match.start
           /\ hs[k].match = Text!findInResource(built.text[p], query)[k]
<1>1. hs[k].index = built.index[p]
      /\ hs[k].match = Text!findInResource(built.text[p], query)[k]
  BY Zenon DEF HitsOf, HitAt
<1>2. MatchIn(built.text[p], query, Text!findInResource(built.text[p], query)[k])
  BY Zenon DEF HitsOf, AllFound
<1>3. PlaceOf(built, hs[k]) = built.before[p] + hs[k].match.start
  <2>1. PICK place : place = hs[k].match.start
    OBVIOUS
  <2>2. Text!ProgressionAt(built, built.index[p], place) = built.before[p] + place
    BY ProgressionOf, Zenon
  <2>3. PlaceOf(built, hs[k]) = Text!ProgressionAt(built, hs[k].index, hs[k].match.start)
    BY Zenon DEF PlaceOf
  <2> QED
    BY <1>1, <2>1, <2>2, <2>3, Zenon
<1> QED
  BY <1>1, <1>2, <1>3, Zenon

\* All hits, and which are in order.
AllHits(H, n) == UNION {{H[p][k] : k \in DOMAIN H[p]} : p \in 1 .. n}
Before(built, V) == {v \in V \X V : PlaceOf(built, v[1]) < PlaceOf(built, v[2])}

\* The hits of the resources are in order.
LEMMA HitsInOrder ==
    ASSUME NEW resources \in Seq(Seq(Text!Tokens)), NEW built, NEW n,
           Corpus(built, resources, n), NEW query, query = <<>> \/ Queried(query),
           NEW H, H = HitsIn(built, query), NEW V, V = AllHits(H, n)
    PROVE  /\ H \in [1 .. n -> Seq(V)] /\ InOrder(H, Before(built, V), n)
<1>1. n \in Nat /\ DOMAIN built.index = 1 .. n
  BY Zenon DEF Corpus
<1>2. \A p \in 1 .. n : \E c : HitsOf(built, query, H[p], p, c)
  BY HitsFound, Zenon
<1>3. DOMAIN H = 1 .. n /\ H = [p \in 1 .. n |-> H[p]]
  <2>1. PICK f : f = [p \in DOMAIN built.index |->
       [k \in DOMAIN Text!findInResource(built.text[p], query) |->
          [index |-> built.index[p], match |-> Text!findInResource(built.text[p], query)[k]]]]
    OBVIOUS
  <2>2. H = f
    BY <2>1, Zenon DEF HitsIn
  <2>3. DOMAIN f = DOMAIN built.index /\ f = [p \in DOMAIN built.index |-> f[p]]
    BY <2>1
  <2>4. f = [p \in 1 .. n |-> f[p]] /\ DOMAIN f = 1 .. n
    BY <1>1, <2>3
  <2> QED
    BY <2>2, <2>4, Zenon
<1>4. \A p \in 1 .. n : \A k \in DOMAIN H[p] : H[p][k] \in V
  BY DEF AllHits
<1>5. ASSUME NEW p \in 1 .. n PROVE H[p] \in Seq(V) /\ DOMAIN H[p] = 1 .. Len(H[p])
  <2>1. PICK c : HitsOf(built, query, H[p], p, c)
    BY <1>2, Zenon
  <2>2. c \in Nat /\ DOMAIN H[p] = 1 .. c
    BY <2>1, Zenon DEF HitsOf, AllFound
  <2>3. PICK h : h = H[p]
    OBVIOUS
  <2>4. h = [k \in 1 .. c |-> h[k]]
    <3>1. p \in DOMAIN built.index
      BY <1>1, Zenon
    <3>2. H[p] = [k \in DOMAIN Text!findInResource(built.text[p], query) |->
              [index |-> built.index[p], match |-> Text!findInResource(built.text[p], query)[k]]]
      BY <3>1, Zenon DEF HitsIn
    <3> QED
      BY <2>2, <2>3, <3>2
  <2>5. \A k \in 1 .. c : h[k] \in V
    BY <1>4, <2>2, <2>3
  <2>6. h \in Seq(V) /\ DOMAIN h = 1 .. Len(h)
    <3>1. h \in [1 .. c -> V]
      BY <2>4, <2>5, Zenon
    <3>2. c \in Nat
      BY <2>2, Zenon
    <3> QED
      BY <3>1, <3>2
  <2> QED
    BY <2>3, <2>6, Zenon
<1>6. H \in [1 .. n -> Seq(V)]
  BY <1>3, <1>5
<1>7. \A p \in 1 .. n : \A k \in 1 .. Len(H[p]) : H[p][k] \in V
  BY <1>4, <1>5, Zenon
<1>8. \A a \in V : \A b \in V : PlaceOf(built, a) < PlaceOf(built, b) => <<a, b>> \in Before(built, V)
  BY DEF Before
<1>9. ASSUME NEW p \in 1 .. n
      PROVE  \E c : HitsOf(built, query, H[p], p, c) /\ \A k : k \in 1 .. Len(H[p]) <=> k \in 1 .. c
  <2>1. PICK c : HitsOf(built, query, H[p], p, c)
    BY <1>2, Zenon
  <2>2. DOMAIN H[p] = 1 .. c
    BY <2>1, Zenon DEF HitsOf
  <2> QED
    BY <1>5, <2>1, <2>2, Zenon
<1>10. ASSUME NEW p \in 1 .. n, NEW k \in 1 .. Len(H[p])
       PROVE  /\ PlaceOf(built, H[p][k]) = built.before[p] + H[p][k].match.start
              /\ MatchIn(built.text[p], query, H[p][k].match) /\ built.before[p] \in Nat
  <2>1. PICK c : HitsOf(built, query, H[p], p, c) /\ k \in 1 .. c
    BY <1>9, Zenon
  <2>2. PlaceOf(built, H[p][k]) = built.before[p] + H[p][k].match.start
        /\ MatchIn(built.text[p], query, H[p][k].match)
    BY <2>1, HitPlace
  <2>3. built.before[p] \in Nat
    BY Zenon DEF Corpus
  <2> QED
    BY <2>2, <2>3, Zenon
<1>11. ASSUME NEW p \in 1 .. n, NEW k \in 1 .. Len(H[p]), NEW l \in k + 1 .. Len(H[p])
       PROVE  <<H[p][k], H[p][l]>> \in Before(built, V)
  <2>1. PICK c : HitsOf(built, query, H[p], p, c) /\ \A j : j \in 1 .. Len(H[p]) <=> j \in 1 .. c
    BY <1>9, Zenon
  <2>2. c \in Nat
    BY <2>1, Zenon DEF HitsOf, AllFound
  <2>3. l \in 1 .. Len(H[p]) /\ k < l
    <3>1. PICK m \in Nat : m = Len(H[p])
      <4>1. Len(H[p]) \in Nat
        BY <1>5
      <4> QED
        BY <4>1, Zenon
    <3>2. k \in 1 .. m /\ l \in k + 1 .. m
      BY <3>1, Zenon
    <3>3. l \in 1 .. m /\ k < l
      BY <3>2
    <3> QED
      BY <3>1, <3>3, Zenon
  <2>4. k \in 1 .. c /\ l \in 1 .. c /\ k < l
    BY <2>1, <2>3, Zenon
  <2>5. l \in k + 1 .. c
    BY <2>4
  <2>6. PICK r : r = Text!findInResource(built.text[p], query)
    OBVIOUS
  <2>7. r[k].start < r[l].start
    BY <2>1, <2>4, <2>5, <2>6, Zenon DEF HitsOf, AllFound
  <2>8. H[p][k].match = r[k] /\ H[p][l].match = r[l]
    BY <2>1, <2>4, <2>6, Zenon DEF HitsOf, HitAt
  <2>9. PICK a \in Nat, b \in Nat : a = H[p][k].match.start /\ b = H[p][l].match.start
    BY <1>10, <2>3, Zenon DEF MatchIn
  <2>10. a < b
    BY <2>7, <2>8, <2>9, Zenon
  <2>11. PICK d \in Nat : d = built.before[p]
    BY <1>10, Zenon
  <2>12. PlaceOf(built, H[p][k]) = d + a /\ PlaceOf(built, H[p][l]) = d + b
    BY <1>10, <2>3, <2>9, <2>11, Zenon
  <2>13. d + a < d + b
    BY <2>10
  <2> QED
    BY <1>7, <1>8, <2>3, <2>12, <2>13, Zenon
<1>12. ASSUME NEW p \in 1 .. n, NEW q \in p + 1 .. n,
              NEW k \in 1 .. Len(H[p]), NEW l \in 1 .. Len(H[q])
       PROVE  <<H[p][k], H[q][l]>> \in Before(built, V)
  <2>1. q \in 1 .. n
    OBVIOUS
  <2>2. PICK a \in Nat, b \in Nat : a = H[p][k].match.start /\ b = H[q][l].match.start
    BY <1>10, <2>1, Zenon DEF MatchIn
  <2>3. PICK d \in Nat, e \in Nat : d = built.before[p] /\ e = built.before[q]
    BY <1>10, <2>1, Zenon
  <2>4. PICK z : z = Len(built.text[p].plain)
    OBVIOUS
  <2>5. d + z <= e
    BY <2>3, <2>4, Zenon DEF Corpus
  <2>6. z \in Nat
    <3>1. PICK L : Finished(built.text[p], L)
      BY CorpusTexts, Zenon
    <3>2. built.text[p].plain \in Seq(PlainCharacters)
      BY <3>1, Zenon DEF Finished
    <3> QED
      BY <2>4, <3>2
  <2>7. a < z
    <3>1. PICK f \in Nat : f = H[p][k].match.end /\ a < f /\ f <= z
      BY <1>10, <2>2, <2>4, Zenon DEF MatchIn
    <3> QED
      BY <2>6, <3>1
  <2>8. PlaceOf(built, H[p][k]) = d + a /\ PlaceOf(built, H[q][l]) = e + b
    BY <1>10, <2>1, <2>2, <2>3, Zenon
  <2>9. d + a < e + b
    BY <2>5, <2>6, <2>7
  <2> QED
    BY <1>7, <1>8, <2>1, <2>8, <2>9, Zenon
<1>13. InOrder(H, Before(built, V), n)
  BY <1>11, <1>12, Zenon DEF InOrder
<1> QED
  BY <1>6, <1>13, Zenon

\* An index in a corpus is that of one resource.
LEMMA IndexOne ==
    ASSUME NEW built, NEW resources, NEW n, Corpus(built, resources, n),
           NEW p \in 1 .. n, NEW q \in 1 .. n, built.index[p] = built.index[q]
    PROVE  p = q
<1>1. /\ n \in Nat
      /\ \A i \in 1 .. n : built.index[i] \in 1 .. Len(resources)
      /\ \A i \in 1 .. n : \A j \in i + 1 .. n : built.index[i] < built.index[j]
  BY Zenon DEF Corpus
<1> SUFFICES ASSUME p # q PROVE FALSE
  OBVIOUS
<1>2. p \in q + 1 .. n \/ q \in p + 1 .. n
  BY <1>1
<1>3. built.index[p] < built.index[q] \/ built.index[q] < built.index[p]
  BY <1>1, <1>2, Zenon
<1>4. built.index[p] \in Int
  BY <1>1
<1> QED
  BY <1>3, <1>4

\* What is found for a query: the hits of the resources, one after the other.
LEMMA FindMerged ==
    ASSUME NEW resources \in Seq(Seq(Text!Tokens)), NEW built, NEW n,
           Corpus(built, resources, n), NEW typed \in Seq(Text!Characters), NEW query,
           query = Text!foldAndNormalize(typed), NEW H, H = HitsIn(built, query)
    PROVE  Merged(Text!Find(built, typed), H, AllHits(H, n), Before(built, AllHits(H, n)), n)
<1>1. query = <<>> \/ Queried(query)
  BY QueriesFolded, Zenon
<1>2. PICK V : V = AllHits(H, n)
  OBVIOUS
<1>3. H \in [1 .. n -> Seq(V)] /\ InOrder(H, Before(built, V), n)
  BY <1>1, <1>2, HitsInOrder, Zenon
<1>4. n \in Nat
  BY Zenon DEF Corpus
<1>5. Merged(Text!FlattenSeq(H), H, V, Before(built, V), n)
  BY <1>3, <1>4, Flattened, Zenon
<1>6. Text!Find(built, typed) = Text!FlattenSeq(HitsIn(built, Text!foldAndNormalize(typed)))
  BY Zenon DEF Text!Find, HitsIn
<1> QED
  BY <1>2, <1>5, <1>6, Zenon

\* From hit to hit the place in the publication grows.
GrowsBy(built, s) == \A k \in 1 .. Len(s) - 1 : PlaceOf(built, s[k]) < PlaceOf(built, s[k + 1])

\* What is found of one resource, and that it is exact.
Here(built, s, p) == {s[k].match : k \in {j \in DOMAIN s : s[j].index = built.index[p]}}
ExactIn(built, query, s, p) ==
    /\ \A m \in Here(built, s, p) :
          /\ Occurs(built.text[p].plain, query, m.start, m.end)
          /\ \A k \in m.context.before[2] .. m.start - 1 : built.text[p].plain[k + 1] = "nl"
          /\ m.context.after[1] = m.end
    /\ \A lo \in 0 .. Len(built.text[p].plain) - 1 : \A hi \in lo + 1 .. Len(built.text[p].plain) :
          query # <<>> /\ Occurs(built.text[p].plain, query, lo, hi)
             => \E m \in Here(built, s, p) : m.start < hi /\ lo < m.end

\* What Find finds grows.
LEMMA FindGrows ==
    ASSUME NEW built, NEW H, NEW V, NEW n, NEW s, Merged(s, H, V, Before(built, V), n)
    PROVE  GrowsBy(built, s)
<1>1. s \in Seq(V)
      /\ \A k \in 1 .. Len(s) : \A l \in k + 1 .. Len(s) : <<s[k], s[l]>> \in Before(built, V)
  BY Zenon DEF Merged
<1>2. PICK d \in Nat : d = Len(s)
  <2>1. Len(s) \in Nat
    BY <1>1
  <2> QED
    BY <2>1, Zenon
<1>3. ASSUME NEW k \in 1 .. d - 1 PROVE PlaceOf(built, s[k]) < PlaceOf(built, s[k + 1])
  <2>1. k \in 1 .. d /\ k + 1 \in k + 1 .. d
    OBVIOUS
  <2>2. <<s[k], s[k + 1]>> \in Before(built, V)
    BY <1>1, <1>2, <2>1, Zenon
  <2> QED
    BY <2>2 DEF Before
<1> QED
  BY <1>2, <1>3, Zenon DEF GrowsBy

\* And it is exact.
LEMMA FindExact ==
    ASSUME NEW resources \in Seq(Seq(Text!Tokens)), NEW built, NEW n,
           Corpus(built, resources, n), NEW query, query = <<>> \/ Queried(query),
           NEW H, H = HitsIn(built, query), NEW V, NEW R,
           NEW s, Merged(s, H, V, R, n), NEW p \in 1 .. n
    PROVE  ExactIn(built, query, s, p)
<1>1. /\ s \in Seq(V) /\ DOMAIN s = 1 .. Len(s)
      /\ \A k \in 1 .. Len(s) : \E q \in 1 .. n : \E j \in 1 .. Len(H[q]) : s[k] = H[q][j]
      /\ \A q \in 1 .. n : \A j \in 1 .. Len(H[q]) : \E k \in 1 .. Len(s) : s[k] = H[q][j]
  <2>1. s \in Seq(V)
    BY Zenon DEF Merged
  <2>2. DOMAIN s = 1 .. Len(s)
    BY <2>1
  <2> QED
    BY <2>1, <2>2, Zenon DEF Merged
<1>2. \A q \in 1 .. n : \E c : HitsOf(built, query, H[q], q, c)
  BY HitsFound, Zenon
<1>3. \A q \in 1 .. n : DOMAIN H[q] = 1 .. Len(H[q])
  <2>1. H \in [1 .. n -> Seq(AllHits(H, n))]
    BY HitsInOrder, Zenon
  <2> SUFFICES ASSUME NEW q \in 1 .. n PROVE DOMAIN H[q] = 1 .. Len(H[q])
    BY Zenon
  <2>2. H[q] \in Seq(AllHits(H, n))
    BY <2>1, Zenon
  <2>3. PICK V2 : V2 = AllHits(H, n)
    OBVIOUS
  <2>4. PICK h \in Seq(V2) : h = H[q]
    BY <2>2, <2>3, Zenon
  <2>5. DOMAIN h = 1 .. Len(h)
    OBVIOUS
  <2> QED
    BY <2>4, <2>5, Zenon
<1>4. ASSUME NEW m \in Here(built, s, p) PROVE MatchIn(built.text[p], query, m)
  <2>1. PICK k \in DOMAIN s : s[k].index = built.index[p] /\ m = s[k].match
    BY DEF Here
  <2>2. PICK q \in 1 .. n : \E j \in 1 .. Len(H[q]) : s[k] = H[q][j]
    BY <1>1, <2>1, Zenon
  <2>3. PICK j \in 1 .. Len(H[q]) : s[k] = H[q][j]
    BY <2>2, Zenon
  <2>4. PICK c : HitsOf(built, query, H[q], q, c)
    BY <1>2, Zenon
  <2>5. j \in 1 .. c
    BY <1>3, <2>4, Zenon DEF HitsOf
  <2>6. H[q][j].index = built.index[q] /\ MatchIn(built.text[q], query, H[q][j].match)
    BY <2>4, <2>5, HitPlace
  <2>7. built.index[q] = built.index[p]
    BY <2>1, <2>3, <2>6, Zenon
  <2>8. q = p
    BY <2>7, IndexOne, Zenon
  <2> QED
    BY <2>1, <2>3, <2>6, <2>8, Zenon
<1>5. ASSUME NEW m \in Here(built, s, p)
      PROVE  /\ Occurs(built.text[p].plain, query, m.start, m.end)
             /\ \A k \in m.context.before[2] .. m.start - 1 : built.text[p].plain[k + 1] = "nl"
             /\ m.context.after[1] = m.end
  BY <1>4, Zenon DEF MatchIn, Beside
<1>6. ASSUME NEW lo \in 0 .. Len(built.text[p].plain) - 1,
             NEW hi \in lo + 1 .. Len(built.text[p].plain),
             query # <<>>, Occurs(built.text[p].plain, query, lo, hi)
      PROVE  \E m \in Here(built, s, p) : m.start < hi /\ lo < m.end
  <2>1. PICK c : HitsOf(built, query, H[p], p, c)
    BY <1>2, Zenon
  <2>2. PICK k \in 1 .. c : /\ Text!findInResource(built.text[p], query)[k].start < hi
                            /\ lo < Text!findInResource(built.text[p], query)[k].end
    BY <1>6, <2>1, Zenon DEF HitsOf, AllFound, Covered
  <2>3. H[p][k].index = built.index[p]
        /\ H[p][k].match = Text!findInResource(built.text[p], query)[k]
    BY <2>1, Zenon DEF HitsOf, HitAt
  <2>4. k \in 1 .. Len(H[p])
    BY <1>3, <2>1, Zenon DEF HitsOf
  <2>5. PICK j \in 1 .. Len(s) : s[j] = H[p][k]
    BY <1>1, <2>4, Zenon
  <2>6. s[j].match \in Here(built, s, p)
    <3>1. j \in DOMAIN s /\ s[j].index = built.index[p]
      BY <1>1, <2>3, <2>5, Zenon
    <3> QED
      BY <3>1 DEF Here
  <2>7. s[j].match.start < hi /\ lo < s[j].match.end
    BY <2>2, <2>3, <2>5, Zenon
  <2> QED
    BY <2>6, <2>7, Zenon
<1> QED
  BY <1>5, <1>6, Zenon DEF ExactIn

\* What MatchesExact says of the hits of one query.
ExactlyOf(built, kept, query, found) ==
    LET place(k) == Text!ProgressionAt(built, found[k].index, found[k].match.start)
    IN  /\ \A k \in 1 .. Len(found) - 1 : place(k) < place(k + 1)
        /\ \A p \in kept :
              LET plain == built.text[p].plain
                  here == {found[k].match : k \in
                              {j \in DOMAIN found : found[j].index = built.index[p]}}
              IN  /\ \A m \in here :
                        /\ Occurs(plain, query, m.start, m.end)
                        /\ \A k \in m.context.before[2] .. m.start - 1 :
                              plain[k + 1] = "nl"
                        /\ m.context.after[1] = m.end
                  /\ \A lo \in 0 .. Len(plain) - 1 :
                        \A hi \in lo + 1 .. Len(plain) :
                           query # <<>> /\ Occurs(plain, query, lo, hi)
                              => \E m \in here : m.start < hi /\ lo < m.end
Exactly(built, kept, h) == ExactlyOf(built, kept, Text!foldAndNormalize(h.query), h.found)

\* And of the corpus.
ShownExactly(built, resources) ==
    /\ \A p \in DOMAIN built.index :
          LET plain == built.text[p].plain
          IN  Text!Picked(plain, {i \in DOMAIN plain : plain[i] # "nl"})
                 = Shown(resources[built.index[p]])
    /\ \A i \in DOMAIN resources :
          i \notin {built.index[p] : p \in DOMAIN built.index} => Shown(resources[i]) = <<>>

\* The hits are those of a publication.
FoundFor(t) == {[query |-> q, found |-> Text!Find(Text!Build(t), q)] : q \in Queries}
Searched ==
    /\ texts \in Publications \/ texts = <<>>
    /\ hits # {} => texts \in Publications /\ hits = FoundFor(texts)

\* A corpus shows what its publication does.
LEMMA CorpusShown ==
    ASSUME NEW resources \in Seq(Seq(Text!Tokens)), NEW built, NEW n,
           Corpus(built, resources, n)
    PROVE  ShownExactly(built, resources)
<1>1. n \in Nat /\ DOMAIN built.index = 1 .. n
  BY Zenon DEF Corpus
<1>2. DOMAIN resources = 1 .. Len(resources)
  OBVIOUS
<1>3. ASSUME NEW p \in DOMAIN built.index
      PROVE  Text!Picked(built.text[p].plain,
                         {i \in DOMAIN built.text[p].plain : built.text[p].plain[i] # "nl"})
                = Shown(resources[built.index[p]])
  <2>1. p \in 1 .. n
    BY <1>1, Zenon
  <2>2. Text!Picked(built.text[p].plain, Typings(built.text[p].plain))
           = Shown(resources[built.index[p]])
    BY <2>1, CorpusTexts, Zenon
  <2> QED
    BY <2>2, Zenon DEF Typings
<1>4. ASSUME NEW i \in DOMAIN resources, i \notin {built.index[p] : p \in DOMAIN built.index}
      PROVE  Shown(resources[i]) = <<>>
  <2>1. \A p \in 1 .. n : built.index[p] # i
    BY <1>1, <1>4, Zenon
  <2>2. i \in 1 .. Len(resources)
    BY <1>2, Zenon
  <2> QED
    BY <2>1, <2>2, CorpusLeaves, Zenon
<1> QED
  BY <1>3, <1>4, Zenon DEF ShownExactly

\* What is found in it is exact.
LEMMA HitsExact ==
    ASSUME NEW resources \in Seq(Seq(Text!Tokens)), NEW built, NEW n,
           Corpus(built, resources, n), NEW typed \in Seq(Text!Characters), NEW h,
           h = [query |-> typed, found |-> Text!Find(built, typed)]
    PROVE  Exactly(built, DOMAIN built.index, h)
<1>1. PICK query : query = Text!foldAndNormalize(typed)
  OBVIOUS
<1>2. PICK H : H = HitsIn(built, query)
  OBVIOUS
<1>3. PICK s : s = Text!Find(built, typed)
  OBVIOUS
<1>4. h.query = typed /\ h.found = s
  BY <1>3
<1>5. DOMAIN built.index = 1 .. n
  BY Zenon DEF Corpus
<1>6. query = <<>> \/ Queried(query)
  BY <1>1, QueriesFolded, Zenon
<1>7. Merged(s, H, AllHits(H, n), Before(built, AllHits(H, n)), n)
  BY <1>1, <1>2, <1>3, FindMerged, Zenon
<1>8. GrowsBy(built, s)
  BY <1>7, FindGrows, Zenon
<1>9. \A p \in 1 .. n : ExactIn(built, query, s, p)
  BY <1>2, <1>6, <1>7, FindExact, Zenon
<1>10. \A k \in 1 .. Len(s) - 1 :
          Text!ProgressionAt(built, s[k].index, s[k].match.start)
             < Text!ProgressionAt(built, s[k + 1].index, s[k + 1].match.start)
  BY <1>8, Zenon DEF GrowsBy, PlaceOf
<1>11. ASSUME NEW p \in DOMAIN built.index, NEW here,
              here = {s[k].match : k \in {j \in DOMAIN s : s[j].index = built.index[p]}}
       PROVE  /\ \A m \in here :
                    /\ Occurs(built.text[p].plain, query, m.start, m.end)
                    /\ \A k \in m.context.before[2] .. m.start - 1 :
                          built.text[p].plain[k + 1] = "nl"
                    /\ m.context.after[1] = m.end
              /\ \A lo \in 0 .. Len(built.text[p].plain) - 1 :
                    \A hi \in lo + 1 .. Len(built.text[p].plain) :
                       query # <<>> /\ Occurs(built.text[p].plain, query, lo, hi)
                          => \E m \in here : m.start < hi /\ lo < m.end
  <2>1. here = Here(built, s, p)
    BY <1>11, Zenon DEF Here
  <2>2. ExactIn(built, query, s, p)
    BY <1>5, <1>9, Zenon
  <2> QED
    BY <2>1, <2>2, Zenon DEF ExactIn
<1>12. Text!foldAndNormalize(h.query) = query
  BY <1>1, <1>4, Zenon
<1> QED
  <2>1. Exactly(built, DOMAIN built.index, h) <=> ExactlyOf(built, DOMAIN built.index, query, s)
    BY <1>4, <1>12, Zenon DEF Exactly
  <2> QED
    BY <1>10, <1>11, <2>1, Zenon DEF ExactlyOf

\* The hits of a publication are exact.
LEMMA SearchedExactly == Searched => MatchesExact
<1> SUFFICES ASSUME Searched, hits # {}
             PROVE  /\ ShownExactly(Text!Build(texts), texts)
                    /\ \A h \in hits : Exactly(Text!Build(texts),
                                               DOMAIN Text!Build(texts).index, h)
  BY DEF MatchesExact, ShownExactly, Exactly, ExactlyOf
<1> DEFINE built == Text!Build(texts)
<1>1. texts \in Publications /\ hits = FoundFor(texts)
  BY Zenon DEF Searched
<1>2. /\ texts \in Seq(Seq(Text!Tokens))
      /\ \A q \in Queries : q \in Seq(Text!Characters)
  BY <1>1, PublicationSearchAssumption, Zenon
<1>3. PICK n : Corpus(built, texts, n)
  BY <1>2, CorpusBuilt, Zenon
<1> HIDE DEF built
<1>4. ShownExactly(built, texts)
  BY <1>2, <1>3, CorpusShown, Zenon
<1>5. ASSUME NEW h \in hits PROVE Exactly(built, DOMAIN built.index, h)
  <2>1. PICK q \in Queries : h = [query |-> q, found |-> Text!Find(built, q)]
    BY <1>1, Zenon DEF FoundFor, built
  <2>2. q \in Seq(Text!Characters)
    BY <1>2, Zenon
  <2> QED
    BY <1>2, <1>3, <2>1, <2>2, HitsExact, Zenon
<1> QED
  BY <1>4, <1>5, Zenon DEF built

\* Whatever the publication and the queries are, what is found for a query is where it
\* occurs in the text that is shown, in reading order and with the text next to it as its
\* context: no more, and no less but for what overlaps a match.
THEOREM MatchesAreExact == PSSpec => []MatchesExact
<1>1. PSInit => Searched
  BY Zenon DEF PSInit, Searched
<1>2. Searched /\ [PSNext]_<<vars, textVars>> => Searched'
  <2> SUFFICES ASSUME Searched, [PSNext]_<<vars, textVars>> PROVE Searched'
    OBVIOUS
  <2>1. CASE FindTexts
    <3>1. /\ texts # <<>> /\ hits' = FoundFor(texts) /\ texts' = texts
      BY <2>1, Zenon DEF FindTexts, FoundFor
    <3>2. texts \in Publications
      BY <3>1, Zenon DEF Searched
    <3>3. hits' = FoundFor(texts')
      BY <3>1, Zenon
    <3>4. texts' \in Publications
      BY <3>1, <3>2, Zenon
    <3> QED
      BY <3>3, <3>4, Zenon DEF Searched, FoundFor
  <2>2. CASE Start
    BY <2>2, Zenon DEF Start, Searched
  <2>3. CASE UNCHANGED textVars
    <3>1. texts' = texts /\ hits' = hits
      BY <2>3 DEF textVars
    <3> QED
      BY <3>1 DEF Searched, FoundFor
  <2> QED
    BY <2>1, <2>2, <2>3, Zenon DEF PSNext, Serve
<1> QED
  BY <1>1, <1>2, SearchedExactly, PTL DEF PSSpec

=============================================================================
