-------------------------- MODULE FetchedReader_proofs --------------------------
(***************************************************************************)
(* What a listing returns and what a reader over a listed resource         *)
(* delivers, for every provider, any objects, any size of a page, all      *)
(* buffers and offsets and any number of goroutines.                       *)
(*                                                                         *)
(* Kept picks from a list by recursion over its length; what it does is    *)
(* proved once, by induction over a set of naturals.  A listing under way  *)
(* has read a beginning of the objects, and the cache holds what that      *)
(* beginning comes to (Ordered) as long as no calls have overlapped; that  *)
(* it holds nothing foreign (Founded) is so even then.  For the readers    *)
(* it is enough that a length they keep is the length, and that only a     *)
(* file has claims: every read of any layer is then one of the same range  *)
(* (Expected), or fails, and is a step of SeekableReader.                  *)
(***************************************************************************)
EXTENDS FetchedReader, SequenceTheorems, WellFoundedInduction, TLAPS

-----------------------------------------------------------------------------
(* Recursion over a list. *)

\* Induction on the naturals, over a set instead of a predicate.
LEMMA InductionOnNat ==
    ASSUME NEW S, 0 \in S, \A n \in Nat : n \in S => n + 1 \in S
    PROVE  Nat \subseteq S
<1> DEFINE Less == OpToRel(<, Nat)
           Bad == Nat \ S
<1> SUFFICES ASSUME Bad # {} PROVE FALSE
  OBVIOUS
<1>1. PICK n \in Bad : \A m \in Bad : ~ (<<m, n>> \in Less)
  BY NatLessThanWellFounded, WFMin
<1>2. \A m \in Nat : m < n => m \in S
  BY <1>1 DEF OpToRel
<1>3. n # 0 /\ n - 1 \in Nat /\ n - 1 \in S
  BY <1>2
<1> QED
  BY <1>3

\* What holds of 0, and of i when it holds of i - 1, holds up to n.
LEMMA InductionUpTo ==
    ASSUME NEW n \in Nat, NEW S, 0 \in S, \A i \in 1 .. n : i - 1 \in S => i \in S
    PROVE  0 .. n \subseteq S
<1> DEFINE T == {m \in Nat : m <= n => m \in S}
<1>1. 0 \in T
  OBVIOUS
<1>2. ASSUME NEW m \in Nat, m \in T PROVE m + 1 \in T
  <2>1. CASE m + 1 <= n
    <3>1. m + 1 \in 1 .. n /\ (m + 1) - 1 = m /\ m <= n
      BY <2>1
    <3> QED
      BY <1>2, <3>1
  <2> QED
    BY <2>1
<1> HIDE DEF T
<1>3. Nat \subseteq T
  BY <1>1, <1>2, InductionOnNat
<1> QED
  BY <1>3 DEF T

\* A function that is the walk of Kept along a list.
Walk(f, list, keep) ==
    f = [i \in 0 .. Len(list) |->
            IF i = 0 THEN <<>>
            ELSE IF i \in keep THEN Append(f[i - 1], list[i]) ELSE f[i - 1]]

\* The walk, step by step.
LEMMA WalkSteps ==
    ASSUME NEW f, NEW list, NEW keep, Len(list) \in Nat, Walk(f, list, keep)
    PROVE  /\ f[0] = <<>>
           /\ \A i \in 1 .. Len(list) : i \in keep => f[i] = Append(f[i - 1], list[i])
           /\ \A i \in 1 .. Len(list) : i \notin keep => f[i] = f[i - 1]
<1>1. ASSUME NEW i \in 0 .. Len(list)
      PROVE  f[i] = IF i = 0 THEN <<>>
                    ELSE IF i \in keep THEN Append(f[i - 1], list[i]) ELSE f[i - 1]
  BY Zenon DEF Walk
<1>2. 0 \in 0 .. Len(list)
  OBVIOUS
<1>3. ASSUME NEW i \in 1 .. Len(list) PROVE i # 0 /\ i \in 0 .. Len(list)
  OBVIOUS
<1>4. f[0] = <<>>
  BY <1>1, <1>2, Zenon
<1> QED
  BY <1>1, <1>3, <1>4, Zenon

\* What is kept up to i - 1 makes what is kept up to i: along every list there is a
\* walk, as it can be taken one step further.
LEMMA WalkExists ==
    ASSUME NEW V, NEW list \in Seq(V), NEW keep
    PROVE  \E f : Walk(f, list, keep)
<1> DEFINE n == Len(list)
           Upto(f, m) ==
             f = [i \in 0 .. m |->
                    IF i = 0 THEN <<>>
                    ELSE IF i \in keep THEN Append(f[i - 1], list[i]) ELSE f[i - 1]]
           S == {m \in Nat : \E f : Upto(f, m)}
<1>0. n \in Nat
  BY LenProperties
<1>1. 0 \in S
  <2> DEFINE f == [i \in 0 .. 0 |-> <<>>]
  <2>1. ASSUME NEW i \in 0 .. 0
        PROVE  f[i] = IF i = 0 THEN <<>>
                      ELSE IF i \in keep THEN Append(f[i - 1], list[i]) ELSE f[i - 1]
    <3>1. i = 0
      OBVIOUS
    <3> QED
      BY <3>1, Zenon
  <2>2. Upto(f, 0)
    BY <2>1, Zenon
  <2> QED
    BY <2>2
<1>2. ASSUME NEW m \in Nat, m \in S PROVE m + 1 \in S
  <2>1. PICK f : Upto(f, m)
    BY <1>2
  <2> DEFINE next == IF m + 1 \in keep THEN Append(f[m], list[m + 1]) ELSE f[m]
             g == [i \in 0 .. m + 1 |-> IF i = m + 1 THEN next ELSE f[i]]
  <2>2. ASSUME NEW i \in 0 .. m + 1
        PROVE  g[i] = IF i = 0 THEN <<>>
                      ELSE IF i \in keep THEN Append(g[i - 1], list[i]) ELSE g[i - 1]
    <3>1. CASE i = m + 1
      <4>1. i - 1 = m /\ m \in 0 .. m + 1 /\ m # m + 1 /\ i # 0
        BY <3>1
      <4>2. g[i] = next /\ g[i - 1] = f[m]
        BY <3>1, <4>1, Zenon
      <4> QED
        BY <3>1, <4>1, <4>2, Zenon
    <3>2. CASE i # m + 1 /\ i # 0
      <4>1. i \in 0 .. m /\ i - 1 \in 0 .. m + 1 /\ i - 1 # m + 1
        BY <3>2
      <4>2. g[i] = f[i] /\ g[i - 1] = f[i - 1]
        BY <3>2, <4>1, Zenon
      <4>3. f[i] = IF i = 0 THEN <<>>
                   ELSE IF i \in keep THEN Append(f[i - 1], list[i]) ELSE f[i - 1]
        BY <2>1, <4>1, Zenon
      <4> QED
        BY <4>2, <4>3, Zenon
    <3>3. CASE i = 0
      <4>1. i # m + 1 /\ i \in 0 .. m
        BY <3>3
      <4>2. g[i] = f[i]
        BY <4>1, Zenon
      <4>3. f[i] = <<>>
        BY <2>1, <3>3, <4>1, Zenon
      <4> QED
        BY <3>3, <4>2, <4>3, Zenon
    <3> QED
      BY <3>1, <3>2, <3>3
  <2>3. g = [i \in 0 .. m + 1 |-> g[i]]
    OBVIOUS
  <2> HIDE DEF g
  <2> DEFINE h(i) == IF i = 0 THEN <<>>
                     ELSE IF i \in keep THEN Append(g[i - 1], list[i]) ELSE g[i - 1]
  <2>5. \A i \in 0 .. m + 1 : g[i] = h(i)
    BY <2>2, Zenon
  <2>6. g = [i \in 0 .. m + 1 |-> h(i)]
    <3> HIDE DEF h
    <3> QED
      BY <2>3, <2>5
  <2>4. Upto(g, m + 1)
    BY <2>6, Zenon
  <2>7. m + 1 \in Nat
    OBVIOUS
  <2> QED
    <3> HIDE DEF Upto
    <3> QED
      BY <2>4, <2>7
<1>3. n \in S
  <2> HIDE DEF S
  <2>1. Nat \subseteq S
    BY <1>1, <1>2, InductionOnNat
  <2> QED
    BY <1>0, <2>1
<1> QED
  BY <1>3, Zenon DEF Walk

\* What Kept computes.
KeptBy(f, list, keep) ==
    /\ Kept(list, keep) = f[Len(list)]
    /\ f[0] = <<>>
    /\ \A i \in 1 .. Len(list) : i \in keep => f[i] = Append(f[i - 1], list[i])
    /\ \A i \in 1 .. Len(list) : i \notin keep => f[i] = f[i - 1]

\* Some sequence of beginnings computes it.
LEMMA KeptWalks ==
    ASSUME NEW V, NEW list \in Seq(V), NEW keep
    PROVE  \E f : KeptBy(f, list, keep)
<1> DEFINE g == CHOOSE f : Walk(f, list, keep)
<1>1. Walk(g, list, keep)
  BY WalkExists, Zenon
<1>2. Kept(list, keep) = g[Len(list)]
  BY DEF Kept, Walk
<1>3. Len(list) \in Nat
  BY LenProperties
<1> HIDE DEF g
<1>4. /\ g[0] = <<>>
      /\ \A i \in 1 .. Len(list) : i \in keep => g[i] = Append(g[i - 1], list[i])
      /\ \A i \in 1 .. Len(list) : i \notin keep => g[i] = g[i - 1]
  BY <1>1, <1>3, WalkSteps
<1>5. KeptBy(g, list, keep)
  BY <1>2, <1>4, Zenon DEF KeptBy
<1> QED
  BY <1>5

\* Members that are kept are members of the list.
LEMMA KeptIn ==
    ASSUME NEW V, NEW list \in Seq(V), NEW keep,
           NEW W, \A i \in 1 .. Len(list) : i \in keep => list[i] \in W
    PROVE  Kept(list, keep) \in Seq(W)
<1>0. Len(list) \in Nat
  BY LenProperties
<1>1. PICK f : KeptBy(f, list, keep)
  BY KeptWalks
<1> USE DEF KeptBy
<1> DEFINE S == {i \in 0 .. Len(list) : f[i] \in Seq(W)}
<1>2. 0 \in S
  <2>1. f[0] \in Seq(W)
    BY <1>1, EmptySeq
  <2> QED
    BY <1>0, <2>1
<1>3. ASSUME NEW i \in 1 .. Len(list), i - 1 \in S PROVE i \in S
  <2>1. i \in 0 .. Len(list) /\ f[i - 1] \in Seq(W)
    BY <1>3
  <2>2. CASE i \in keep
    <3>1. f[i] = Append(f[i - 1], list[i]) /\ list[i] \in W
      BY <1>1, <2>2
    <3>2. f[i] \in Seq(W)
      BY <2>1, <3>1, AppendProperties
    <3> QED
      BY <2>1, <3>2
  <2>3. CASE i \notin keep
    BY <1>1, <2>1, <2>3
  <2> QED
    BY <2>2, <2>3
<1>4. Len(list) \in S
  <2> HIDE DEF S
  <2>1. 0 .. Len(list) \subseteq S
    BY <1>0, <1>2, <1>3, InductionUpTo
  <2> QED
    BY <1>0, <2>1
<1> QED
  BY <1>1, <1>4

\* Nothing that is to be kept gets lost.
LEMMA KeptHas ==
    ASSUME NEW V, NEW list \in Seq(V), NEW keep,
           NEW k \in 1 .. Len(list), k \in keep
    PROVE  list[k] \in ToSet(Kept(list, keep))
<1>0. Len(list) \in Nat
  BY LenProperties
<1>1. PICK f : KeptBy(f, list, keep)
  BY KeptWalks
<1> USE DEF KeptBy
<1> DEFINE Has(i) == k <= i => \E p \in 1 .. Len(f[i]) : f[i][p] = list[k]
           S == {i \in 0 .. Len(list) : f[i] \in Seq(V) /\ Has(i)}
<1>2. 0 \in S
  <2>1. f[0] \in Seq(V)
    BY <1>1, EmptySeq
  <2>2. ~ (k <= 0)
    OBVIOUS
  <2> QED
    BY <1>0, <2>1, <2>2
<1>3. ASSUME NEW i \in 1 .. Len(list), i - 1 \in S PROVE i \in S
  <2>1. /\ i \in 0 .. Len(list) /\ f[i - 1] \in Seq(V) /\ list[i] \in V
        /\ k <= i - 1 => \E p \in 1 .. Len(f[i - 1]) : f[i - 1][p] = list[k]
    BY <1>3, ElementOfSeq
  <2>2. CASE i \in keep
    <3>1. f[i] = Append(f[i - 1], list[i])
      BY <1>1, <2>2
    <3>2. /\ f[i] \in Seq(V)
          /\ Len(f[i - 1]) \in Nat
          /\ Len(f[i]) = Len(f[i - 1]) + 1
          /\ \A p \in 1 .. Len(f[i - 1]) : f[i][p] = f[i - 1][p]
          /\ f[i][Len(f[i - 1]) + 1] = list[i]
      BY <2>1, <3>1, AppendProperties, LenProperties
    <3>3. CASE k <= i - 1
      <4>1. PICK p \in 1 .. Len(f[i - 1]) : f[i - 1][p] = list[k]
        BY <2>1, <3>3
      <4>2. p \in 1 .. Len(f[i]) /\ f[i][p] = list[k]
        BY <3>2, <4>1
      <4> QED
        BY <2>1, <3>2, <4>2
    <3>4. CASE ~ (k <= i - 1)
      <4>1. k <= i => k = i
        BY <3>4
      <4>2. Len(f[i - 1]) + 1 \in 1 .. Len(f[i])
        BY <3>2
      <4> QED
        BY <2>1, <3>2, <4>1, <4>2
    <3> QED
      BY <3>3, <3>4
  <2>3. CASE i \notin keep
    <3>1. f[i] = f[i - 1] /\ i # k
      BY <1>1, <2>3
    <3>2. k <= i => k <= i - 1
      BY <3>1
    <3> QED
      BY <2>1, <3>1, <3>2
  <2> QED
    BY <2>2, <2>3
<1>4. Len(list) \in S
  <2> HIDE DEF S
  <2>1. 0 .. Len(list) \subseteq S
    BY <1>0, <1>2, <1>3, InductionUpTo
  <2> QED
    BY <1>0, <2>1
<1>5. \E p \in 1 .. Len(f[Len(list)]) : f[Len(list)][p] = list[k]
  BY <1>0, <1>4
<1>6. Kept(list, keep) \in Seq(V)
  BY KeptIn, ElementOfSeq
<1> QED
  BY <1>1, <1>5, <1>6, LenProperties DEF ToSet

\* Keeping the same members of two lists makes the same list.
LEMMA KeptSame ==
    ASSUME NEW V, NEW a \in Seq(V), NEW b \in Seq(V), Len(a) = Len(b),
           NEW K, NEW L,
           \A i \in 1 .. Len(a) : (i \in K <=> i \in L) /\ (i \in K => a[i] = b[i])
    PROVE  Kept(a, K) = Kept(b, L)
<1>0. Len(a) \in Nat
  BY LenProperties
<1>1. PICK f : KeptBy(f, a, K)
  BY KeptWalks
<1>2. PICK g : KeptBy(g, b, L)
  BY KeptWalks
<1> USE DEF KeptBy
<1> DEFINE S == {i \in 0 .. Len(a) : f[i] = g[i]}
<1>3. 0 \in S
  BY <1>0, <1>1, <1>2
<1>4. ASSUME NEW i \in 1 .. Len(a), i - 1 \in S PROVE i \in S
  <2>1. i \in 0 .. Len(a) /\ i \in 1 .. Len(b) /\ f[i - 1] = g[i - 1]
    BY <1>4
  <2>2. CASE i \in K
    <3>1. f[i] = Append(f[i - 1], a[i]) /\ g[i] = Append(g[i - 1], b[i]) /\ a[i] = b[i]
      BY <1>1, <1>2, <2>1, <2>2
    <3> QED
      BY <2>1, <3>1
  <2>3. CASE i \notin K
    <3>1. f[i] = f[i - 1] /\ g[i] = g[i - 1]
      BY <1>1, <1>2, <2>1, <2>3
    <3> QED
      BY <2>1, <3>1
  <2> QED
    BY <2>2, <2>3
<1>5. Len(a) \in S
  <2> HIDE DEF S
  <2>1. 0 .. Len(a) \subseteq S
    BY <1>0, <1>3, <1>4, InductionUpTo
  <2> QED
    BY <1>0, <2>1
<1> QED
  BY <1>1, <1>2, <1>5

\* One more member that is kept comes last.
LEMMA KeptNext ==
    ASSUME NEW V, NEW list \in Seq(V), NEW K, NEW m \in 1 .. Len(list)
    PROVE  /\ m \in K => Kept(list, K \cap (1 .. m)) =
                            Append(Kept(list, K \cap (1 .. m - 1)), list[m])
           /\ m \notin K => Kept(list, K \cap (1 .. m)) = Kept(list, K \cap (1 .. m - 1))
<1>0. Len(list) \in Nat /\ m - 1 \in Nat
  BY LenProperties
<1> DEFINE A == K \cap (1 .. m)
           B == K \cap (1 .. m - 1)
<1>1. PICK f : KeptBy(f, list, A)
  BY KeptWalks
<1>2. PICK g : KeptBy(g, list, B)
  BY KeptWalks
<1> USE DEF KeptBy
<1> DEFINE Then(s) == IF m \in K THEN Append(s, list[m]) ELSE s
           S == {i \in 0 .. Len(list) : /\ i < m => f[i] = g[i]
                                        /\ i >= m => f[i] = Then(g[i])}
<1>3. 0 \in S
  BY <1>0, <1>1, <1>2
<1>4. ASSUME NEW i \in 1 .. Len(list), i - 1 \in S PROVE i \in S
  <2>1. /\ i \in 0 .. Len(list)
        /\ i - 1 < m => f[i - 1] = g[i - 1]
        /\ i - 1 >= m => f[i - 1] = Then(g[i - 1])
    BY <1>4
  <2> HIDE DEF Then
  <2>2. CASE i < m
    <3>1. i - 1 < m /\ (i \in A <=> i \in B) /\ ~ (i >= m)
      BY <2>2
    <3>2. f[i] = g[i]
      BY <1>1, <1>2, <2>1, <3>1
    <3> QED
      BY <2>1, <3>1, <3>2
  <2>3. CASE i = m
    <3>1. i - 1 < m /\ (i \in A <=> m \in K) /\ i \notin B /\ ~ (i < m)
      BY <2>3
    <3>2. f[i - 1] = g[i - 1] /\ g[i] = g[i - 1]
      BY <1>2, <2>1, <3>1
    <3>3. f[i] = Then(g[i])
      BY <1>1, <2>3, <3>1, <3>2 DEF Then
    <3> QED
      BY <2>1, <3>1, <3>3
  <2>4. CASE i > m
    <3>1. i - 1 >= m /\ i \notin A /\ i \notin B /\ ~ (i < m)
      BY <2>4
    <3>2. f[i] = f[i - 1] /\ g[i] = g[i - 1]
      BY <1>1, <1>2, <3>1
    <3> QED
      BY <2>1, <3>1, <3>2
  <2> QED
    BY <2>2, <2>3, <2>4
<1>5. Len(list) \in S
  <2> HIDE DEF S
  <2>1. 0 .. Len(list) \subseteq S
    BY <1>0, <1>3, <1>4, InductionUpTo
  <2> QED
    BY <1>0, <2>1
<1>6. Len(list) >= m
  OBVIOUS
<1> QED
  BY <1>1, <1>2, <1>5, <1>6

\* Where nothing is kept, nothing is left.
LEMMA KeptNone ==
    ASSUME NEW V, NEW list \in Seq(V), NEW K, \A i \in 1 .. Len(list) : i \notin K
    PROVE  Kept(list, K) = <<>>
<1>0. Len(list) \in Nat
  BY LenProperties
<1>1. PICK f : KeptBy(f, list, K)
  BY KeptWalks
<1> USE DEF KeptBy
<1> DEFINE S == {i \in 0 .. Len(list) : f[i] = <<>>}
<1>2. 0 \in S
  BY <1>0, <1>1
<1>3. ASSUME NEW i \in 1 .. Len(list), i - 1 \in S PROVE i \in S
  <2>1. f[i] = f[i - 1] /\ f[i - 1] = <<>> /\ i \in 0 .. Len(list)
    BY <1>1, <1>3
  <2> QED
    BY <2>1
<1>4. Len(list) \in S
  <2> HIDE DEF S
  <2>1. 0 .. Len(list) \subseteq S
    BY <1>0, <1>2, <1>3, InductionUpTo
  <2> QED
    BY <1>0, <2>1
<1> QED
  BY <1>1, <1>4

\* Where everything is kept, the list stays as it is.
LEMMA KeptAll ==
    ASSUME NEW V, NEW list \in Seq(V), NEW K, \A i \in 1 .. Len(list) : i \in K
    PROVE  Kept(list, K) = list
<1>0. Len(list) \in Nat
  BY LenProperties
<1>1. PICK f : KeptBy(f, list, K)
  BY KeptWalks
<1> USE DEF KeptBy
<1> DEFINE S == {i \in 0 .. Len(list) : /\ f[i] \in Seq(V)
                                        /\ Len(f[i]) = i
                                        /\ \A p \in 1 .. i : f[i][p] = list[p]}
<1>2. 0 \in S
  <2>1. f[0] \in Seq(V) /\ Len(f[0]) = 0
    BY <1>1, EmptySeq
  <2> QED
    BY <1>0, <2>1
<1>3. ASSUME NEW i \in 1 .. Len(list), i - 1 \in S PROVE i \in S
  <2>1. /\ i \in 0 .. Len(list) /\ list[i] \in V
        /\ f[i - 1] \in Seq(V) /\ Len(f[i - 1]) = i - 1
        /\ \A p \in 1 .. i - 1 : f[i - 1][p] = list[p]
    BY <1>3, ElementOfSeq
  <2>2. f[i] = Append(f[i - 1], list[i])
    BY <1>1
  <2>3. /\ f[i] \in Seq(V)
        /\ Len(f[i]) = Len(f[i - 1]) + 1
        /\ \A p \in 1 .. Len(f[i - 1]) : f[i][p] = f[i - 1][p]
        /\ f[i][Len(f[i - 1]) + 1] = list[i]
    BY <2>1, <2>2, AppendProperties
  <2>4. ASSUME NEW p \in 1 .. i PROVE f[i][p] = list[p]
    <3>1. p = i \/ p \in 1 .. i - 1
      OBVIOUS
    <3>2. (i - 1) + 1 = i
      OBVIOUS
    <3> QED
      BY <2>1, <2>3, <3>1, <3>2
  <2> QED
    BY <2>1, <2>3, <2>4
<1>4. Len(list) \in S
  <2> HIDE DEF S
  <2>1. 0 .. Len(list) \subseteq S
    BY <1>0, <1>2, <1>3, InductionUpTo
  <2> QED
    BY <1>0, <2>1
<1>5. /\ Kept(list, K) \in Seq(V)
      /\ Len(Kept(list, K)) = Len(list)
      /\ \A p \in 1 .. Len(list) : Kept(list, K)[p] = list[p]
  BY <1>1, <1>4
<1> QED
  BY <1>5, SeqEqual

\* A sequence that agrees with another one as far as it goes is a prefix of it.
LEMMA Agreeing ==
    ASSUME NEW V, NEW s \in Seq(V), NEW t \in Seq(V), Len(s) <= Len(t),
           \A p \in 1 .. Len(s) : s[p] = t[p]
    PROVE  IsPrefix(s, t)
<1>1. Len(s) \in Nat /\ Len(t) \in Nat
  BY LenProperties
<1>2. SubSeq(s, 1, Len(s)) = s
  BY SubSeqFull
<1>3. CASE Len(s) = 0
  <2>1. s = <<>>
    BY <1>3, EmptySeq
  <2>2. SubSeq(t, 1, 0) = <<>>
    BY SubSeqEmpty
  <2> QED
    BY <1>1, <1>2, <1>3, <2>1, <2>2 DEF IsPrefix
<1>4. CASE Len(s) # 0
  <2> DEFINE u == SubSeq(t, 1, Len(s))
  <2>1. 1 \in 1 .. Len(t) /\ Len(s) \in 1 .. Len(t)
    BY <1>1, <1>4
  <2>2. /\ u \in Seq(V)
        /\ Len(u) = Len(s)
        /\ \A p \in 1 .. Len(s) : u[p] = t[p]
    BY <1>1, <2>1, SubSeqProperties
  <2>3. u = s
    BY <2>2, SeqEqual
  <2> QED
    BY <1>2, <2>3 DEF IsPrefix
<1> QED
  BY <1>3, <1>4

\* Every sequence is a prefix of itself.
LEMMA PrefixOfItself == ASSUME NEW V, NEW s \in Seq(V) PROVE IsPrefix(s, s)
<1>1. Len(s) <= Len(s)
  BY LenProperties
<1> QED
  BY <1>1, Agreeing

\* What is kept of a beginning is the beginning of what is kept.
LEMMA KeptPrefix ==
    ASSUME NEW V, NEW list \in Seq(V), NEW K, NEW m \in Nat
    PROVE  IsPrefix(Kept(list, K \cap (1 .. m)), Kept(list, K))
<1>0. Len(list) \in Nat
  BY LenProperties
<1> DEFINE B == K \cap (1 .. m)
<1>1. PICK f : KeptBy(f, list, K)
  BY KeptWalks
<1>2. PICK g : KeptBy(g, list, B)
  BY KeptWalks
<1> USE DEF KeptBy
<1> DEFINE S == {i \in 0 .. Len(list) : /\ f[i] \in Seq(V) /\ g[i] \in Seq(V)
                                        /\ i <= m => f[i] = g[i]
                                        /\ Len(g[i]) <= Len(f[i])
                                        /\ \A p \in 1 .. Len(g[i]) : g[i][p] = f[i][p]}
<1>3. 0 \in S
  <2>1. f[0] \in Seq(V) /\ Len(f[0]) = 0 /\ f[0] = g[0]
    BY <1>1, <1>2, EmptySeq
  <2> QED
    BY <1>0, <2>1
<1>4. ASSUME NEW i \in 1 .. Len(list), i - 1 \in S PROVE i \in S
  <2>1. /\ i \in 0 .. Len(list) /\ list[i] \in V
        /\ f[i - 1] \in Seq(V) /\ g[i - 1] \in Seq(V)
        /\ i - 1 <= m => f[i - 1] = g[i - 1]
        /\ Len(g[i - 1]) <= Len(f[i - 1])
        /\ \A p \in 1 .. Len(g[i - 1]) : g[i - 1][p] = f[i - 1][p]
    BY <1>4, ElementOfSeq
  <2>2. Len(g[i - 1]) \in Nat /\ Len(f[i - 1]) \in Nat
    BY <2>1, LenProperties
  <2>3. i \in K => /\ f[i] = Append(f[i - 1], list[i])
                   /\ f[i] \in Seq(V) /\ Len(f[i]) = Len(f[i - 1]) + 1
                   /\ \A p \in 1 .. Len(f[i - 1]) : f[i][p] = f[i - 1][p]
    <3>1. i \in K => f[i] = Append(f[i - 1], list[i])
      BY <1>1
    <3>2. /\ Append(f[i - 1], list[i]) \in Seq(V)
          /\ Len(Append(f[i - 1], list[i])) = Len(f[i - 1]) + 1
          /\ \A p \in 1 .. Len(f[i - 1]) : Append(f[i - 1], list[i])[p] = f[i - 1][p]
      BY <2>1, AppendProperties
    <3> QED
      BY <3>1, <3>2
  <2>4. i \notin K => f[i] = f[i - 1] /\ g[i] = g[i - 1]
    BY <1>1, <1>2
  <2>5. CASE i \in K /\ i <= m
    <3>1. g[i] = Append(g[i - 1], list[i]) /\ f[i - 1] = g[i - 1]
      BY <1>2, <2>1, <2>5
    <3>2. f[i] = g[i]
      BY <2>3, <2>5, <3>1
    <3>3. Len(f[i]) \in Nat
      BY <2>3, <2>5, LenProperties
    <3> QED
      BY <2>1, <2>3, <2>5, <3>2, <3>3
  <2>6. CASE i \in K /\ ~ (i <= m)
    <3>1. g[i] = g[i - 1]
      BY <1>2, <2>6
    <3>2. \A p \in 1 .. Len(g[i - 1]) : p \in 1 .. Len(f[i - 1])
      BY <2>1, <2>2
    <3> QED
      BY <2>1, <2>2, <2>3, <2>6, <3>1, <3>2
  <2>7. CASE i \notin K
    <3>1. i <= m => i - 1 <= m
      BY <1>0
    <3>2. f[i] = f[i - 1] /\ g[i] = g[i - 1]
      BY <2>4, <2>7
    <3>3. i <= m => f[i] = g[i]
      BY <2>1, <3>1, <3>2
    <3>4. /\ f[i] \in Seq(V) /\ g[i] \in Seq(V) /\ Len(g[i]) <= Len(f[i])
          /\ \A p \in 1 .. Len(g[i]) : g[i][p] = f[i][p]
      BY <2>1, <3>2
    <3> QED
      BY <2>1, <3>3, <3>4
  <2> QED
    BY <2>5, <2>6, <2>7
<1>5. Len(list) \in S
  <2> HIDE DEF S
  <2>1. 0 .. Len(list) \subseteq S
    BY <1>0, <1>3, <1>4, InductionUpTo
  <2> QED
    BY <1>0, <2>1
<1> QED
  BY <1>1, <1>2, <1>5, Agreeing

-----------------------------------------------------------------------------
(* What a location has to list.                                            *)

Sized == {i \in DOMAIN Contents : SizeOf(Contents[i]) > 0}

\* The links of what comes before i.
SoFar(i) == Kept(Ids(Contents), Sized \cap (1 .. i - 1))

\* What may stand in a listing.
Known == {Blank} \union ToSet(Listable)

\* A location is as it should be, and what is asked for of it at once is a part of it.
LEMMA ContentsAre ==
    ASSUME place \in Places
    PROVE  /\ place \in [provider : {"s3", "gcs", "http", "archive"}, ranges : BOOLEAN,
                         slash : BOOLEAN, size : Nat, objects : Seq(Objects)]
           /\ place.objects \in Seq(Objects) /\ Len(place.objects) \in Nat
           /\ DOMAIN place.objects = 1 .. Len(place.objects)
           /\ Contents \in Seq(Objects) /\ Len(Contents) \in Nat
           /\ DOMAIN Contents = 1 .. Len(Contents)
           /\ Contents = <<>> => place.objects = <<>>
           /\ \A i \in 1 .. Len(Contents) :
                 i \in 1 .. Len(place.objects) /\ Contents[i] = place.objects[i]
<1>1. place \in [provider : {"s3", "gcs", "http", "archive"}, ranges : BOOLEAN,
                 slash : BOOLEAN, size : Nat, objects : Seq(Objects)]
  BY FetchersAssumption DEF FetchersAssumption
<1>2. place.objects \in Seq(Objects)
  BY <1>1
<1>3. /\ Len(place.objects) \in Nat
      /\ DOMAIN place.objects = 1 .. Len(place.objects)
  BY <1>2, LenProperties
<1> DEFINE m == IF Len(place.objects) < PageSize THEN Len(place.objects) ELSE PageSize
           page == SubSeq(place.objects, 1, m)
<1>4. PageSize \in Nat \ {0}
  BY FetchersAssumption DEF FetchersAssumption
<1>5. m \in Nat /\ m <= Len(place.objects) /\ (m = 0 => Len(place.objects) = 0)
  BY <1>3, <1>4
<1>6. /\ page \in Seq(Objects)
      /\ Len(page) = m
      /\ \A i \in 1 .. m : page[i] = place.objects[i]
  <2> HIDE DEF m
  <2>1. \A i \in 1 .. m : place.objects[i] \in Objects
    BY <1>2, <1>3, <1>5, ElementOfSeq
  <2>2. /\ page \in Seq(Objects)
        /\ Len(page) = IF 1 <= m THEN m - 1 + 1 ELSE 0
        /\ \A i \in 1 .. m - 1 + 1 : page[i] = place.objects[1 + i - 1]
    BY <1>5, <2>1, SubSeqProperties
  <2>3. m - 1 + 1 = m /\ \A i \in 1 .. m : 1 + i - 1 = i
    BY <1>5
  <2>4. Len(page) = m
    BY <1>5, <2>2
  <2> QED
    BY <2>2, <2>3, <2>4
<1>7. Contents = IF place.provider = "s3" THEN page ELSE place.objects
  BY DEF Contents
<1> HIDE DEF m, page
<1>8. Contents \in Seq(Objects)
  BY <1>2, <1>6, <1>7
<1>9. Len(Contents) \in Nat /\ DOMAIN Contents = 1 .. Len(Contents)
  BY <1>8, LenProperties
<1>10. Contents = <<>> => place.objects = <<>>
  <2>1. page = <<>> => m = 0
    BY <1>6, EmptySeq
  <2>2. Len(place.objects) = 0 => place.objects = <<>>
    BY <1>2, EmptySeq
  <2> QED
    BY <1>5, <1>7, <2>1, <2>2
<1>11. ASSUME NEW i \in 1 .. Len(Contents)
       PROVE  i \in 1 .. Len(place.objects) /\ Contents[i] = place.objects[i]
  BY <1>3, <1>5, <1>6, <1>7
<1> QED
  BY <1>1, <1>2, <1>3, <1>8, <1>9, <1>10, <1>11

\* The ids of objects are as many as the objects, and name neither the location nor nothing.
LEMMA IdsAre ==
    ASSUME NEW s \in Seq(Objects)
    PROVE  /\ Ids(s) \in Seq(Nat \ {0})
           /\ Len(Ids(s)) = Len(s)
           /\ \A i \in 1 .. Len(s) : Ids(s)[i] = s[i].id /\ s[i].id \in Nat \ {0}
<1>1. Len(s) \in Nat /\ DOMAIN s = 1 .. Len(s)
  BY LenProperties
<1>2. \A i \in 1 .. Len(s) : s[i].id \in Nat \ {0}
  <2>1. \A i \in 1 .. Len(s) : s[i] \in Objects
    BY ElementOfSeq
  <2> QED
    BY <2>1 DEF Objects
<1>3. Ids(s) = [i \in 1 .. Len(s) |-> s[i].id]
  BY <1>1 DEF Ids
<1>4. Ids(s) \in [1 .. Len(s) -> Nat \ {0}]
  BY <1>2, <1>3
<1>5. Ids(s) \in Seq(Nat \ {0})
  BY <1>1, <1>4, SeqDef
<1>6. DOMAIN Ids(s) = 1 .. Len(Ids(s)) /\ Len(Ids(s)) \in Nat
  BY <1>5, LenProperties
<1>7. DOMAIN Ids(s) = 1 .. Len(s)
  BY <1>4
<1>8. Len(Ids(s)) = Len(s)
  <2> DEFINE m == Len(Ids(s))
             n == Len(s)
  <2>1. m \in Nat /\ n \in Nat /\ 1 .. m = 1 .. n
    BY <1>1, <1>6, <1>7
  <2> HIDE DEF m, n
  <2>2. m \in 1 .. n \/ m = 0
    BY <2>1
  <2>3. n \in 1 .. m \/ n = 0
    BY <2>1
  <2>4. m = n
    BY <2>1, <2>2, <2>3
  <2> QED
    BY <2>4 DEF m, n
<1> QED
  BY <1>2, <1>3, <1>5, <1>8

\* The true listing, of a cloud location that is no object itself.
LEMMA ListableIs ==
    ASSUME place \in Places
    PROVE  /\ place.provider = "http" => Listable = <<Itself>>
           /\ Caches /\ place.objects = <<>> /\ ~place.slash => Listable = <<Itself>>
           /\ place.provider = "archive" => Listable = Ids(place.objects)
           /\ Caches /\ (place.slash \/ place.objects # <<>>)
                 => Listable = Kept(Ids(Contents), Sized)
<1>1. place.provider = "http" => Listable = <<Itself>>
  BY DEF Listable
<1>2. Caches /\ place.objects = <<>> /\ ~place.slash => Listable = <<Itself>>
  BY Zenon DEF Listable
<1>3. place.provider = "archive" => Listable = Ids(place.objects)
  BY DEF Listable, Caches
<1>4. ASSUME Caches, place.slash \/ place.objects # <<>>
      PROVE  Listable = Kept(Ids(Contents), Sized)
  <2>1. place.provider # "http" /\ place.provider # "archive"
    BY <1>4 DEF Caches
  <2> QED
    BY <1>4, <2>1, Zenon DEF Listable, Sized
<1> QED
  BY <1>1, <1>2, <1>3, <1>4

\* It is a sequence of ids of objects below, or of the location's own.
LEMMA ListableSeq ==
    ASSUME place \in Places
    PROVE  /\ Listable \in Seq(Nat)
           /\ \A id \in ToSet(Listable) :
                 id = Itself \/ \E i \in DOMAIN place.objects : place.objects[i].id = id
<1> DEFINE W == {id \in Nat : id = Itself
                           \/ \E i \in DOMAIN place.objects : place.objects[i].id = id}
<1>0. place.provider \in {"s3", "gcs", "http", "archive"}
  BY ContentsAre
<1>1. <<Itself>> \in Seq(W)
  <2>1. Itself \in W
    BY DEF Itself
  <2> HIDE DEF W
  <2> QED
    BY <2>1
<1>2. Ids(place.objects) \in Seq(W)
  <2>1. /\ Ids(place.objects) \in Seq(Nat \ {0})
        /\ Len(Ids(place.objects)) = Len(place.objects)
        /\ \A i \in 1 .. Len(place.objects) : Ids(place.objects)[i] \in W
    BY ContentsAre, IdsAre
  <2>2. Ids(place.objects) \in [1 .. Len(place.objects) -> W]
    <3> HIDE DEF W
    <3> QED
      BY <2>1, LenProperties
  <2> QED
    BY <2>2, ContentsAre, SeqDef
<1>3. Kept(Ids(Contents), Sized) \in Seq(W)
  <2>1. /\ Ids(Contents) \in Seq(Nat \ {0})
        /\ Len(Ids(Contents)) = Len(Contents)
        /\ \A i \in 1 .. Len(Contents) : Ids(Contents)[i] \in W
    BY ContentsAre, IdsAre
  <2> HIDE DEF W
  <2> QED
    BY <2>1, KeptIn
<1>4. Listable \in Seq(W)
  BY <1>0, <1>1, <1>2, <1>3 DEF Listable, Sized
<1>5. Listable \in Seq(Nat)
  BY <1>4, SeqMonotonic
<1>6. \A id \in ToSet(Listable) : id \in W
  <2> HIDE DEF W
  <2> QED
    BY <1>4, LenProperties, ElementOfSeq DEF ToSet
<1> QED
  BY <1>5, <1>6

-----------------------------------------------------------------------------
(* The invariant of the listings.                                          *)

\* What a caller stands at, and what it has seen of the cache.
Calls == [pc : {"idle", "list", "fill", "put"}, at : Nat, seen : Seq(Known)]

\* Whatever calls overlap, nothing but links of the location gets into a listing:
\* what is put there has been found in the contents, with a size.
Founded ==
    /\ place \in Places
    /\ cachedLinks \in Seq(Known)
    /\ call \in [Threads -> Calls]
    /\ links \in [ok : BOOLEAN, list : Seq(Known)]
    /\ spoilt \in BOOLEAN /\ overlapped \in BOOLEAN
    /\ \A t \in Threads :
          /\ call[t].pc = "idle" => call[t] = Idle
          /\ call[t].pc # "idle" => Caches
          /\ call[t].pc \in {"fill", "put"} => call[t].at \in 1 .. Len(Contents) + 1
          /\ call[t].pc = "put" => call[t].at \in Sized

\* A list is the true listing, or the beginning of it that a failure has left.
Right(list) ==
    /\ IsPrefix(Named(list), Listable)
    /\ spoilt \/ Named(list) = Listable

\* The cache of a listing that has come to i.  S3 has room for all, and fills it in place.
Filled(i) ==
    /\ Contents # <<>>
    /\ place.provider = "gcs" => cachedLinks = SoFar(i)
    /\ place.provider = "s3" =>
          /\ Len(cachedLinks) = Len(Contents)
          /\ \A j \in 1 .. Len(Contents) :
                cachedLinks[j] = IF j < i /\ j \in Sized THEN Contents[j].id ELSE Blank

\* As long as no two calls have overlapped, the one under way knows the cache.
Ordered ==
    ~overlapped =>
        /\ \A t, u \in Threads : call[t] # Idle /\ call[u] # Idle => t = u
        /\ (\A t \in Threads : call[t] = Idle) => cachedLinks = <<>> \/ Right(cachedLinks)
        /\ \A t \in Threads :
              /\ call[t].pc = "list" => cachedLinks = <<>>
              /\ call[t].pc \in {"fill", "put"} => Filled(call[t].at)
              /\ call[t].pc = "put" => call[t].seen = cachedLinks

ListInv == Founded /\ Ordered /\ LinksTruthful

\* A list of links without its blanks.
LEMMA NamedIs ==
    ASSUME place \in Places, NEW list \in Seq(Known)
    PROVE  /\ Named(list) \in Seq(ToSet(Listable))
           /\ ToSet(Named(list)) \subseteq ToSet(Listable)
<1>1. \A i \in 1 .. Len(list) : list[i] \in Known
  BY ElementOfSeq
<1> DEFINE keep == {i \in DOMAIN list : list[i] # Blank}
           W == ToSet(Listable)
<1>2. \A i \in 1 .. Len(list) : i \in keep => list[i] \in W
  BY <1>1 DEF Known
<1>3. Kept(list, keep) \in Seq(W)
  <2> HIDE DEF keep, W
  <2> QED
    BY <1>2, KeptIn
<1>4. Named(list) \in Seq(W)
  BY <1>3 DEF Named
<1>5. ToSet(Named(list)) \subseteq W
  <2> HIDE DEF W
  <2> QED
    BY <1>4, LenProperties, ElementOfSeq DEF ToSet
<1> QED
  BY <1>4, <1>5

\* A list without blanks is named as it is.
LEMMA NamedWhole ==
    ASSUME NEW V, NEW list \in Seq(V), Blank \notin V
    PROVE  Named(list) = list
<1>1. \A i \in 1 .. Len(list) : list[i] # Blank
  BY ElementOfSeq
<1>2. \A i \in 1 .. Len(list) : i \in {j \in DOMAIN list : list[j] # Blank}
  BY <1>1, LenProperties
<1> QED
  BY <1>2, KeptAll DEF Named

\* The listing so far is a beginning of the listing.
LEMMA SoFarIs ==
    ASSUME place \in Places, NEW i \in Nat
    PROVE  /\ SoFar(i) \in Seq(Nat \ {0})
           /\ Named(SoFar(i)) = SoFar(i)
           /\ i \in 1 .. Len(Contents) + 1 =>
                 IsPrefix(SoFar(i), Kept(Ids(Contents), Sized))
           /\ i = Len(Contents) + 1 => SoFar(i) = Kept(Ids(Contents), Sized)
<1>1. /\ Contents \in Seq(Objects) /\ Len(Contents) \in Nat
      /\ DOMAIN Contents = 1 .. Len(Contents)
      /\ Ids(Contents) \in Seq(Nat \ {0}) /\ Len(Ids(Contents)) = Len(Contents)
      /\ \A j \in 1 .. Len(Contents) : Ids(Contents)[j] \in Nat \ {0}
  BY ContentsAre, IdsAre
<1>2. SoFar(i) \in Seq(Nat \ {0})
  BY <1>1, KeptIn DEF SoFar
<1>3. Named(SoFar(i)) = SoFar(i)
  <2>1. Blank \notin Nat \ {0}
    BY DEF Blank
  <2> QED
    BY <1>2, <2>1, NamedWhole
<1>4. ASSUME i \in 1 .. Len(Contents) + 1
      PROVE  IsPrefix(SoFar(i), Kept(Ids(Contents), Sized))
  <2>1. i - 1 \in Nat
    BY <1>1, <1>4
  <2> QED
    BY <1>1, <2>1, KeptPrefix DEF SoFar
<1>5. ASSUME i = Len(Contents) + 1 PROVE SoFar(i) = Kept(Ids(Contents), Sized)
  <2>1. i - 1 = Len(Contents)
    BY <1>1, <1>5
  <2>2. Sized \cap (1 .. i - 1) = Sized
    BY <1>1, <2>1 DEF Sized
  <2> QED
    BY <2>2 DEF SoFar
<1> QED
  BY <1>2, <1>3, <1>4, <1>5

\* What a listing has put into the cache is the listing so far.
LEMMA FilledIs ==
    ASSUME Founded, Caches, NEW i \in 1 .. Len(Contents) + 1, Filled(i)
    PROVE  /\ Named(cachedLinks) = SoFar(i)
           /\ Listable = Kept(Ids(Contents), Sized)
           /\ IsPrefix(Named(cachedLinks), Listable)
           /\ i = Len(Contents) + 1 => Named(cachedLinks) = Listable
<1>0. place \in Places
  BY DEF Founded
<1>1. /\ Contents \in Seq(Objects) /\ Len(Contents) \in Nat
      /\ DOMAIN Contents = 1 .. Len(Contents)
      /\ Ids(Contents) \in Seq(Nat \ {0}) /\ Len(Ids(Contents)) = Len(Contents)
      /\ \A j \in 1 .. Len(Contents) :
            Ids(Contents)[j] = Contents[j].id /\ Contents[j].id \in Nat \ {0}
  BY <1>0, ContentsAre, IdsAre
<1>2. i \in Nat
  BY <1>1
<1>3. Named(cachedLinks) = SoFar(i)
  <2>1. CASE place.provider = "gcs"
    <3>1. cachedLinks = SoFar(i)
      BY <2>1 DEF Filled
    <3> QED
      BY <1>0, <1>2, <3>1, SoFarIs
  <2>2. CASE place.provider = "s3"
    <3>1. /\ Len(cachedLinks) = Len(Contents)
          /\ \A j \in 1 .. Len(Contents) :
                cachedLinks[j] = IF j < i /\ j \in Sized THEN Contents[j].id ELSE Blank
      BY <2>2 DEF Filled
    <3> DEFINE K == {j \in DOMAIN cachedLinks : cachedLinks[j] # Blank}
               L == Sized \cap (1 .. i - 1)
    <3>2. cachedLinks \in Seq(Known) /\ DOMAIN cachedLinks = 1 .. Len(cachedLinks)
      BY LenProperties DEF Founded
    <3>3. ASSUME NEW j \in 1 .. Len(cachedLinks)
          PROVE  (j \in K <=> j \in L) /\ (j \in K => cachedLinks[j] = Ids(Contents)[j])
      <4>1. j \in 1 .. Len(Contents) /\ j \in DOMAIN cachedLinks
        BY <3>1, <3>2
      <4>2. /\ cachedLinks[j] = IF j < i /\ j \in Sized THEN Contents[j].id ELSE Blank
            /\ Ids(Contents)[j] = Contents[j].id /\ Contents[j].id \in Nat \ {0}
        BY <1>1, <3>1, <4>1
      <4>3. j \in L <=> j < i /\ j \in Sized
        BY <1>1, <1>2, <4>1
      <4>4. Contents[j].id # Blank
        BY <4>2 DEF Blank
      <4> QED
        BY <4>1, <4>2, <4>3, <4>4
    <3>4. Kept(cachedLinks, K) = Kept(Ids(Contents), L)
      <4> DEFINE V == Known \union Nat
      <4>1. cachedLinks \in Seq(V) /\ Ids(Contents) \in Seq(V)
        <5>1. Known \subseteq V /\ Nat \ {0} \subseteq V
          OBVIOUS
        <5> HIDE DEF V
        <5> QED
          BY <1>1, <3>2, <5>1, SeqMonotonic
      <4>2. Len(cachedLinks) = Len(Ids(Contents))
        BY <1>1, <3>1
      <4> HIDE DEF V, K, L
      <4> QED
        BY <3>3, <4>1, <4>2, KeptSame
    <3> QED
      BY <3>4 DEF Named, SoFar
  <2> QED
    BY <2>1, <2>2 DEF Caches
<1>4. Contents # <<>> /\ (Contents # <<>> => place.objects # <<>>)
  <2>1. place.objects = <<>> => Contents = <<>>
    <3>1. ASSUME place.objects = <<>> PROVE Len(Contents) = 0
      <4>1. Len(place.objects) = 0
        BY <3>1, EmptySeq
      <4>2. ASSUME Len(Contents) # 0 PROVE FALSE
        <5>1. 1 \in 1 .. Len(Contents)
          BY <1>1, <4>2
        <5>2. 1 \in 1 .. Len(place.objects)
          BY <1>0, <5>1, ContentsAre
        <5> QED
          BY <4>1, <5>2
      <4> QED
        BY <4>2
    <3> QED
      BY <1>1, <3>1, EmptySeq
  <2> QED
    BY <2>1 DEF Filled
<1>5. Listable = Kept(Ids(Contents), Sized)
  BY <1>0, <1>4, ListableIs
<1> QED
  BY <1>0, <1>2, <1>3, <1>5, SoFarIs

\* What there is to list depends on the location alone.
LEMMA SamePlace ==
    ASSUME place' = place
    PROVE  /\ Contents' = Contents /\ Caches' = Caches
           /\ Sized' = Sized /\ Listable' = Listable
           /\ Known' = Known /\ Calls' = Calls
           /\ \A i : SoFar(i)' = SoFar(i)
<1>1. Contents' = Contents /\ (Caches <=> Caches')
  BY DEF Contents, Caches
<1>2. \A o : SizeOf(o)' = SizeOf(o)
  BY DEF SizeOf
<1>3. Sized' = Sized
  BY <1>1, <1>2 DEF Sized
<1>4. Ids(Contents)' = Ids(Contents) /\ Ids(place.objects)' = Ids(place.objects)
  BY <1>1 DEF Ids
<1>5. Kept(Ids(Contents), Sized)' = Kept(Ids(Contents), Sized)
  BY <1>3, <1>4
<1>6. Listable' = Listable
  BY <1>1, <1>4, <1>5, Zenon DEF Listable, Sized
<1>7. Known' = Known
  BY <1>6 DEF Known
<1>8. \A i : SoFar(i)' = SoFar(i)
  BY <1>3, <1>4 DEF SoFar
<1> QED
  BY <1>1, <1>3, <1>6, <1>7, <1>8 DEF Calls

\* Where a caller that is not idle is alone with the cache.
LEMMA Alone ==
    ASSUME ListInv, ~overlapped, NEW t \in Threads, call[t] # Idle
    PROVE  \A u \in Threads : u # t => call[u] = Idle
BY DEF ListInv, Ordered

\* A call that returns or fails leaves the invariant, if the list it returns is made of
\* links and, unless it has overlapped with another one, is right, and so is the cache.
LEMMA EndsHold ==
    ASSUME ListInv, NEW t \in Threads, NEW list, place' = place,
           call' = [call EXCEPT ![t] = Idle],
           links' = NoLinks \/ (links' = [ok |-> TRUE, list |-> list] /\ list \in Seq(Known)),
           cachedLinks' \in Seq(Known),
           spoilt' \in BOOLEAN, overlapped' \in BOOLEAN,
           ~overlapped' =>
               /\ \A u \in Threads : u # t => call[u] = Idle
               /\ links' = NoLinks \/ IsPrefix(Named(list), Listable)
               /\ links' = NoLinks \/ spoilt' \/ Named(list) = Listable
               /\ \/ cachedLinks' = <<>>
                  \/ /\ IsPrefix(Named(cachedLinks'), Listable)
                     /\ spoilt' \/ Named(cachedLinks') = Listable
    PROVE  ListInv'
<1>0. /\ place \in Places /\ call \in [Threads -> Calls]
      /\ \A u \in Threads :
          /\ call[u].pc = "idle" => call[u] = Idle
          /\ call[u].pc # "idle" => Caches
          /\ call[u].pc \in {"fill", "put"} => call[u].at \in 1 .. Len(Contents) + 1
          /\ call[u].pc = "put" => call[u].at \in Sized
  BY DEF ListInv, Founded
<1>1. /\ Contents' = Contents /\ (Caches' <=> Caches) /\ Sized' = Sized
      /\ Listable' = Listable /\ Known' = Known /\ Calls' = Calls
  BY SamePlace
<1>2. Idle \in Calls /\ Idle.pc = "idle"
  BY EmptySeq DEF Idle, Calls
<1>3. call' \in [Threads -> Calls']
  BY <1>0, <1>1, <1>2
<1>4. call'[t] = Idle /\ \A u \in Threads : u # t => call'[u] = call[u]
  BY <1>0
<1>5. ASSUME NEW u \in Threads
      PROVE  /\ call'[u].pc = "idle" => call'[u] = Idle
             /\ call'[u].pc # "idle" => Caches'
             /\ call'[u].pc \in {"fill", "put"} => call'[u].at \in 1 .. Len(Contents') + 1
             /\ call'[u].pc = "put" => call'[u].at \in Sized'
  <2>1. CASE u = t
    BY <1>2, <1>4, <2>1
  <2>2. CASE u # t
    BY <1>0, <1>1, <1>4, <2>2
  <2> QED
    BY <2>1, <2>2
<1>6. links' \in [ok : BOOLEAN, list : Seq(Known')]
  <2>1. <<>> \in Seq(Known)
    BY EmptySeq
  <2>2. NoLinks \in [ok : BOOLEAN, list : Seq(Known)]
    BY <2>1 DEF NoLinks
  <2>3. list \in Seq(Known) => [ok |-> TRUE, list |-> list] \in [ok : BOOLEAN, list : Seq(Known)]
    OBVIOUS
  <2> QED
    BY <1>1, <2>2, <2>3
<1>7. Founded'
  BY <1>0, <1>1, <1>3, <1>5, <1>6 DEF Founded
<1>8. ASSUME ~overlapped' PROVE \A u \in Threads : call'[u] = Idle
  BY <1>4, <1>8
<1>9. Ordered'
  <2> SUFFICES ASSUME ~overlapped' PROVE Ordered'
    BY DEF Ordered
  <2>1. \A u \in Threads : call'[u] = Idle /\ call'[u].pc = "idle"
    BY <1>2, <1>8
  <2>2. cachedLinks' = <<>> \/ Right(cachedLinks)'
    BY <1>1 DEF Right
  <2> QED
    BY <2>1, <2>2 DEF Ordered
<1>10. LinksTruthful'
  <2>1. CASE links' = NoLinks
    BY <2>1 DEF NoLinks, LinksTruthful
  <2>2. CASE links' = [ok |-> TRUE, list |-> list] /\ links' # NoLinks
    <3>1. links'.list = list /\ list \in Seq(Known)
      BY <2>2
    <3>2. ToSet(Named(list)) \subseteq ToSet(Listable)
      BY <1>0, <3>1, NamedIs
    <3> QED
      BY <1>1, <2>2, <3>1, <3>2 DEF LinksTruthful
  <2> QED
    BY <2>1, <2>2
<1> QED
  BY <1>7, <1>9, <1>10 DEF ListInv

\* A call that goes on leaves the invariant, if it stands where it may and, unless it has
\* overlapped with another one, the cache is filled as far as it has come.
LEMMA GoesHold ==
    ASSUME ListInv, NEW t \in Threads, place' = place, links' = links, spoilt' = spoilt,
           overlapped' \in BOOLEAN, overlapped => overlapped',
           NEW pc \in {"list", "fill", "put"}, NEW at \in Nat, NEW seen \in Seq(Known),
           call' = [call EXCEPT ![t] = [pc |-> pc, at |-> at, seen |-> seen]],
           cachedLinks' \in Seq(Known), Caches,
           pc \in {"fill", "put"} => at \in 1 .. Len(Contents) + 1,
           pc = "put" => at \in Sized,
           ~overlapped' =>
               /\ \A u \in Threads : u # t => call[u] = Idle
               /\ pc = "list" => cachedLinks' = <<>>
               /\ pc \in {"fill", "put"} => Filled(at)'
               /\ pc = "put" => seen = cachedLinks'
    PROVE  ListInv'
<1>0. /\ place \in Places /\ call \in [Threads -> Calls] /\ LinksTruthful
      /\ links \in [ok : BOOLEAN, list : Seq(Known)] /\ spoilt \in BOOLEAN
      /\ \A u \in Threads :
          /\ call[u].pc = "idle" => call[u] = Idle
          /\ call[u].pc # "idle" => Caches
          /\ call[u].pc \in {"fill", "put"} => call[u].at \in 1 .. Len(Contents) + 1
          /\ call[u].pc = "put" => call[u].at \in Sized
  BY DEF ListInv, Founded
<1>1. /\ Contents' = Contents /\ (Caches' <=> Caches) /\ Sized' = Sized
      /\ Listable' = Listable /\ Known' = Known /\ Calls' = Calls
  BY SamePlace
<1> DEFINE new == [pc |-> pc, at |-> at, seen |-> seen]
<1>2. /\ new \in Calls /\ new # Idle /\ Idle.pc = "idle"
      /\ new.pc = pc /\ new.at = at /\ new.seen = seen
  BY DEF Idle, Calls
<1>3. call'[t] = new /\ \A u \in Threads : u # t => call'[u] = call[u]
  BY <1>0
<1>4. call' \in [Threads -> Calls']
  BY <1>0, <1>1, <1>2
<1> HIDE DEF new
<1>5. ASSUME NEW u \in Threads
      PROVE  /\ call'[u].pc = "idle" => call'[u] = Idle
             /\ call'[u].pc # "idle" => Caches'
             /\ call'[u].pc \in {"fill", "put"} => call'[u].at \in 1 .. Len(Contents') + 1
             /\ call'[u].pc = "put" => call'[u].at \in Sized'
  <2>1. CASE u = t
    BY <1>1, <1>2, <1>3, <2>1
  <2>2. CASE u # t
    BY <1>0, <1>1, <1>3, <2>2
  <2> QED
    BY <2>1, <2>2
<1>6. Founded'
  BY <1>0, <1>1, <1>4, <1>5 DEF Founded
<1>7. Ordered'
  <2> SUFFICES ASSUME ~overlapped' PROVE Ordered'
    BY DEF Ordered
  <2>1. \A u \in Threads : u # t => call'[u] = Idle /\ call'[u].pc = "idle"
    BY <1>2, <1>3
  <2>2. \A u, v \in Threads : call'[u] # Idle /\ call'[v] # Idle => u = v
    BY <2>1
  <2>3. ~ \A u \in Threads : call'[u] = Idle
    BY <1>2, <1>3
  <2>4. ASSUME NEW u \in Threads
        PROVE  /\ call'[u].pc = "list" => cachedLinks' = <<>>
               /\ call'[u].pc \in {"fill", "put"} => Filled(call[u].at)'
               /\ call'[u].pc = "put" => call'[u].seen = cachedLinks'
    <3>1. CASE u = t
      <4>1. call'[u].pc = pc /\ call'[u].at = at /\ call'[u].seen = seen
        BY <1>2, <1>3, <3>1
      <4>2. Filled(at)' => Filled(call[u].at)'
        BY <4>1
      <4> QED
        BY <4>1, <4>2
    <3>2. CASE u # t
      BY <2>1, <3>2
    <3> QED
      BY <3>1, <3>2
  <2> QED
    BY <2>2, <2>3, <2>4 DEF Ordered
<1>8. LinksTruthful'
  BY <1>0, <1>1 DEF LinksTruthful
<1> QED
  BY <1>6, <1>7, <1>8 DEF ListInv

\* Links: answered from the location, the archive's index or the cache, or a listing begins.
LEMMA LinksHolds == ASSUME ListInv, NEW t \in Threads, Links(t) PROVE ListInv'
<1>0. /\ place \in Places /\ place.provider \in {"s3", "gcs", "http", "archive"}
      /\ cachedLinks \in Seq(Known) /\ links \in [ok : BOOLEAN, list : Seq(Known)]
      /\ spoilt \in BOOLEAN /\ overlapped \in BOOLEAN
      /\ place' = place /\ cachedLinks' = cachedLinks /\ spoilt' = spoilt
      /\ call[t] = Idle
      /\ overlapped' = (overlapped \/ \E u \in Threads : call[u] # Idle)
  BY ContentsAre DEF ListInv, Founded, Links
<1>1. overlapped' \in BOOLEAN /\ (overlapped => overlapped')
  BY <1>0
<1>2. ~overlapped' => ~overlapped /\ \A u \in Threads : call[u] = Idle
  BY <1>0
<1>3. ~overlapped' => cachedLinks = <<>> \/ Right(cachedLinks)
  BY <1>2 DEF ListInv, Ordered
<1>4. ~overlapped' => \/ cachedLinks' = <<>>
                      \/ /\ IsPrefix(Named(cachedLinks'), Listable)
                         /\ spoilt' \/ Named(cachedLinks') = Listable
  BY <1>0, <1>3 DEF Right
<1>5. Listable \in Seq(Nat) /\ Named(Listable) = Listable
      /\ Listable \in Seq(Known) /\ IsPrefix(Listable, Listable)
  <2>1. Listable \in Seq(Nat)
    BY <1>0, ListableSeq
  <2>2. Blank \notin Nat
    BY DEF Blank
  <2>3. Named(Listable) = Listable
    BY <2>1, <2>2, NamedWhole
  <2>4. Listable \in Seq(Known)
    <3>1. /\ Len(Listable) \in Nat /\ DOMAIN Listable = 1 .. Len(Listable)
          /\ Listable \in [1 .. Len(Listable) -> Nat]
      BY <2>1, LenProperties
    <3>2. \A i \in 1 .. Len(Listable) : Listable[i] \in Known
      BY <3>1 DEF Known, ToSet
    <3>3. Listable \in [1 .. Len(Listable) -> Known]
      BY <3>1, <3>2
    <3> QED
      BY <3>1, <3>3, SeqDef
  <2>5. IsPrefix(Listable, Listable)
    BY <2>1, PrefixOfItself
  <2> QED
    BY <2>1, <2>3, <2>4, <2>5
<1>6. CASE place.provider \in {"http", "archive"}
  <2>1. LinksHTTP(t) \/ LinksArchive(t)
    BY <1>6 DEF Links, LinksCloud, Caches
  <2>2. /\ call' = [call EXCEPT ![t] = Idle]
        /\ links' = NoLinks \/ links' = [ok |-> TRUE, list |-> Listable]
    <3>1. CASE LinksHTTP(t)
      <4>1. place.provider = "http"
        BY <3>1 DEF LinksHTTP
      <4>2. Listable = <<Itself>>
        BY <1>0, <4>1, ListableIs
      <4> QED
        BY <3>1, <4>2 DEF LinksHTTP, Return
    <3>2. CASE LinksArchive(t)
      <4>1. place.provider = "archive"
        BY <3>2 DEF LinksArchive
      <4>2. Listable = Ids(place.objects)
        BY <1>0, <4>1, ListableIs
      <4> QED
        BY <3>2, <4>2 DEF LinksArchive, Return, Refuse
    <3> QED
      BY <2>1, <3>1, <3>2
  <2> QED
    BY <1>0, <1>1, <1>2, <1>4, <1>5, <2>2, EndsHold
<1>7. CASE LinksCloud(t) /\ cachedLinks # <<>>
  <2>1. /\ call' = [call EXCEPT ![t] = Idle]
        /\ links' = [ok |-> TRUE, list |-> cachedLinks]
    BY <1>7 DEF LinksCloud, Return
  <2>2. ~overlapped' => /\ IsPrefix(Named(cachedLinks), Listable)
                        /\ spoilt' \/ Named(cachedLinks) = Listable
    BY <1>0, <1>3, <1>7 DEF Right
  <2> QED
    BY <1>0, <1>1, <1>2, <1>4, <2>1, <2>2, EndsHold
<1>8. CASE LinksCloud(t) /\ cachedLinks = <<>>
  <2>1. /\ Caches /\ links' = links
        /\ call' = [call EXCEPT ![t] = [pc |-> "list", at |-> 0, seen |-> <<>>]]
    BY <1>8 DEF LinksCloud, Goto
  <2>2. <<>> \in Seq(Known) /\ 0 \in Nat
    BY EmptySeq
  <2> QED
    BY <1>0, <1>1, <1>2, <1>8, <2>1, <2>2, GoesHold
<1> QED
  BY <1>0, <1>6, <1>7, <1>8 DEF Links, LinksHTTP, LinksArchive

\* The request for the listing, which may fail, find nothing, or start the links.
LEMMA ListHolds == ASSUME ListInv, NEW t \in Threads, List(t) PROVE ListInv'
<1>0. /\ place \in Places
      /\ cachedLinks \in Seq(Known)
      /\ spoilt \in BOOLEAN /\ overlapped \in BOOLEAN
      /\ place' = place /\ spoilt' = spoilt /\ overlapped' = overlapped
      /\ call[t].pc = "list" /\ call[t] # Idle /\ Caches
  BY DEF ListInv, Founded, List, Idle
<1>1. ~overlapped => (\A u \in Threads : u # t => call[u] = Idle) /\ cachedLinks = <<>>
  BY <1>0, Alone DEF ListInv, Ordered
<1>2. CASE Refuse(t) /\ cachedLinks' = cachedLinks
  BY <1>0, <1>1, <1>2, EndsHold DEF Refuse
<1>3. CASE NothingBelow(t)
  <2>1. /\ Contents = <<>> /\ call' = [call EXCEPT ![t] = Idle]
        /\ links' = [ok |-> TRUE, list |-> cachedLinks']
        /\ cachedLinks' = IF place.slash THEN cachedLinks ELSE <<Itself>>
    BY <1>3 DEF NothingBelow, Return
  <2>2. place.objects = <<>> /\ place.slash \in BOOLEAN
    BY <1>0, <2>1, ContentsAre
  <2>3. CASE ~place.slash
    <3>1. cachedLinks' = <<Itself>> /\ Listable = <<Itself>>
      BY <1>0, <2>1, <2>2, <2>3, ListableIs
    <3>2. Itself \in Known
      BY <3>1 DEF Known, ToSet
    <3>3. <<Itself>> \in Seq(Known) /\ <<Itself>> \in Seq(Nat)
      BY <3>2 DEF Itself
    <3>4. Named(<<Itself>>) = <<Itself>>
      <4>1. Blank \notin Nat
        BY DEF Blank
      <4> QED
        BY <3>3, <4>1, NamedWhole
    <3>5. IsPrefix(<<Itself>>, <<Itself>>)
      BY <3>3, PrefixOfItself
    <3> QED
      BY <1>0, <1>1, <2>1, <3>1, <3>3, <3>4, <3>5, EndsHold
  <2>4. CASE place.slash
    <3>1. cachedLinks' = cachedLinks /\ Listable = Kept(Ids(Contents), Sized)
      BY <1>0, <2>1, <2>4, ListableIs
    <3>2. Ids(Contents) \in Seq(Nat \ {0}) /\ Len(Ids(Contents)) = 0
      BY <1>0, <2>1, ContentsAre, IdsAre, EmptySeq
    <3>3. Listable = <<>>
      <4>1. \A i \in 1 .. Len(Ids(Contents)) : i \notin Sized
        BY <3>2
      <4> QED
        BY <3>1, <3>2, <4>1, KeptNone
    <3>4. <<>> \in Seq(Nat) /\ Blank \notin Nat
      BY EmptySeq DEF Blank
    <3>5. Named(<<>>) = <<>> /\ IsPrefix(<<>>, <<>>)
      BY <3>4, NamedWhole, PrefixOfItself
    <3> QED
      BY <1>0, <1>1, <2>1, <3>1, <3>3, <3>5, EndsHold
  <2> QED
    BY <2>2, <2>3, <2>4
<1>4. ASSUME NEW made \in Seq(Known), Began(t, made),
             place.provider = "gcs" => made = <<>>,
             place.provider = "s3" => made = [i \in DOMAIN Contents |-> Blank]
      PROVE  ListInv'
  <2>1. /\ Contents # <<>> /\ cachedLinks' = made /\ links' = links
        /\ call' = [call EXCEPT ![t] = [pc |-> "fill", at |-> 1, seen |-> <<>>]]
    BY <1>4 DEF Began, Goto
  <2>2. /\ Contents \in Seq(Objects) /\ Len(Contents) \in Nat
        /\ DOMAIN Contents = 1 .. Len(Contents)
        /\ Ids(Contents) \in Seq(Nat \ {0})
    BY <1>0, ContentsAre, IdsAre
  <2>3. <<>> \in Seq(Known) /\ 1 \in Nat /\ 1 \in 1 .. Len(Contents) + 1
    BY <2>2, EmptySeq
  <2>4. Contents' = Contents /\ Sized' = Sized /\ \A i : SoFar(i)' = SoFar(i)
    BY <1>0, SamePlace
  <2>5. SoFar(1) = <<>>
    <3>1. \A i \in 1 .. Len(Ids(Contents)) : i \notin Sized \cap (1 .. 1 - 1)
      OBVIOUS
    <3> QED
      BY <2>2, <3>1, KeptNone DEF SoFar
  <2>6. Filled(1)'
    <3>1. place'.provider = "gcs" => cachedLinks' = SoFar(1)'
      BY <1>0, <1>4, <2>1, <2>4, <2>5
    <3>2. ASSUME place'.provider = "s3"
          PROVE  /\ Len(cachedLinks') = Len(Contents')
                 /\ \A j \in 1 .. Len(Contents') :
                       cachedLinks'[j] = IF j < 1 /\ j \in Sized'
                                         THEN Contents'[j].id ELSE Blank
      <4>1. cachedLinks' = [i \in 1 .. Len(Contents) |-> Blank]
        BY <1>0, <1>4, <2>1, <2>2, <3>2
      <4>2. Len([i \in 1 .. Len(Contents) |-> Blank]) = Len(Contents)
        BY <2>2
      <4>3. \A j \in 1 .. Len(Contents) : cachedLinks'[j] = Blank /\ ~ (j < 1)
        BY <2>2, <4>1
      <4> QED
        BY <2>4, <4>1, <4>2, <4>3
    <3> QED
      BY <2>1, <2>4, <3>1, <3>2 DEF Filled
  <2> QED
    BY <1>0, <1>1, <1>4, <2>1, <2>2, <2>3, <2>6, GoesHold
<1>5. CASE ListS3(t)
  <2>1. [i \in DOMAIN Contents |-> Blank] \in Seq(Known)
    <3>1. DOMAIN Contents = 1 .. Len(Contents) /\ Len(Contents) \in Nat
      BY <1>0, ContentsAre
    <3>2. [i \in 1 .. Len(Contents) |-> Blank] \in [1 .. Len(Contents) -> Known]
      BY DEF Known
    <3> QED
      BY <3>1, <3>2, SeqDef
  <2>2. place.provider = "s3"
    BY <1>5 DEF ListS3
  <2> QED
    BY <1>2, <1>3, <1>4, <1>5, <2>1, <2>2 DEF ListS3
<1>6. CASE ListGCS(t)
  <2>1. <<>> \in Seq(Known) /\ place.provider = "gcs"
    BY <1>6, EmptySeq DEF ListGCS
  <2> QED
    BY <1>2, <1>3, <1>4, <1>6, <2>1 DEF ListGCS
<1> QED
  BY <1>5, <1>6 DEF List

\* Where an object is, and what it brings.
LEMMA ObjectIs ==
    ASSUME place \in Places, Caches, NEW i \in 1 .. Len(Contents)
    PROVE  /\ SizeOf(Contents[i]) \in Nat
           /\ i \in Sized <=> SizeOf(Contents[i]) > 0
           /\ SoFar(i + 1) = IF i \in Sized THEN Append(SoFar(i), Contents[i].id) ELSE SoFar(i)
           /\ i \in Sized => Contents[i].id \in Known
<1>1. /\ Contents \in Seq(Objects) /\ Len(Contents) \in Nat
      /\ DOMAIN Contents = 1 .. Len(Contents)
      /\ Ids(Contents) \in Seq(Nat \ {0}) /\ Len(Ids(Contents)) = Len(Contents)
      /\ Ids(Contents)[i] = Contents[i].id
      /\ i \in 1 .. Len(place.objects) /\ Len(place.objects) \in Nat
      /\ place.objects \in Seq(Objects)
  BY ContentsAre, IdsAre
<1>2. SizeOf(Contents[i]) \in Nat
  <2>1. Contents[i] \in Objects
    BY <1>1, ElementOfSeq
  <2>2. Contents[i].size \in Nat
    BY <2>1 DEF Objects
  <2> QED
    BY <2>2 DEF SizeOf
<1>3. i \in Sized <=> SizeOf(Contents[i]) > 0
  BY <1>1 DEF Sized
<1>4. SoFar(i + 1) = IF i \in Sized THEN Append(SoFar(i), Contents[i].id) ELSE SoFar(i)
  <2>1. i + 1 - 1 = i /\ i \in 1 .. Len(Ids(Contents))
    BY <1>1
  <2>2. PICK ids \in Seq(Nat \ {0}) : ids = Ids(Contents)
    BY <1>1
  <2>3. PICK K : K = Sized
    OBVIOUS
  <2>4. i \in 1 .. Len(ids)
    BY <2>1, <2>2
  <2>5. i \in K => Kept(ids, K \cap (1 .. i)) = Append(Kept(ids, K \cap (1 .. i - 1)), ids[i])
    BY <2>4, KeptNext
  <2>6. i \notin K => Kept(ids, K \cap (1 .. i)) = Kept(ids, K \cap (1 .. i - 1))
    BY <2>4, KeptNext
  <2>7. SoFar(i) = Kept(ids, K \cap (1 .. i - 1))
    BY <2>2, <2>3 DEF SoFar
  <2>8. SoFar(i + 1) = Kept(ids, K \cap (1 .. i + 1 - 1))
    BY <2>2, <2>3 DEF SoFar
  <2>9. ids[i] = Contents[i].id
    BY <1>1, <2>2
  <2> QED
    BY <2>1, <2>3, <2>5, <2>6, <2>7, <2>8, <2>9
<1>5. ASSUME i \in Sized PROVE Contents[i].id \in Known
  <2>1. place.objects # <<>>
    BY <1>1, EmptySeq
  <2>2. Listable = Kept(Ids(Contents), Sized)
    BY <2>1, ListableIs
  <2>3. Ids(Contents)[i] \in ToSet(Kept(Ids(Contents), Sized))
    BY <1>1, <1>5, KeptHas
  <2> QED
    BY <1>1, <2>2, <2>3 DEF Known
<1> QED
  BY <1>2, <1>3, <1>4, <1>5

\* A caller in the middle of a listing.
LEMMA Midway ==
    ASSUME ListInv, NEW t \in Threads, call[t].pc \in {"fill", "put"}
    PROVE  /\ place \in Places /\ Caches /\ call[t] # Idle
           /\ cachedLinks \in Seq(Known) /\ call[t].seen \in Seq(Known)
           /\ spoilt \in BOOLEAN /\ overlapped \in BOOLEAN
           /\ Len(Contents) \in Nat
           /\ call[t].at \in Nat /\ call[t].at \in 1 .. Len(Contents) + 1
           /\ ~overlapped => /\ \A u \in Threads : u # t => call[u] = Idle
                             /\ Filled(call[t].at)
                             /\ IsPrefix(Named(cachedLinks), Listable)
                             /\ call[t].at = Len(Contents) + 1 => Named(cachedLinks) = Listable
<1>1. /\ place \in Places /\ Caches /\ call[t] # Idle /\ call[t] \in Calls
      /\ cachedLinks \in Seq(Known)
      /\ spoilt \in BOOLEAN /\ overlapped \in BOOLEAN
      /\ call[t].at \in 1 .. Len(Contents) + 1
  BY DEF ListInv, Founded, Idle
<1>2. call[t].at \in Nat /\ call[t].seen \in Seq(Known)
  BY <1>1 DEF Calls
<1>3. Len(Contents) \in Nat
  BY <1>1, ContentsAre
<1>4. ASSUME ~overlapped
      PROVE  /\ \A u \in Threads : u # t => call[u] = Idle
             /\ Filled(call[t].at)
             /\ IsPrefix(Named(cachedLinks), Listable)
             /\ call[t].at = Len(Contents) + 1 => Named(cachedLinks) = Listable
  <2>1. Filled(call[t].at)
    BY <1>4 DEF ListInv, Ordered
  <2> QED
    BY <1>1, <1>4, <2>1, Alone, FilledIs DEF ListInv
<1> QED
  BY <1>1, <1>2, <1>3, <1>4

\* A page of Google's that fails leaves the beginning of the listing.
LEMMA PageFailsHolds == ASSUME ListInv, NEW t \in Threads, PageFails(t) PROVE ListInv'
<1>1. /\ call[t].pc \in {"fill", "put"}
      /\ place' = place /\ cachedLinks' = cachedLinks /\ overlapped' = overlapped
      /\ spoilt' = TRUE /\ links' = NoLinks
      /\ call' = [call EXCEPT ![t] = Idle]
  BY DEF PageFails, NewPage, Refuse
<1> QED
  BY <1>1, Midway, EndsHold

\* The next object, or the end of the listing.
LEMMA FillHolds == ASSUME ListInv, NEW t \in Threads, Fill(t) PROVE ListInv'
<1>9. PICK i : i = call[t].at
  OBVIOUS
<1>0. /\ call[t].pc \in {"fill", "put"}
      /\ place' = place /\ cachedLinks' = cachedLinks /\ overlapped' = overlapped
  BY DEF Fill
<1>1. /\ place \in Places /\ Caches
      /\ cachedLinks \in Seq(Known)
      /\ spoilt \in BOOLEAN /\ overlapped \in BOOLEAN
      /\ Len(Contents) \in Nat
      /\ i \in Nat /\ i \in 1 .. Len(Contents) + 1
      /\ ~overlapped => /\ \A u \in Threads : u # t => call[u] = Idle
                        /\ Filled(i)
                        /\ IsPrefix(Named(cachedLinks), Listable)
                        /\ i = Len(Contents) + 1 => Named(cachedLinks) = Listable
  BY <1>0, <1>9, Midway
<1>2. Contents' = Contents /\ Sized' = Sized /\ \A j : SoFar(j)' = SoFar(j)
  BY <1>0, SamePlace
<1>3. CASE i > Len(Contents)
  <2>1. i = Len(Contents) + 1
    BY <1>1, <1>3
  <2>2. /\ call' = [call EXCEPT ![t] = Idle] /\ spoilt' = spoilt
        /\ links' = [ok |-> TRUE, list |-> cachedLinks]
    BY <1>9, <1>3 DEF Fill, Return
  <2> QED
    BY <1>0, <1>1, <2>1, <2>2, EndsHold
<1>4. CASE ~ (i > Len(Contents)) /\ SizeOf(Contents[i]) = 0
  <2>1. i \in 1 .. Len(Contents) /\ i + 1 \in Nat /\ i + 1 \in 1 .. Len(Contents) + 1
    BY <1>1, <1>4
  <2>2. /\ call' = [call EXCEPT ![t] = [pc |-> "fill", at |-> i + 1, seen |-> <<>>]]
        /\ links' = links /\ spoilt' = spoilt
    BY <1>9, <1>4 DEF Fill, Goto
  <2>3. i \notin Sized /\ SoFar(i + 1) = SoFar(i)
    BY <1>1, <1>4, <2>1, ObjectIs
  <2>4. ASSUME Filled(i) PROVE Filled(i + 1)'
    <3>1. ASSUME NEW j \in 1 .. Len(Contents)
          PROVE  j < i + 1 /\ j \in Sized <=> j < i /\ j \in Sized
      BY <2>1, <2>3
    <3> QED
      BY <1>0, <1>2, <2>3, <2>4, <3>1 DEF Filled
  <2>5. <<>> \in Seq(Known)
    BY EmptySeq
  <2> QED
    BY <1>0, <1>1, <2>1, <2>2, <2>4, <2>5, GoesHold
<1>5. CASE ~ (i > Len(Contents)) /\ SizeOf(Contents[i]) # 0 /\ Contents[i].name = "bad"
  <2>1. call' = [call EXCEPT ![t] = Idle] /\ links' = NoLinks /\ spoilt' = TRUE
    BY <1>9, <1>5 DEF Fill, Refuse
  <2> QED
    BY <1>0, <1>1, <2>1, EndsHold
<1>6. CASE ~ (i > Len(Contents)) /\ SizeOf(Contents[i]) # 0 /\ Contents[i].name # "bad"
  <2>1. i \in 1 .. Len(Contents)
    BY <1>1, <1>6
  <2>2. /\ call' = [call EXCEPT ![t] = [pc |-> "put", at |-> i, seen |-> cachedLinks]]
        /\ links' = links /\ spoilt' = spoilt
    BY <1>9, <1>6 DEF Fill, Goto
  <2>3. i \in Sized
    BY <1>1, <1>6, <2>1, ObjectIs
  <2>4. Filled(i) => Filled(i)'
    BY <1>0, <1>2, Zenon DEF Filled
  <2> QED
    BY <1>0, <1>1, <2>2, <2>3, <2>4, GoesHold
<1> QED
  BY <1>3, <1>4, <1>5, <1>6

\* A member of a sequence is replaced, or the sequence has no such member.
LEMMA Replaced ==
    ASSUME NEW V, NEW s \in Seq(V), NEW i, NEW e \in V
    PROVE  [s EXCEPT ![i] = e] \in Seq(V)
<1>1. CASE i \in 1 .. Len(s)
  BY <1>1, ExceptSeq
<1>2. CASE i \notin 1 .. Len(s)
  <2>1. s \in [1 .. Len(s) -> V]
    BY LenProperties
  <2>2. [s EXCEPT ![i] = e] = s
    BY <1>2, <2>1
  <2> QED
    BY <2>2
<1> QED
  BY <1>1, <1>2

\* The link is stored.
LEMMA PutHolds == ASSUME ListInv, NEW t \in Threads, Put(t) PROVE ListInv'
<1>9. PICK i, id : i = call[t].at /\ id = Contents[i].id
  OBVIOUS
<1>0. /\ call[t].pc \in {"fill", "put"} /\ call[t].pc = "put"
      /\ place' = place /\ links' = links /\ spoilt' = spoilt /\ overlapped' = overlapped
      /\ call' = [call EXCEPT ![t] = [pc |-> "fill", at |-> i + 1, seen |-> <<>>]]
  BY <1>9 DEF Put, Goto
<1>1. /\ place \in Places /\ Caches
      /\ cachedLinks \in Seq(Known) /\ call[t].seen \in Seq(Known)
      /\ overlapped \in BOOLEAN
      /\ Len(Contents) \in Nat
      /\ i \in Nat
      /\ ~overlapped => (\A u \in Threads : u # t => call[u] = Idle) /\ Filled(i)
  BY <1>0, <1>9, Midway
<1>2. i \in Sized /\ (~overlapped => call[t].seen = cachedLinks)
  BY <1>0, <1>9 DEF ListInv, Founded, Ordered
<1>3. i \in 1 .. Len(Contents)
  BY <1>1, <1>2, ContentsAre DEF Sized
<1>4. i + 1 \in Nat /\ i + 1 \in 1 .. Len(Contents) + 1 /\ <<>> \in Seq(Known)
  BY <1>1, <1>3, EmptySeq
<1>5. Contents' = Contents /\ Sized' = Sized /\ \A j : SoFar(j)' = SoFar(j)
  BY <1>0, SamePlace
<1>6. id \in Known /\ SoFar(i + 1) = Append(SoFar(i), id)
  BY <1>1, <1>2, <1>3, <1>9, ObjectIs
<1>7. CASE PutS3(t)
  <2>1. place.provider = "s3" /\ cachedLinks' = [cachedLinks EXCEPT ![i] = id]
    BY <1>7, <1>9 DEF PutS3
  <2>2. cachedLinks' \in Seq(Known)
    BY <1>1, <1>6, <2>1, Replaced
  <2>3. ASSUME Filled(i) PROVE Filled(i + 1)'
    <3>1. /\ Contents # <<>>
          /\ Len(cachedLinks) = Len(Contents)
          /\ \A j \in 1 .. Len(Contents) :
                cachedLinks[j] = IF j < i /\ j \in Sized THEN Contents[j].id ELSE Blank
      BY <2>1, <2>3 DEF Filled
    <3>2. /\ Len(cachedLinks') = Len(Contents)
          /\ \A j \in 1 .. Len(Contents) :
                cachedLinks'[j] = IF j = i THEN id ELSE cachedLinks[j]
      BY <1>1, <1>3, <1>6, <2>1, <3>1, ExceptSeq
    <3>3. ASSUME NEW j \in 1 .. Len(Contents)
          PROVE  cachedLinks'[j] = IF j < i + 1 /\ j \in Sized THEN Contents[j].id ELSE Blank
      <4>1. j < i + 1 <=> j = i \/ j < i
        BY <1>1
      <4>2. j = i => ~ (j < i)
        BY <1>1
      <4> QED
        BY <1>2, <1>9, <3>1, <3>2, <4>1, <4>2
    <3>4. place'.provider # "gcs"
      BY <1>0, <2>1
    <3> QED
      BY <1>5, <3>1, <3>2, <3>3, <3>4 DEF Filled
  <2> QED
    BY <1>0, <1>1, <1>4, <2>2, <2>3, GoesHold
<1>8. CASE PutGCS(t)
  <2>1. place.provider = "gcs" /\ cachedLinks' = Append(call[t].seen, id)
    BY <1>8, <1>9 DEF PutGCS
  <2>2. cachedLinks' \in Seq(Known)
    BY <1>1, <1>6, <2>1, AppendProperties
  <2>3. ASSUME ~overlapped PROVE Filled(i + 1)'
    <3>1. Filled(i) /\ call[t].seen = cachedLinks
      BY <1>1, <1>2, <2>3
    <3>2. Contents # <<>> /\ cachedLinks = SoFar(i)
      BY <2>1, <3>1 DEF Filled
    <3>3. cachedLinks' = SoFar(i + 1)'
      BY <1>5, <1>6, <2>1, <3>1, <3>2
    <3>4. place'.provider # "s3"
      BY <1>0, <2>1
    <3> QED
      BY <1>5, <3>2, <3>3, <3>4 DEF Filled
  <2> QED
    BY <1>0, <1>1, <1>4, <2>2, <2>3, GoesHold
<1> QED
  BY <1>7, <1>8 DEF Put

\* A listing that is not touched stays as it is.
LEMMA ListStays == ASSUME ListInv, UNCHANGED <<place, listVars>> PROVE ListInv'
<1>1. /\ place' = place /\ cachedLinks' = cachedLinks /\ call' = call /\ links' = links
      /\ spoilt' = spoilt /\ overlapped' = overlapped
  BY DEF listVars
<1>2. /\ Contents' = Contents /\ (Caches' <=> Caches) /\ Sized' = Sized
      /\ Listable' = Listable /\ Known' = Known /\ Calls' = Calls
      /\ \A i : SoFar(i)' = SoFar(i)
  BY <1>1, SamePlace
<1>3. Founded'
  BY <1>1, <1>2 DEF ListInv, Founded
<1>4. Right(cachedLinks)' <=> Right(cachedLinks)
  BY <1>1, <1>2 DEF Right
<1>5. ASSUME NEW t \in Threads PROVE Filled(call[t].at)' <=> Filled(call[t].at)
  BY <1>1, <1>2, Zenon DEF Filled
<1>6. Ordered'
  BY <1>1, <1>4, <1>5 DEF ListInv, Ordered
<1>7. LinksTruthful'
  BY <1>1, <1>2 DEF ListInv, LinksTruthful
<1> QED
  BY <1>3, <1>6, <1>7 DEF ListInv

\* Nothing is cached or returned yet.
Unlisted ==
    /\ place \in Places
    /\ cachedLinks = <<>>
    /\ call = [t \in Threads |-> Idle]
    /\ links = NoLinks
    /\ spoilt = FALSE /\ overlapped = FALSE

\* That is all the invariant of the listings asks of a beginning.
LEMMA UnlistedHolds == Unlisted => ListInv
<1> SUFFICES ASSUME Unlisted PROVE ListInv
  OBVIOUS
<1> USE DEF Unlisted
<1>1. <<>> \in Seq(Known)
  BY EmptySeq
<1>2. Idle \in Calls /\ Idle.pc = "idle" /\ NoLinks \in [ok : BOOLEAN, list : Seq(Known)]
  BY <1>1 DEF Idle, Calls, NoLinks
<1>3. call \in [Threads -> Calls] /\ \A t \in Threads : call[t] = Idle
  BY <1>2
<1>4. Founded
  BY <1>1, <1>2, <1>3 DEF Founded
<1>5. Ordered
  BY <1>2, <1>3 DEF Ordered
<1>6. LinksTruthful
  BY DEF LinksTruthful, NoLinks
<1> QED
  BY <1>4, <1>5, <1>6 DEF ListInv

\* A link is opened by a fetcher that has listed nothing.
LEMMA OpenList == ASSUME ListInv, Open PROVE ListInv'
<1>1. /\ place \in Places /\ call \in [Threads -> Calls]
      /\ \A t \in Threads : call[t] = Idle
      /\ place' = place /\ call' = call /\ cachedLinks' = <<>> /\ links' = NoLinks
      /\ spoilt' = FALSE /\ overlapped' = FALSE
  BY DEF ListInv, Founded, Open
<1>2. call = [t \in Threads |-> Idle]
  BY <1>1
<1>3. Unlisted'
  BY <1>1, <1>2 DEF Unlisted
<1>4. Unlisted' => ListInv'
  BY UnlistedHolds, PTL
<1> QED
  BY <1>3, <1>4

\* No step of a listing, and none of a reader, breaks the invariant of the listings.
LEMMA ListStep == ListInv /\ [Next]_vars => ListInv'
<1> SUFFICES ASSUME ListInv, [Next]_vars PROVE ListInv'
  OBVIOUS
<1>1. CASE ListNext
  BY <1>1, LinksHolds, ListHolds, PageFailsHolds, FillHolds, PutHolds DEF ListNext
<1>2. CASE Open
  BY <1>2, OpenList
<1>3. CASE Seek \/ ReadSeeker \/ Stream \/ \E t \in Threads : Claim(t) \/ Deliver(t)
  <2>1. UNCHANGED <<place, listVars>>
    BY <1>3 DEF Seek, ReadSeeker, Stream, Claim, Deliver
  <2> QED
    BY <2>1, ListStays
<1>4. CASE UNCHANGED vars
  <2>1. UNCHANGED <<place, listVars>>
    BY <1>4 DEF vars
  <2> QED
    BY <2>1, ListStays
<1> QED
  BY <1>1, <1>2, <1>3, <1>4 DEF Next

\* A listing that is returned names nothing but what the location has; unless calls have
\* overlapped it is the beginning of the true listing, and unless one has failed all of it.
\* This is so for every provider, any objects and any size of its pages.
THEOREM ListingsTrue == Spec => []LinksTruthful
<1>1. Init => ListInv
  BY UnlistedHolds DEF Init, InitListing, Unlisted
<1>2. ListInv => LinksTruthful
  BY DEF ListInv
<1> QED
  BY <1>1, <1>2, ListStep, PTL DEF Spec

-----------------------------------------------------------------------------
(* The invariant of the readers.                                           *)

Readers ==
    [kind : {"none", "seeker", "file", "resource"}, id : Int, size : Nat, layer : Layers,
     offset : Nat, length : Nat, loaded : BOOLEAN]

\* A length that was kept was known, and is the resource's.
Opened ==
    /\ reader \in Readers
    /\ reader.kind = "none" => reader = Closed
    /\ reader.length # 0 => /\ reader.length = reader.size
                            /\ reader.layer # "cached" \/ reader.loaded

\* Only a file that is open has claims.
Claims ==
    /\ claimed \in [Threads -> [at : Nat, k : Lens \union {0}]]
    /\ \A t \in Threads :
          claimed[t] # NoClaim => reader.kind = "file" /\ claimed[t].k \in Lens

RInv == ListInv /\ Opened /\ Claims

\* The provider of a location, and the readers and lengths there are.
LEMMA Assumed ==
    /\ Lens \subseteq Nat \ {0}
    /\ Offsets \subseteq Int
BY FetchedReaderAssumption DEF FetchedReaderAssumption

\* What is listed can be opened: its size is known to the location.
LEMMA ObjectSize ==
    ASSUME ListInv, NEW id \in ToSet(Named(links.list))
    PROVE  id \in Nat /\ Object(id).size \in Nat
<1>1. /\ place \in Places /\ links.list \in Seq(Known)
      /\ place.size \in Nat
      /\ place.objects \in Seq(Objects)
      /\ DOMAIN place.objects = 1 .. Len(place.objects)
  BY ContentsAre DEF ListInv, Founded
<1>2. id \in ToSet(Listable)
  BY <1>1, NamedIs
<1>3. id \in Nat
  <2>1. Listable \in Seq(Nat)
    BY <1>1, ListableSeq
  <2>2. Listable \in [1 .. Len(Listable) -> Nat]
    BY <2>1, LenProperties
  <2> QED
    BY <1>2, <2>2 DEF ToSet
<1>4. CASE id = Itself
  BY <1>1, <1>3, <1>4 DEF Object
<1>5. CASE id # Itself
  <2> DEFINE i == CHOOSE i \in DOMAIN place.objects : place.objects[i].id = id
  <2>1. i \in DOMAIN place.objects
    BY <1>1, <1>2, <1>5, ListableSeq
  <2>2. Object(id) = place.objects[i]
    BY <1>5 DEF Object
  <2>3. place.objects[i] \in Objects
    <3> HIDE DEF i
    <3> QED
      BY <1>1, <2>1, ElementOfSeq
  <2> HIDE DEF i
  <2> QED
    BY <1>3, <2>2, <2>3 DEF Objects
<1> QED
  BY <1>4, <1>5

\* The bytes that a read of k bytes at s is to have; <<0, 0>> is the whole.
Expected(s, k) ==
    IF s = 0 /\ k = 1 THEN Run(0, reader.size)
    ELSE Run(MinOf(s, reader.size), MinOf(s + k, reader.size))

\* A read fails, tells the end where it is, or has the bytes of its range.
LEMMA ResultIs ==
    ASSUME place \in Places, reader \in Readers, NEW s \in Nat, NEW k \in Nat \ {0},
           NEW result \in Results(s, s + k - 1)
    PROVE  \/ result.run = NoBytes /\ result.error = "error"
           \/ result.run = NoBytes /\ result.error = "eof" /\ s >= reader.size
           \/ result.run = Expected(s, k) /\ result.error = "none"
<1>1. place.provider \in {"s3", "gcs", "http", "archive"} /\ reader.size \in Nat
  BY ContentsAre DEF Readers
<1> DEFINE e == s + k - 1
           size == reader.size
<1>2. /\ e \in Nat /\ ~ (e < s)
      /\ s = 0 /\ e = 0 <=> s = 0 /\ k = 1
      /\ e + 1 = s + k /\ s + (e + 1 - s) = s + k /\ s + (e - s + 1) = s + k
  BY <1>1
<1>3. /\ Failed.run = NoBytes /\ Failed.error = "error"
      /\ Result(NoBytes, "eof").run = NoBytes /\ Result(NoBytes, "eof").error = "eof"
      /\ s = 0 /\ k = 1 => Whole.run = Expected(s, k) /\ Whole.error = "none"
  BY DEF Failed, Result, Whole, Expected
<1>4. ASSUME ~ (s = 0 /\ k = 1), NEW n, s + n = s + k, ~ (s >= size)
      PROVE  Served(s, n).run = Expected(s, k) /\ Served(s, n).error = "none"
  <2>1. MinOf(s, size) = s
    BY <1>1, <1>4 DEF MinOf
  <2>2. Served(s, n) = Result(Run(s, MinOf(s + k, size)), "none")
    BY <1>1, <1>4 DEF Served
  <2> QED
    BY <1>4, <2>1, <2>2 DEF Result, Expected
<1>5. ASSUME NEW n, s >= size PROVE Served(s, n) = Failed
  BY <1>5 DEF Served
<1>6. ASSUME ~ (s = 0 /\ k = 1), NEW n, s + n = s + k
      PROVE  \/ Served(s, n) = Failed
             \/ Served(s, n).run = Expected(s, k) /\ Served(s, n).error = "none"
  BY <1>4, <1>5, <1>6
<1>7. CASE result = Failed
  BY <1>3, <1>7
<1>8. CASE result = ReadStored(s, e)
  <2>1. result \in {Failed, Whole, Result(NoBytes, "eof"),
                    Served(s, e + 1 - s), Served(s, e - s + 1)}
    BY <1>1, <1>8 DEF ReadStored, ReadS3, ReadGCS, ReadHTTP, ReadEntry
  <2>2. result = Whole /\ ~ (s = 0 /\ k = 1) => result \in {Failed, Result(NoBytes, "eof"),
                    Served(s, e + 1 - s), Served(s, e - s + 1)}
    BY <1>1, <1>2, <1>8 DEF ReadStored, ReadS3, ReadGCS, ReadHTTP, ReadEntry
  <2>3. s = 0 /\ k = 1 => result \in {Failed, Whole}
    BY <1>1, <1>2, <1>8 DEF ReadStored, ReadS3, ReadGCS, ReadHTTP, ReadEntry
  <2>4. result = Result(NoBytes, "eof") /\ ~ (s >= size) => result # Result(NoBytes, "eof")
    BY <1>1, <1>2, <1>8 DEF ReadStored, ReadS3, ReadGCS, ReadHTTP, ReadEntry, Served,
                            Failed, Result, Whole
  <2> QED
    BY <1>2, <1>3, <1>6, <2>1, <2>2, <2>3, <2>4
<1>9. CASE result = ReadTransformed(s, e)
  <2>1. CASE size = 0
    BY <1>3, <1>9, <2>1 DEF ReadTransformed
  <2>2. CASE size # 0 /\ s = 0 /\ k = 1
    BY <1>2, <1>3, <1>9, <2>2 DEF ReadTransformed
  <2>3. CASE size # 0 /\ ~ (s = 0 /\ k = 1)
    <3>1. MinOf(e, size - 1) + 1 = MinOf(s + k, size)
      BY <1>1, <1>2, <2>3 DEF MinOf
    <3>2. result = Result(Run(MinOf(s, size), MinOf(s + k, size)), "none")
      BY <1>2, <1>9, <2>3, <3>1 DEF ReadTransformed
    <3> QED
      BY <2>3, <3>2 DEF Result, Expected
  <2> QED
    BY <2>1, <2>2, <2>3
<1> QED
  BY <1>7, <1>8, <1>9 DEF Results

\* A use of an open reader is one of a reader over as many bytes.
LEMMA UseRefines ==
    ASSUME Opened, Opened', reader.kind # "none", reader'.kind = reader.kind,
           reader'.size = reader.size, Promise!Use
    PROVE  Promise!Next
<1>1. reader # Closed /\ reader' # Closed /\ reader.size \in Nat
  BY DEF Opened, Readers, Closed
<1>2. /\ (IF reader = Closed THEN -1 ELSE reader.size) = reader.size
      /\ (IF reader' = Closed THEN -1 ELSE reader'.size) = reader.size
  BY <1>1
<1>3. (IF reader = Closed THEN -1 ELSE reader.size) >= 0
  BY <1>1, <1>2
<1>4. UNCHANGED <<IF reader = Closed THEN -1 ELSE reader.size, reader.kind = "file">>
  BY <1>2
<1> QED
  BY <1>3, <1>4 DEF Promise!Next

\* A reader is as it should be when only its place or what it knows of its length and
\* bytes changes.
SameReader ==
    /\ reader' \in Readers
    /\ reader'.kind = reader.kind /\ reader'.size = reader.size
    /\ reader'.layer = reader.layer
    /\ reader.loaded => reader'.loaded

\* Nothing more is asked of it, but that a length it keeps is known.
LEMMA StaysOpened ==
    ASSUME Opened, reader.kind # "none", SameReader,
           reader'.length # 0 => /\ reader'.length = reader.size
                                 /\ reader.layer # "cached" \/ reader'.loaded
    PROVE  Opened'
BY DEF Opened, SameReader

\* Claims outlive a step that neither makes nor ends one.
LEMMA ClaimsStay ==
    ASSUME Claims, claimed' = claimed, reader'.kind = reader.kind
    PROVE  Claims'
BY DEF Claims

\* Opening.
LEMMA OpenHolds == ASSUME RInv, Open PROVE Opened' /\ Claims' /\ Promise!Next
<1>1. PICK id \in ToSet(Named(links.list)), kind \in {"seeker", "file", "resource"},
           layer \in Layers :
          reader' = [Closed EXCEPT !.kind = kind, !.id = id, !.layer = layer,
                                   !.size = Object(id).size]
  BY DEF Open
<1>2. id \in Nat /\ Object(id).size \in Nat
  BY ObjectSize DEF RInv
<1>3. /\ reader' \in Readers /\ reader'.kind = kind /\ reader'.size = Object(id).size
      /\ reader'.length = 0 /\ reader'.offset = 0 /\ reader'.loaded = FALSE
      /\ reader'.layer = layer
  <2>1. PICK size : size = Object(id).size
    OBVIOUS
  <2>2. reader' = [kind |-> kind, id |-> id, size |-> size, layer |-> layer, offset |-> 0,
                   length |-> 0, loaded |-> FALSE]
    BY <1>1, <2>1 DEF Closed
  <2> QED
    BY <1>2, <2>1, <2>2 DEF Readers
<1>4. reader = Closed /\ reader.kind = "none" /\ claimed' = claimed /\ answer' = answer
  BY DEF Open, Closed
<1>5. Opened'
  BY <1>3 DEF Opened
<1>6. Claims'
  BY <1>4 DEF RInv, Claims
<1>7. reader' # Closed /\ reader.offset = 0
  BY <1>3, <1>4 DEF Closed
<1>8. Promise!Open
  BY <1>2, <1>3, <1>4, <1>7 DEF Promise!Open
<1> QED
  BY <1>5, <1>6, <1>8 DEF Promise!Next

\* Seeking, from the start, from the position, from the end.
LEMMA SeekHolds == ASSUME RInv, Seek PROVE Opened' /\ Claims' /\ Promise!Next
<1>0. /\ Opened /\ Claims /\ reader \in Readers /\ reader.kind \in {"seeker", "file"}
      /\ claimed' = claimed /\ answer' = answer
      /\ reader.offset \in Nat /\ reader.length \in Nat /\ reader.size \in Nat
      /\ reader.loaded \in BOOLEAN
  BY DEF RInv, Opened, Readers, Seek
<1>1. ASSUME SameReader, reader'.loaded = reader.loaded,
             reader'.length # 0 => reader'.length = reader.size
                                   /\ (reader.layer # "cached" \/ reader.loaded),
             NEW d \in Offsets,
             \/ reader'.offset = d \/ reader'.offset = reader.offset + d
             \/ reader'.offset =
                   (IF reader.layer # "cached" \/ reader.loaded THEN reader.size ELSE 0) + d
      PROVE  Opened' /\ Claims' /\ Promise!Next
  <2>1. Opened'
    BY <1>0, <1>1, StaysOpened
  <2>2. /\ reader'.kind = reader.kind /\ reader'.size = reader.size
        /\ reader'.layer = reader.layer /\ reader'.offset \in Nat
    BY <1>1 DEF SameReader, Readers
  <2>3. Claims'
    BY <1>0, <2>2, ClaimsStay
  <2>4. reader # Closed
    BY <1>0 DEF Closed
  <2>5. Promise!Seek
    BY <1>0, <1>1, <2>2, <2>4 DEF Promise!Seek
  <2>6. Promise!Use
    BY <2>5 DEF Promise!Use
  <2> QED
    BY <1>0, <2>1, <2>2, <2>3, <2>6, UseRefines
<1>2. \A d \in Offsets : d \in Int
  BY Assumed
<1>3. reader.length # 0 => reader.length = reader.size
                           /\ (reader.layer # "cached" \/ reader.loaded)
  BY <1>0 DEF Opened
<1>4. CASE SeekStart
  <2>1. PICK d \in Offsets : Bounded(d) /\ reader' = [reader EXCEPT !.offset = d]
    BY <1>4 DEF SeekStart
  <2>2. d \in Nat
    BY <1>2, <2>1 DEF Bounded
  <2>3. /\ SameReader /\ reader'.loaded = reader.loaded
        /\ reader'.length = reader.length /\ reader'.offset = d
    BY <1>0, <2>1, <2>2 DEF Readers, SameReader
  <2> QED
    BY <1>1, <1>3, <2>3
<1>5. CASE SeekCurrent
  <2>1. PICK d \in Offsets : /\ Bounded(reader.offset + d)
                             /\ reader' = [reader EXCEPT !.offset = @ + d]
    BY <1>5 DEF SeekCurrent
  <2>2. reader.offset + d \in Nat
    BY <1>0, <1>2, <2>1 DEF Bounded
  <2>3. /\ SameReader /\ reader'.loaded = reader.loaded
        /\ reader'.length = reader.length /\ reader'.offset = reader.offset + d
    BY <1>0, <2>1, <2>2 DEF Readers, SameReader
  <2> QED
    BY <1>1, <1>3, <2>3
<1>6. CASE SeekEnd
  <2> DEFINE kept == reader.kind = "seeker" /\ reader.length # 0
             length == IF kept THEN reader.length ELSE Length
             next == IF reader.kind = "seeker" THEN length ELSE 0
  <2>1. PICK d \in Offsets :
            /\ Bounded(length + d)
            /\ reader' = [reader EXCEPT !.offset = length + d, !.length = next]
    BY <1>6 DEF SeekEnd
  <2>2. length = IF reader.layer # "cached" \/ reader.loaded THEN reader.size ELSE 0
    BY <1>0, <1>3 DEF Length
  <2> HIDE DEF length
  <2>3. length \in Nat /\ length + d \in Nat
    BY <1>0, <1>2, <2>1, <2>2 DEF Bounded
  <2>4. /\ next \in Nat
        /\ next # 0 => next = reader.size /\ (reader.layer # "cached" \/ reader.loaded)
    BY <2>2, <2>3
  <2> HIDE DEF next
  <2>5. /\ SameReader /\ reader'.loaded = reader.loaded
        /\ reader'.length = next /\ reader'.offset = length + d
    BY <1>0, <2>1, <2>3, <2>4 DEF Readers, SameReader
  <2> QED
    BY <1>1, <2>2, <2>4, <2>5
<1> QED
  BY <1>4, <1>5, <1>6 DEF Seek

\* What of the bytes of a range fits into a buffer of k.
LEMMA ExpectedIs ==
    ASSUME reader.size \in Nat, NEW s \in Nat, NEW k \in Nat \ {0}
    PROVE  LET run == Expected(s, k)
               n == MinOf(k, RunLen(run))
               upto == MinOf(s + k, reader.size)
           IN  /\ s >= reader.size => run = NoBytes
               /\ s < reader.size => /\ n = upto - s /\ upto > s
                                     /\ Slice(run, 0, n) = Run(s, upto)
<1> DEFINE size == reader.size
           run == Expected(s, k)
           n == MinOf(k, RunLen(run))
           upto == MinOf(s + k, size)
<1>1. ASSUME s >= size PROVE run = NoBytes
  <2>1. CASE s = 0 /\ k = 1
    BY <1>1, <2>1 DEF Expected, Run
  <2>2. CASE ~ (s = 0 /\ k = 1)
    <3>1. MinOf(s, size) = size /\ MinOf(s + k, size) = size
      BY <1>1 DEF MinOf
    <3> QED
      BY <2>2, <3>1 DEF Expected, Run
  <2> QED
    BY <2>1, <2>2
<1>2. ASSUME s < size PROVE n = upto - s /\ upto > s /\ Slice(run, 0, n) = Run(s, upto)
  <2>1. upto \in Nat /\ upto > s /\ upto <= s + k /\ upto <= size
    BY <1>2 DEF MinOf
  <2>2. run.lo = s /\ n = upto - s
    <3>1. CASE s = 0 /\ k = 1
      <4>1. run = [lo |-> 0, hi |-> size]
        BY <1>2, <3>1 DEF Expected, Run
      <4>2. run.lo = 0 /\ RunLen(run) = size
        BY <4>1 DEF RunLen
      <4>3. n = MinOf(1, size) /\ upto = MinOf(1, size)
        BY <3>1, <4>2
      <4> QED
        BY <3>1, <4>2, <4>3 DEF MinOf
    <3>2. CASE ~ (s = 0 /\ k = 1)
      <4>1. MinOf(s, size) = s
        BY <1>2 DEF MinOf
      <4>2. run = [lo |-> s, hi |-> upto]
        BY <2>1, <3>2, <4>1 DEF Expected, Run
      <4>3. run.lo = s /\ RunLen(run) = upto - s
        BY <4>2 DEF RunLen
      <4> HIDE DEF upto
      <4>4. MinOf(k, upto - s) = upto - s
        BY <2>1 DEF MinOf
      <4> QED
        BY <4>3, <4>4
    <3> QED
      BY <3>1, <3>2
  <2>3. Slice(run, 0, n) = Run(s, upto)
    <3> HIDE DEF run, n, upto
    <3>1. run.lo + 0 = s /\ run.lo + n = upto
      BY <2>1, <2>2
    <3> QED
      BY <3>1 DEF Slice
  <2> QED
    BY <2>1, <2>2, <2>3
<1> QED
  BY <1>1, <1>2

\* No bytes fill no buffer.
LEMMA NothingRead ==
    ASSUME NEW k \in Nat \ {0}
    PROVE  /\ RunLen(NoBytes) = 0 /\ MinOf(k, RunLen(NoBytes)) = 0
           /\ Slice(NoBytes, 0, 0) = NoBytes
BY DEF RunLen, NoBytes, MinOf, Slice, Run

\* A reader that reads knows its length if it did before.
LEMMA Learns ==
    ASSUME Opened, reader.kind # "none", SameReader
    PROVE  LET known == reader.kind # "none" /\ (reader.layer # "cached" \/ reader.loaded)
               known2 == reader'.kind # "none" /\ (reader'.layer # "cached" \/ reader'.loaded)
           IN  known2 \in {known, TRUE}
BY DEF Opened, SameReader, Readers

\* The readers speak of bytes and answers in the words of their promise.
LEMMA SameWords ==
    /\ Promise!NoBytes = NoBytes /\ Promise!NoClaim = NoClaim
    /\ \A a, b : Promise!Run(a, b) = Run(a, b) /\ Promise!MinOf(a, b) = MinOf(a, b)
                 /\ Promise!Answer(a, b) = Answer(a, b)
    /\ \A run : Promise!RunLen(run) = RunLen(run)
    /\ \A run, a, b : Promise!Slice(run, a, b) = Slice(run, a, b)
<1>1. \A a, b : Promise!Run(a, b) = Run(a, b)
  BY DEF Promise!Run, Run, Promise!NoBytes, NoBytes
<1>2. \A run, a, b : Promise!Slice(run, a, b) = Slice(run, a, b)
  BY <1>1 DEF Promise!Slice, Slice
<1>3. \A run : Promise!RunLen(run) = RunLen(run)
  BY DEF Promise!RunLen, RunLen
<1>4. \A a, b : Promise!MinOf(a, b) = MinOf(a, b)
  BY DEF Promise!MinOf, MinOf
<1>5. \A a, b : Promise!Answer(a, b) = Answer(a, b)
  BY DEF Promise!Answer, Answer
<1>6. Promise!NoBytes = NoBytes /\ Promise!NoClaim = NoClaim
  BY DEF Promise!NoBytes, NoBytes, Promise!NoClaim, NoClaim
<1> QED
  BY <1>1, <1>2, <1>3, <1>4, <1>5, <1>6

\* A read through a ReadSeeker.
LEMMA ReadSeekerHolds == ASSUME RInv, ReadSeeker PROVE Opened' /\ Claims' /\ Promise!Next
<1>0. /\ Opened /\ Claims /\ reader \in Readers /\ reader.kind = "seeker" /\ place \in Places
      /\ claimed' = claimed
      /\ reader.offset \in Nat /\ reader.size \in Nat /\ reader.loaded \in BOOLEAN
      /\ reader # Closed
  BY DEF RInv, ListInv, Founded, Opened, Readers, ReadSeeker, Closed
<1>1. PICK k \in Lens : \E result \in Results(reader.offset, reader.offset + k - 1) :
          LET n == MinOf(k, RunLen(result.run))
          IN  /\ reader' = [reader EXCEPT !.offset = @ + n, !.loaded = Loads(result)]
              /\ answer' = IF result.error # "none" THEN Answer(NoBytes, "error")
                           ELSE Answer(Slice(result.run, 0, n), IF n = 0 THEN "eof" ELSE "more")
  BY DEF ReadSeeker
<1>2. PICK result \in Results(reader.offset, reader.offset + k - 1) :
          LET n == MinOf(k, RunLen(result.run))
          IN  /\ reader' = [reader EXCEPT !.offset = @ + n, !.loaded = Loads(result)]
              /\ answer' = IF result.error # "none" THEN Answer(NoBytes, "error")
                           ELSE Answer(Slice(result.run, 0, n), IF n = 0 THEN "eof" ELSE "more")
  BY <1>1
<1> DEFINE s == reader.offset
           size == reader.size
           n == MinOf(k, RunLen(result.run))
           upto == MinOf(s + k, size)
<1>3. k \in Nat \ {0}
  BY Assumed
<1>4. /\ \/ result.run = NoBytes /\ result.error = "error"
         \/ result.run = NoBytes /\ result.error = "eof" /\ s >= size
         \/ result.run = Expected(s, k) /\ result.error = "none"
  BY <1>0, <1>3, ResultIs
<1>5. /\ RunLen(NoBytes) = 0 /\ MinOf(k, RunLen(NoBytes)) = 0
      /\ Slice(NoBytes, 0, 0) = NoBytes
  BY <1>3, NothingRead
<1>6. /\ s >= size => Expected(s, k) = NoBytes
      /\ s < size => LET m == MinOf(k, RunLen(Expected(s, k)))
                     IN m = upto - s /\ upto > s /\ Slice(Expected(s, k), 0, m) = Run(s, upto)
  BY <1>0, <1>3, ExpectedIs
<1>7. upto \in Nat
  BY <1>0, <1>3 DEF MinOf
<1>8. \/ n = 0 /\ answer' = Answer(NoBytes, "error")
      \/ n = 0 /\ answer' = Answer(NoBytes, "eof") /\ s >= size
      \/ n = upto - s /\ upto > s /\ answer' = Answer(Run(s, upto), "more") /\ s < size
  <2>1. CASE result.error # "none"
    BY <1>2, <1>4, <1>5, <2>1
  <2>2. CASE result.error = "none" /\ s >= size
    <3>1. result.run = NoBytes
      BY <1>4, <1>6, <2>2
    <3> QED
      BY <1>2, <1>5, <2>2, <3>1
  <2>3. CASE result.error = "none" /\ s < size
    <3>1. result.run = Expected(s, k)
      BY <1>4, <2>3
    <3>2. n = upto - s /\ upto > s /\ Slice(result.run, 0, n) = Run(s, upto)
      BY <1>6, <2>3, <3>1
    <3>3. n # 0
      <4> HIDE DEF n, upto
      <4> QED
        BY <1>0, <1>7, <3>2
    <3> QED
      BY <1>2, <2>3, <3>2, <3>3
  <2>4. s >= size \/ s < size
    BY <1>0
  <2> QED
    BY <2>1, <2>2, <2>3, <2>4
<1> HIDE DEF n, upto
<1>9. n \in Nat /\ s + n \in Nat
  BY <1>0, <1>7, <1>8
<1>10. /\ SameReader /\ reader'.offset = s + n /\ reader'.length = reader.length
  <2>1. reader' = [reader EXCEPT !.offset = s + n, !.loaded = Loads(result)]
    BY <1>2 DEF n
  <2>2. Loads(result) \in BOOLEAN /\ (reader.loaded => Loads(result))
    BY <1>0 DEF Loads
  <2> QED
    BY <1>0, <1>9, <2>1, <2>2 DEF Readers, SameReader
<1>11. Opened'
  <2>1. reader.length # 0 => /\ reader.length = reader.size
                             /\ reader.layer # "cached" \/ reader.loaded
    BY <1>0 DEF Opened
  <2> QED
    BY <1>0, <1>10, <2>1, StaysOpened DEF SameReader
<1>12. /\ reader'.kind = reader.kind /\ reader'.size = reader.size
  BY <1>10 DEF SameReader
<1>13. Claims'
  BY <1>0, <1>12, ClaimsStay
<1>14. Promise!Read(k)
  <2>1. LET known == reader.kind # "none" /\ (reader.layer # "cached" \/ reader.loaded)
            known2 == reader'.kind # "none" /\ (reader'.layer # "cached" \/ reader'.loaded)
        IN  known2 \in {known, TRUE}
    BY <1>0, <1>10, Learns
  <2>2. (IF reader = Closed THEN -1 ELSE reader.size) = size
    BY <1>0
  <2>3. reader.kind # "file"
    BY <1>0
  <2>4. \/ /\ s < size /\ reader'.offset = MinOf(s + k, size)
           /\ answer' = Answer(Run(s, reader'.offset), "more")
        \/ /\ s >= size /\ answer' = Answer(NoBytes, "eof") /\ reader'.offset = s
        \/ answer' = Answer(NoBytes, "error") /\ reader'.offset = s
    <3>1. n = 0 => s + n = s
      BY <1>0
    <3>2. n = upto - s => s + n = upto
      BY <1>0, <1>7
    <3> QED
      BY <1>8, <1>10, <3>1, <3>2 DEF upto
  <2>5. \/ /\ s < size /\ reader'.offset = Promise!MinOf(s + k, size)
           /\ answer' = Promise!Answer(Promise!Run(s, reader'.offset), "more")
        \/ /\ s >= size /\ answer' = Promise!Answer(Promise!NoBytes, "eof")
           /\ reader'.offset = s
        \/ answer' = Promise!Answer(Promise!NoBytes, "error") /\ reader'.offset = s
    BY <2>4, SameWords
  <2> QED
    BY <1>0, <2>1, <2>2, <2>3, <2>5, Zenon DEF Promise!Read
<1>15. Promise!Use
  BY <1>14 DEF Promise!Use
<1> QED
  BY <1>0, <1>11, <1>12, <1>13, <1>15, UseRefines

\* A read of a file claims its range.
LEMMA ClaimHolds ==
    ASSUME RInv, NEW t \in Threads, Claim(t) PROVE Opened' /\ Claims' /\ Promise!Next
<1>0. /\ Opened /\ Claims /\ reader \in Readers /\ reader.kind = "file"
      /\ reader.offset \in Nat /\ answer' = answer /\ claimed[t] = NoClaim
      /\ reader # Closed
  BY DEF RInv, Opened, Readers, Claim, Closed
<1>1. PICK k \in Lens :
          /\ claimed' = [claimed EXCEPT ![t] = [at |-> reader.offset, k |-> k]]
          /\ reader' = [reader EXCEPT !.offset = @ + k]
  BY DEF Claim
<1>2. k \in Nat \ {0} /\ reader.offset + k \in Nat
  BY <1>0, Assumed
<1>3. /\ SameReader /\ reader'.loaded = reader.loaded /\ reader'.length = reader.length
      /\ reader'.offset = reader.offset + k
  BY <1>0, <1>1, <1>2 DEF Readers, SameReader
<1>4. /\ reader'.kind = reader.kind /\ reader'.size = reader.size
      /\ reader'.layer = reader.layer
  BY <1>3 DEF SameReader
<1>5. Opened'
  <2>1. reader.length # 0 => /\ reader.length = reader.size
                             /\ reader.layer # "cached" \/ reader.loaded
    BY <1>0 DEF Opened
  <2> QED
    BY <1>0, <1>3, <2>1, StaysOpened
<1>6. Claims'
  <2> DEFINE mine == [at |-> reader.offset, k |-> k]
  <2>1. mine \in [at : Nat, k : Lens \union {0}] /\ mine.k \in Lens
    BY <1>0
  <2> HIDE DEF mine
  <2>2. claimed' = [claimed EXCEPT ![t] = mine]
    BY <1>1 DEF mine
  <2> QED
    BY <1>0, <1>4, <2>1, <2>2 DEF Claims
<1>7. Promise!Claim(t, k)
  <2>1. UNCHANGED (reader.kind # "none" /\ (reader.layer # "cached" \/ reader.loaded))
    BY <1>3, <1>4
  <2> QED
    BY <1>0, <1>1, <1>3, <2>1, SameWords DEF Promise!Claim
<1>8. Promise!Use
  BY <1>7 DEF Promise!Use
<1> QED
  BY <1>0, <1>4, <1>5, <1>6, <1>8, UseRefines

\* The range it has claimed is delivered, as far as the file reaches.
LEMMA DeliverHolds ==
    ASSUME RInv, NEW t \in Threads, Deliver(t) PROVE Opened' /\ Claims' /\ Promise!Next
<1>0. /\ Opened /\ Claims /\ reader \in Readers /\ place \in Places
      /\ claimed[t] # NoClaim
      /\ claimed' = [claimed EXCEPT ![t] = NoClaim]
      /\ claimed[t] \in [at : Nat, k : Lens \union {0}]
      /\ reader.kind = "file" /\ claimed[t].k \in Lens
      /\ reader.offset \in Nat /\ reader.size \in Nat /\ reader.loaded \in BOOLEAN
      /\ reader # Closed
  BY DEF RInv, ListInv, Founded, Opened, Claims, Readers, Deliver, Closed
<1>1. PICK s, k : s = claimed[t].at /\ k = claimed[t].k
  OBVIOUS
<1>2. s \in Nat /\ k \in Lens /\ k \in Nat \ {0}
  BY <1>0, <1>1, Assumed
<1>3. PICK result \in Results(s, s + k - 1) :
          LET n == MinOf(k, RunLen(result.run))
          IN  /\ reader' = [reader EXCEPT !.loaded = Loads(result)]
              /\ answer' = IF result.error = "error" THEN Answer(NoBytes, "error")
                           ELSE Answer(Slice(result.run, 0, n), IF n < k THEN "eof" ELSE "more")
  BY <1>1 DEF Deliver
<1> DEFINE size == reader.size
           n == MinOf(k, RunLen(result.run))
           upto == MinOf(s + k, size)
<1>4. /\ \/ result.run = NoBytes /\ result.error = "error"
         \/ result.run = NoBytes /\ result.error = "eof" /\ s >= size
         \/ result.run = Expected(s, k) /\ result.error = "none"
  BY <1>0, <1>2, ResultIs
<1>5. /\ RunLen(NoBytes) = 0 /\ MinOf(k, RunLen(NoBytes)) = 0
      /\ Slice(NoBytes, 0, 0) = NoBytes
  BY <1>2, NothingRead
<1>6. /\ s >= size => Expected(s, k) = NoBytes
      /\ s < size => LET m == MinOf(k, RunLen(Expected(s, k)))
                     IN m = upto - s /\ upto > s /\ Slice(Expected(s, k), 0, m) = Run(s, upto)
  BY <1>0, <1>2, ExpectedIs
<1>7. \/ answer' = Answer(NoBytes, "error")
      \/ answer' = Answer(Run(s, upto), IF s + k <= size THEN "more" ELSE "eof")
  <2>1. CASE result.error = "error"
    BY <1>3, <2>1
  <2>2. CASE result.error # "error" /\ s >= size
    <3>1. result.run = NoBytes
      BY <1>4, <1>6, <2>2
    <3>2. n = 0 /\ Slice(result.run, 0, n) = NoBytes
      BY <1>5, <3>1
    <3>3. 0 < k /\ ~ (s + k <= size) /\ upto = size /\ ~ (s < size)
      BY <1>0, <1>2, <2>2 DEF MinOf
    <3>4. Run(s, upto) = NoBytes
      BY <3>3 DEF Run
    <3> QED
      BY <1>3, <2>2, <3>2, <3>3, <3>4
  <2>3. CASE result.error # "error" /\ s < size
    <3>1. result.run = Expected(s, k)
      BY <1>0, <1>2, <1>4, <2>3
    <3>2. n = upto - s /\ upto > s /\ Slice(result.run, 0, n) = Run(s, upto)
      BY <1>6, <2>3, <3>1
    <3>3. upto - s < k <=> ~ (s + k <= size)
      BY <1>0, <1>2, <2>3 DEF MinOf
    <3> QED
      BY <1>3, <2>3, <3>2, <3>3
  <2>4. s >= size \/ s < size
    BY <1>0, <1>2
  <2> QED
    BY <2>1, <2>2, <2>3, <2>4
<1> HIDE DEF n
<1>8. /\ SameReader /\ reader'.offset = reader.offset /\ reader'.length = reader.length
  <2>1. reader' = [reader EXCEPT !.loaded = Loads(result)]
    BY <1>3
  <2>2. Loads(result) \in BOOLEAN /\ (reader.loaded => Loads(result))
    BY <1>0 DEF Loads
  <2> QED
    BY <1>0, <2>1, <2>2 DEF Readers, SameReader
<1>9. Opened'
  <2>1. reader.length # 0 => /\ reader.length = reader.size
                             /\ reader.layer # "cached" \/ reader.loaded
    BY <1>0 DEF Opened
  <2> QED
    BY <1>0, <1>8, <2>1, StaysOpened DEF SameReader
<1>10. /\ reader'.kind = reader.kind /\ reader'.size = reader.size
  BY <1>8 DEF SameReader
<1>11. Claims'
  BY <1>0, <1>10 DEF Claims, NoClaim
<1>12. Promise!Deliver(t)
  <2>1. LET known == reader.kind # "none" /\ (reader.layer # "cached" \/ reader.loaded)
            known2 == reader'.kind # "none" /\ (reader'.layer # "cached" \/ reader'.loaded)
        IN  known2 \in {known, TRUE}
    BY <1>0, <1>8, Learns
  <2>2. (IF reader = Closed THEN -1 ELSE reader.size) = size
    BY <1>0
  <2>3. answer' \in {Promise!Answer(Promise!Run(s, Promise!MinOf(s + k, size)),
                                    IF s + k <= size THEN "more" ELSE "eof"),
                     Promise!Answer(Promise!NoBytes, "error")}
    BY <1>7, SameWords
  <2>4. Promise!NoClaim = NoClaim
    BY SameWords
  <2> QED
    BY <1>0, <1>1, <1>8, <2>1, <2>2, <2>3, <2>4, Zenon DEF Promise!Deliver
<1>13. Promise!Use
  BY <1>12 DEF Promise!Use
<1> QED
  BY <1>0, <1>9, <1>10, <1>11, <1>13, UseRefines

\* Of nothing, there is only nothing.
LEMMA NothingSliced == Slice(NoBytes, 0, 0) = NoBytes
  BY DEF Slice, Run, NoBytes

\* A range is streamed from its beginning.
LEMMA StreamHolds == ASSUME RInv, Stream PROVE Opened' /\ Claims' /\ Promise!Next
<1>0. /\ Opened /\ Claims /\ reader \in Readers /\ reader.kind = "resource" /\ place \in Places
      /\ claimed' = claimed
      /\ reader.offset \in Nat /\ reader.size \in Nat /\ reader.loaded \in BOOLEAN
      /\ reader # Closed
  BY DEF RInv, ListInv, Founded, Opened, Readers, Stream, Closed
<1>1. PICK s \in 0 .. reader.size, k \in Lens : \E result \in Results(s, s + k - 1) :
          LET run == result.run
          IN  /\ reader' = [reader EXCEPT !.loaded = Loads(result)]
              /\ \/ /\ result.error = "none" /\ reader.layer = "plain"
                    /\ answer' = Answer(run, "more")
                 \/ \E n \in 0 .. RunLen(run) : answer' = Answer(Slice(run, 0, n), "error")
  BY DEF Stream
<1>2. s \in Nat /\ s <= reader.size /\ k \in Nat \ {0}
  BY <1>0, Assumed
<1>3. PICK result \in Results(s, s + k - 1) :
          LET run == result.run
          IN  /\ reader' = [reader EXCEPT !.loaded = Loads(result)]
              /\ \/ /\ result.error = "none" /\ reader.layer = "plain"
                    /\ answer' = Answer(run, "more")
                 \/ \E n \in 0 .. RunLen(run) : answer' = Answer(Slice(run, 0, n), "error")
  BY <1>1
<1> DEFINE size == reader.size
           run == IF s = 0 /\ k = 1 THEN Run(0, size) ELSE Run(s, MinOf(s + k, size))
<1>4. \/ result.run = NoBytes /\ result.error \in {"error", "eof"}
      \/ result.run = run /\ result.error = "none"
  <2>1. MinOf(s, size) = s
    BY <1>0, <1>2 DEF MinOf
  <2>2. Expected(s, k) = run
    BY <2>1 DEF Expected
  <2>3. \/ result.run = NoBytes /\ result.error = "error"
        \/ result.run = NoBytes /\ result.error = "eof" /\ s >= reader.size
        \/ result.run = Expected(s, k) /\ result.error = "none"
    BY <1>0, <1>2, ResultIs
  <2> QED
    BY <2>2, <2>3
<1>5. /\ RunLen(run) \in Nat /\ Slice(run, 0, 0) = NoBytes
      /\ RunLen(NoBytes) = 0
  <2>1. ASSUME NEW a \in Nat, NEW b \in Nat
        PROVE  RunLen(Run(a, b)) \in Nat /\ Run(a, b).lo \in Nat
    <3>1. CASE a < b
      <4>1. Run(a, b) = [lo |-> a, hi |-> b]
        BY <3>1 DEF Run
      <4>2. Run(a, b).lo = a /\ RunLen(Run(a, b)) = b - a
        BY <4>1 DEF RunLen
      <4> QED
        BY <3>1, <4>2
    <3>2. CASE ~ (a < b)
      BY <3>2 DEF Run, NoBytes, RunLen
    <3> QED
      BY <3>1, <3>2
  <2>2. MinOf(s + k, size) \in Nat
    BY <1>0, <1>2 DEF MinOf
  <2>3. RunLen(run) \in Nat /\ run.lo \in Nat
    BY <1>0, <1>2, <2>1, <2>2
  <2> HIDE DEF run
  <2> QED
    BY <2>3 DEF Slice, Run, NoBytes, RunLen
<1> HIDE DEF run
<1>6. \/ answer' = Answer(run, "more")
      \/ \E n \in 0 .. RunLen(run) : answer' = Answer(Slice(run, 0, n), "error")
  <2>1. 0 \in 0 .. RunLen(run) /\ \A n \in 0 .. RunLen(NoBytes) : n = 0
    BY <1>5
  <2>2. CASE result.run = NoBytes /\ result.error \in {"error", "eof"}
    <3>1. PICK n \in 0 .. RunLen(NoBytes) : answer' = Answer(Slice(NoBytes, 0, n), "error")
      BY <1>3, <2>2
    <3>2. n = 0 /\ Slice(NoBytes, 0, 0) = NoBytes
      BY <2>1, <3>1, NothingSliced
    <3>3. answer' = Answer(Slice(run, 0, 0), "error")
      BY <1>5, <3>1, <3>2
    <3> QED
      BY <2>1, <3>3
  <2>3. CASE result.run = run /\ result.error = "none"
    BY <1>3, <2>3
  <2> QED
    BY <1>4, <2>2, <2>3
<1>7. /\ SameReader /\ reader'.offset = reader.offset /\ reader'.length = reader.length
  <2>1. reader' = [reader EXCEPT !.loaded = Loads(result)]
    BY <1>3
  <2>2. Loads(result) \in BOOLEAN /\ (reader.loaded => Loads(result))
    BY <1>0 DEF Loads
  <2> QED
    BY <1>0, <2>1, <2>2 DEF Readers, SameReader
<1>8. Opened'
  <2>1. reader.length # 0 => /\ reader.length = reader.size
                             /\ reader.layer # "cached" \/ reader.loaded
    BY <1>0 DEF Opened
  <2> QED
    BY <1>0, <1>7, <2>1, StaysOpened DEF SameReader
<1>9. /\ reader'.kind = reader.kind /\ reader'.size = reader.size
  BY <1>7 DEF SameReader
<1>10. Claims'
  BY <1>0, <1>9, ClaimsStay
<1>11. Promise!Stream(s, k)
  <2>1. LET known == reader.kind # "none" /\ (reader.layer # "cached" \/ reader.loaded)
            known2 == reader'.kind # "none" /\ (reader'.layer # "cached" \/ reader'.loaded)
        IN  known2 \in {known, TRUE}
    BY <1>0, <1>7, Learns
  <2>2. (IF reader = Closed THEN -1 ELSE reader.size) = size
    BY <1>0
  <2>3. run = IF s = 0 /\ k = 1 THEN Promise!Run(0, size)
              ELSE Promise!Run(s, Promise!MinOf(s + k, size))
    BY SameWords DEF run
  <2>4. answer' \in {Promise!Answer(run, "more")}
                    \union {Promise!Answer(Promise!Slice(run, 0, n), "error") :
                               n \in 0 .. Promise!RunLen(run)}
    <3>1. \/ answer' = Promise!Answer(run, "more")
          \/ \E n \in 0 .. Promise!RunLen(run) :
                answer' = Promise!Answer(Promise!Slice(run, 0, n), "error")
      BY <1>6, SameWords
    <3> QED
      BY <3>1
  <2> QED
    BY <1>0, <1>7, <2>1, <2>2, <2>3, <2>4, Zenon DEF Promise!Stream
<1>12. Promise!Use
  <2>1. s \in 0 .. (IF reader = Closed THEN -1 ELSE reader.size)
    BY <1>0, <1>2
  <2> QED
    BY <1>1, <1>11, <2>1 DEF Promise!Use
<1> QED
  BY <1>0, <1>8, <1>9, <1>10, <1>12, UseRefines

\* Nothing is open yet.
LEMMA ReaderInit == Init => RInv /\ Promise!Init
<1> SUFFICES ASSUME Init PROVE RInv /\ Promise!Init
  OBVIOUS
<1>1. ListInv
  BY UnlistedHolds DEF Init, InitListing, Unlisted
<1>2. /\ reader = Closed /\ claimed = [t \in Threads |-> NoClaim]
      /\ answer = Answer(NoBytes, "none")
  BY DEF Init
<1>3. /\ reader \in Readers /\ reader.length = 0 /\ reader.kind = "none"
      /\ reader.offset = 0
  BY <1>2 DEF Readers, Closed, Layers, Blank
<1>4. Opened
  BY <1>2, <1>3 DEF Opened
<1>5. Claims
  <2>1. NoClaim \in [at : Nat, k : Lens \union {0}]
    BY DEF NoClaim
  <2> QED
    BY <1>2, <2>1 DEF Claims
<1>6. Promise!Init
  <2>1. Promise!NoClaim = NoClaim /\ Promise!Answer(Promise!NoBytes, "none") = answer
    BY <1>2, SameWords
  <2> QED
    BY <1>2, <1>3, <2>1, Zenon DEF Promise!Init
<1> QED
  BY <1>1, <1>4, <1>5, <1>6 DEF RInv

\* Listing leaves the readers alone.
LEMMA ReadersStay ==
    ASSUME RInv, UNCHANGED readVars PROVE Opened' /\ Claims' /\ UNCHANGED Promise!vars
BY DEF RInv, Opened, Claims, readVars, Promise!vars

\* Every step keeps the invariant, and is a step of a reader or none.
LEMMA ReaderStep == RInv /\ [Next]_vars => RInv' /\ [Promise!Next]_(Promise!vars)
<1> SUFFICES ASSUME RInv, [Next]_vars PROVE RInv' /\ [Promise!Next]_(Promise!vars)
  OBVIOUS
<1>1. ListInv'
  BY ListStep DEF RInv
<1>2. CASE UNCHANGED readVars
  BY <1>1, <1>2, ReadersStay DEF RInv
<1>3. CASE Open
  BY <1>1, <1>3, OpenHolds DEF RInv
<1>4. CASE Seek
  BY <1>1, <1>4, SeekHolds DEF RInv
<1>5. CASE ReadSeeker
  BY <1>1, <1>5, ReadSeekerHolds DEF RInv
<1>6. CASE Stream
  BY <1>1, <1>6, StreamHolds DEF RInv
<1>7. ASSUME NEW t \in Threads, Claim(t) PROVE RInv' /\ Promise!Next
  BY <1>1, <1>7, ClaimHolds DEF RInv
<1>8. ASSUME NEW t \in Threads, Deliver(t) PROVE RInv' /\ Promise!Next
  BY <1>1, <1>8, DeliverHolds DEF RInv
<1>9. UNCHANGED vars => UNCHANGED readVars
  BY DEF vars
<1> QED
  BY <1>2, <1>3, <1>4, <1>5, <1>6, <1>7, <1>8, <1>9 DEF Next

\* Whatever the provider, the layers between, the objects, the buffers and the number of
\* goroutines: every use of a reader is one that its promise allows.
THEOREM ReadersKeepPromise == Spec => ImplementsReader
<1>1. Init => RInv /\ Promise!Init
  BY ReaderInit
<1>2. RInv /\ [Next]_vars => RInv' /\ [Promise!Next]_(Promise!vars)
  BY ReaderStep
<1> QED
  BY <1>1, <1>2, PTL DEF Spec, ImplementsReader, Promise!Spec
=============================================================================
