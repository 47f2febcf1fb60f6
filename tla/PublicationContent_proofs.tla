----------------------- MODULE PublicationContent_proofs -----------------------
(***************************************************************************)
(* Proofs about PublicationContent: that the converter of an HTML loses    *)
(* nothing, makes runs of texts and finds the start, for every document;   *)
(* and that the iterator over the resources of a publication is a cursor   *)
(* over their elements, for every publication.                             *)
(***************************************************************************)
EXTENDS PublicationContent, SequenceTheorems, FiniteSetTheorems, WellFoundedInduction,
        TLAPS

\* Induction on the naturals, over a set instead of a predicate.
LEMMA InductionOnNat ==
    ASSUME NEW S, 0 \in S, \A n \in Nat : n \in S => n + 1 \in S
    PROVE  Nat \subseteq S
<1> DEFINE Less == OpToRel(<, Nat)
           Bad == Nat \ S
<1> SUFFICES ASSUME Bad # {} PROVE FALSE
  OBVIOUS
<1>1. PICK n \in Bad : \A m \in Bad : ~ (<<m, n>> \in Less)
  BY NatLessThanWellFounded, WFMin
<1>2. \A m \in Nat : m < n => m \in S
  BY <1>1 DEF OpToRel
<1>3. n # 0 /\ n - 1 \in Nat /\ n - 1 \in S
  BY <1>2
<1> QED
  BY <1>3

\* What holds of 0, and of i when it holds of i - 1, holds up to n.
LEMMA InductionUpTo ==
    ASSUME NEW n \in Nat, NEW S, 0 \in S, \A i \in 1 .. n : i - 1 \in S => i \in S
    PROVE  0 .. n \subseteq S
<1> DEFINE T == {m \in Nat : m <= n => m \in S}
<1>1. 0 \in T
  OBVIOUS
<1>2. ASSUME NEW m \in Nat, m \in T PROVE m + 1 \in T
  <2>1. CASE m + 1 <= n
    <3>1. m + 1 \in 1 .. n /\ (m + 1) - 1 = m /\ m <= n
      BY <2>1
    <3> QED
      BY <1>2, <3>1
  <2> QED
    BY <2>1
<1> HIDE DEF T
<1>3. Nat \subseteq T
  BY <1>1, <1>2, InductionOnNat
<1> QED
  BY <1>3 DEF T


-----------------------------------------------------------------------------
(* Trees.                                                                  *)

\* Who is a parent is in front of its children.
Rooted(parent, size) == \A i \in 2 .. size : parent[i] \in 1 .. i - 1

\* The function that Ancestors computes.
Upwards(up, parent, n) ==
    up = [i \in 1 .. n |-> IF i = 1 THEN {1} ELSE {i} \union up[parent[i]]]

\* The ancestors of a node, from those of its parent.
LEMMA UpwardsSteps ==
    ASSUME NEW up, NEW parent, NEW n \in Nat, Upwards(up, parent, n), NEW i \in 1 .. n
    PROVE  /\ i = 1 => up[i] = {1}
           /\ i # 1 => up[i] = {i} \union up[parent[i]]
<1>1. up[i] = IF i = 1 THEN {1} ELSE {i} \union up[parent[i]]
  BY Zenon DEF Upwards
<1> QED
  BY <1>1

\* There is such a function: it can be taken one node further.
LEMMA UpwardsExists ==
    ASSUME NEW size \in Nat, NEW parent, Rooted(parent, size), NEW n \in 0 .. size
    PROVE  \E up : Upwards(up, parent, n)
<1> DEFINE S == {m \in 0 .. size : \E f : Upwards(f, parent, m)}
<1>1. 0 \in S
  <2> DEFINE f == [i \in 1 .. 0 |-> {}]
  <2>1. \A i : i \notin 1 .. 0
    OBVIOUS
  <2>2. f = [i \in 1 .. 0 |-> IF i = 1 THEN {1} ELSE {i} \union f[parent[i]]]
    BY <2>1
  <2>3. Upwards(f, parent, 0)
    BY <2>2, Zenon DEF Upwards
  <2> QED
    BY <2>3
<1>2. ASSUME NEW m \in 1 .. size, m - 1 \in S PROVE m \in S
  <2>1. PICK f : Upwards(f, parent, m - 1)
    BY <1>2
  <2> DEFINE next == IF m = 1 THEN {1} ELSE {m} \union f[parent[m]]
             g == [i \in 1 .. m |-> IF i = m THEN next ELSE f[i]]
             h(i) == IF i = 1 THEN {1} ELSE {i} \union g[parent[i]]
  <2>2. ASSUME NEW i \in 1 .. m PROVE g[i] = h(i)
    <3>1. CASE i = m
      <4>1. g[i] = next
        BY <3>1, Zenon
      <4>2. ASSUME m # 1 PROVE g[parent[m]] = f[parent[m]]
        <5>1. parent[m] \in 1 .. m /\ parent[m] # m
          BY <4>2 DEF Rooted
        <5> QED
          BY <5>1, Zenon
      <4> QED
        BY <3>1, <4>1, <4>2, Zenon
    <3>2. CASE i # m
      <4>1. i \in 1 .. m - 1
        BY <3>2
      <4>2. g[i] = f[i]
        BY <3>2, Zenon
      <4>3. /\ i = 1 => f[i] = {1}
            /\ i # 1 => f[i] = {i} \union f[parent[i]]
        <5>1. m - 1 \in Nat
          OBVIOUS
        <5> QED
          BY <2>1, <4>1, <5>1, UpwardsSteps
      <4>4. ASSUME i # 1 PROVE g[parent[i]] = f[parent[i]]
        <5>1. parent[i] \in 1 .. m /\ parent[i] # m
          BY <4>1, <4>4 DEF Rooted
        <5> QED
          BY <5>1, Zenon
      <4> QED
        BY <4>2, <4>3, <4>4, Zenon
    <3> QED
      BY <3>1, <3>2
  <2>3. g = [i \in 1 .. m |-> g[i]]
    OBVIOUS
  <2> HIDE DEF g
  <2>4. g = [i \in 1 .. m |-> h(i)]
    <3> HIDE DEF h
    <3> QED
      BY <2>2, <2>3
  <2>5. Upwards(g, parent, m)
    BY <2>4, Zenon DEF Upwards
  <2> QED
    BY <2>5
<1>3. 0 .. size \subseteq S
  <2> HIDE DEF S
  <2> QED
    BY <1>1, <1>2, InductionUpTo
<1> QED
  BY <1>3

\* Two of them agree on the nodes they share.
LEMMA UpwardsAgree ==
    ASSUME NEW size \in Nat, NEW parent, Rooted(parent, size),
           NEW n \in 0 .. size, NEW m \in 0 .. n,
           NEW f, NEW g, Upwards(f, parent, n), Upwards(g, parent, m)
    PROVE  \A i \in 1 .. m : f[i] = g[i]
<1> DEFINE S == {k \in 0 .. m : \A i \in 1 .. k : f[i] = g[i]}
<1>1. 0 \in S
  OBVIOUS
<1>2. ASSUME NEW k \in 1 .. m, k - 1 \in S PROVE k \in S
  <2>1. \A i \in 1 .. k - 1 : f[i] = g[i]
    BY <1>2
  <2>2. f[k] = g[k]
    <3>1. k \in 1 .. n /\ n \in Nat /\ m \in Nat
      OBVIOUS
    <3>2. /\ k = 1 => f[k] = {1} /\ g[k] = {1}
          /\ k # 1 => f[k] = {k} \union f[parent[k]] /\ g[k] = {k} \union g[parent[k]]
      BY <3>1, UpwardsSteps
    <3>3. k # 1 => parent[k] \in 1 .. k - 1
      BY <3>1 DEF Rooted
    <3> QED
      BY <2>1, <3>2, <3>3
  <2>3. \A i \in 1 .. k : i = k \/ i \in 1 .. k - 1
    OBVIOUS
  <2> QED
    BY <2>1, <2>2, <2>3
<1>3. 0 .. m \subseteq S
  <2> HIDE DEF S
  <2> QED
    BY <1>1, <1>2, InductionUpTo
<1>4. m \in S
  BY <1>3
<1> QED
  BY <1>4

\* A node's ancestors are itself and its parent's.
LEMMA AncestorsAre ==
    ASSUME NEW size \in Nat, NEW parent, Rooted(parent, size), NEW n \in 1 .. size
    PROVE  /\ n = 1 => Ancestors(parent, n) = {1}
           /\ n # 1 => Ancestors(parent, n) = {n} \union Ancestors(parent, parent[n])
<1> DEFINE A(k) == CHOOSE up : Upwards(up, parent, k)
<1>1. ASSUME NEW k \in 1 .. size PROVE Upwards(A(k), parent, k) /\ Ancestors(parent, k) = A(k)[k]
  <2>1. \E up : Upwards(up, parent, k)
    BY UpwardsExists
  <2>2. Upwards(A(k), parent, k)
    BY <2>1, Zenon
  <2>3. Ancestors(parent, k) = A(k)[k]
    BY DEF Ancestors, Upwards
  <2> QED
    BY <2>2, <2>3
<1> HIDE DEF A
<1>2. n \in Nat
  OBVIOUS
<1>3. /\ n = 1 => A(n)[n] = {1}
      /\ n # 1 => A(n)[n] = {n} \union A(n)[parent[n]]
  BY <1>1, <1>2, UpwardsSteps
<1>4. ASSUME n # 1 PROVE A(n)[parent[n]] = A(parent[n])[parent[n]] /\ parent[n] \in 1 .. size
  <2>1. parent[n] \in 1 .. n - 1
    BY <1>4 DEF Rooted
  <2>2. PICK p : p = parent[n]
    OBVIOUS
  <2>3. p \in 0 .. n /\ n \in 0 .. size /\ p \in 1 .. p /\ p \in 1 .. size
    BY <2>1, <2>2
  <2>4. Upwards(A(n), parent, n) /\ Upwards(A(p), parent, p)
    BY <1>1, <2>3
  <2>5. A(n)[p] = A(p)[p]
    BY <2>3, <2>4, UpwardsAgree
  <2> QED
    BY <2>2, <2>3, <2>5
<1> QED
  BY <1>1, <1>3, <1>4

\* The nodes are numbered in document order.
IsTree(parent, size) ==
    /\ size \in Nat \ {0}
    /\ Rooted(parent, size)
    /\ \A i \in 2 .. size : parent[i] \in Ancestors(parent, i - 1)

\* A node's ancestors are the node itself, the body, and nodes in front of it.
LEMMA AncestorsIn ==
    ASSUME NEW size, NEW parent, IsTree(parent, size), NEW n \in 1 .. size
    PROVE  n \in Ancestors(parent, n) /\ Ancestors(parent, n) \subseteq 1 .. n
           /\ 1 \in Ancestors(parent, n)
<1>0. size \in Nat /\ Rooted(parent, size)
  BY DEF IsTree
<1> DEFINE S == {k \in 0 .. size : \A i \in 1 .. k :
                    /\ i \in Ancestors(parent, i) /\ Ancestors(parent, i) \subseteq 1 .. i
                    /\ 1 \in Ancestors(parent, i)}
<1>1. 0 \in S
  BY <1>0
<1>2. ASSUME NEW k \in 1 .. size, k - 1 \in S PROVE k \in S
  <2>1. \A i \in 1 .. k - 1 :
           /\ i \in Ancestors(parent, i) /\ Ancestors(parent, i) \subseteq 1 .. i
           /\ 1 \in Ancestors(parent, i)
    BY <1>2
  <2>2. /\ k \in Ancestors(parent, k) /\ Ancestors(parent, k) \subseteq 1 .. k
        /\ 1 \in Ancestors(parent, k)
    <3>1. /\ k = 1 => Ancestors(parent, k) = {1}
          /\ k # 1 => Ancestors(parent, k) = {k} \union Ancestors(parent, parent[k])
      BY <1>0, AncestorsAre
    <3>2. CASE k = 1
      BY <3>1, <3>2
    <3>3. CASE k # 1
      <4>1. PICK q : q = parent[k]
        OBVIOUS
      <4>2. q \in 1 .. k - 1
        BY <1>0, <3>3, <4>1 DEF Rooted
      <4>3. Ancestors(parent, q) \subseteq 1 .. q /\ 1 \in Ancestors(parent, q)
        BY <2>1, <4>2
      <4>4. 1 .. q \subseteq 1 .. k /\ k \in 1 .. k
        BY <4>2
      <4>5. Ancestors(parent, k) = {k} \union Ancestors(parent, q)
        BY <3>1, <3>3, <4>1
      <4> QED
        BY <4>3, <4>4, <4>5
    <3> QED
      BY <3>2, <3>3
  <2>3. \A i \in 1 .. k : i = k \/ i \in 1 .. k - 1
    OBVIOUS
  <2> QED
    BY <2>1, <2>2, <2>3
<1>3. size \in S
  <2> HIDE DEF S
  <2>1. 0 .. size \subseteq S
    BY <1>0, <1>1, <1>2, InductionUpTo
  <2> QED
    BY <1>0, <2>1
<1> QED
  BY <1>3

\* The ancestors of an ancestor are ancestors.
LEMMA AncestorsUp ==
    ASSUME NEW size, NEW parent, IsTree(parent, size), NEW n \in 1 .. size,
           NEW a \in Ancestors(parent, n)
    PROVE  Ancestors(parent, a) \subseteq Ancestors(parent, n)
<1>0. size \in Nat /\ Rooted(parent, size)
  BY DEF IsTree
<1> DEFINE S == {k \in 0 .. size : \A i \in 1 .. k : \A b \in Ancestors(parent, i) :
                    Ancestors(parent, b) \subseteq Ancestors(parent, i)}
<1>1. 0 \in S
  BY <1>0
<1>2. ASSUME NEW k \in 1 .. size, k - 1 \in S PROVE k \in S
  <2>1. \A i \in 1 .. k - 1 : \A b \in Ancestors(parent, i) :
           Ancestors(parent, b) \subseteq Ancestors(parent, i)
    BY <1>2
  <2>2. ASSUME NEW b \in Ancestors(parent, k)
        PROVE  Ancestors(parent, b) \subseteq Ancestors(parent, k)
    <3>1. /\ k = 1 => Ancestors(parent, k) = {1}
          /\ k # 1 => Ancestors(parent, k) = {k} \union Ancestors(parent, parent[k])
      BY <1>0, AncestorsAre
    <3>2. CASE b = k
      BY <3>2
    <3>3. CASE b # k
      <4>1. k # 1
        BY <2>2, <3>1, <3>3
      <4>2. PICK q : q = parent[k]
        OBVIOUS
      <4>3. q \in 1 .. k - 1
        BY <1>0, <4>1, <4>2 DEF Rooted
      <4>4. Ancestors(parent, k) = {k} \union Ancestors(parent, q)
        BY <3>1, <4>1, <4>2
      <4> QED
        BY <2>1, <2>2, <3>3, <4>3, <4>4
    <3> QED
      BY <3>2, <3>3
  <2>3. \A i \in 1 .. k : i = k \/ i \in 1 .. k - 1
    OBVIOUS
  <2> QED
    BY <2>1, <2>2, <2>3
<1>3. size \in S
  <2> HIDE DEF S
  <2>1. 0 .. size \subseteq S
    BY <1>0, <1>1, <1>2, InductionUpTo
  <2> QED
    BY <1>0, <2>1
<1>4. n \in 1 .. size
  OBVIOUS
<1> QED
  BY <1>3, <1>4

\* Of two ancestors of a node the first is one of the second.
LEMMA AncestorsChain ==
    ASSUME NEW size, NEW parent, IsTree(parent, size), NEW n \in 1 .. size,
           NEW a \in Ancestors(parent, n), NEW b \in Ancestors(parent, n), a <= b
    PROVE  a \in Ancestors(parent, b)
<1>0. size \in Nat /\ Rooted(parent, size)
  BY DEF IsTree
<1> DEFINE S == {k \in 0 .. size : \A i \in 1 .. k : \A c, d \in Ancestors(parent, i) :
                    c <= d => c \in Ancestors(parent, d)}
<1>1. 0 \in S
  BY <1>0
<1>2. ASSUME NEW k \in 1 .. size, k - 1 \in S PROVE k \in S
  <2>1. \A i \in 1 .. k - 1 : \A c, d \in Ancestors(parent, i) :
                    c <= d => c \in Ancestors(parent, d)
    BY <1>2
  <2>2. ASSUME NEW c \in Ancestors(parent, k), NEW d \in Ancestors(parent, k), c <= d
        PROVE  c \in Ancestors(parent, d)
    <3>1. /\ k = 1 => Ancestors(parent, k) = {1}
          /\ k # 1 => Ancestors(parent, k) = {k} \union Ancestors(parent, parent[k])
      BY <1>0, AncestorsAre
    <3>2. CASE d = k
      BY <2>2, <3>2
    <3>3. CASE d # k
      <4>1. k # 1
        BY <2>2, <3>1, <3>3
      <4>2. PICK q : q = parent[k]
        OBVIOUS
      <4>3. q \in 1 .. k - 1 /\ q \in 1 .. size
        BY <1>0, <4>1, <4>2 DEF Rooted
      <4>4. Ancestors(parent, k) = {k} \union Ancestors(parent, q)
        BY <3>1, <4>1, <4>2
      <4>5. d \in Ancestors(parent, q) /\ Ancestors(parent, q) \subseteq 1 .. q
        BY <2>2, <3>3, <4>3, <4>4, AncestorsIn
      <4>6. c # k
        BY <2>2, <4>3, <4>5
      <4> QED
        BY <2>1, <2>2, <4>3, <4>4, <4>5, <4>6
    <3> QED
      BY <3>2, <3>3
  <2>3. \A i \in 1 .. k : i = k \/ i \in 1 .. k - 1
    OBVIOUS
  <2> QED
    BY <2>1, <2>2, <2>3
<1>3. size \in S
  <2> HIDE DEF S
  <2>1. 0 .. size \subseteq S
    BY <1>0, <1>1, <1>2, InductionUpTo
  <2> QED
    BY <1>0, <2>1
<1>4. n \in 1 .. size
  OBVIOUS
<1> QED
  BY <1>3, <1>4

\* Behind a node that is not below n there is none below it any more.
LEMMA AncestorsGap ==
    ASSUME NEW size, NEW parent, IsTree(parent, size), NEW n \in 1 .. size,
           NEW m \in n + 1 .. size, n \notin Ancestors(parent, m), NEW k \in m .. size
    PROVE  n \notin Ancestors(parent, k)
<1>0. size \in Nat /\ Rooted(parent, size)
  BY DEF IsTree
<1> DEFINE S == {j \in 0 .. size : j >= m => n \notin Ancestors(parent, j)}
<1>1. 0 \in S
  BY <1>0
<1>2. ASSUME NEW j \in 1 .. size, j - 1 \in S PROVE j \in S
  <2>1. CASE j <= m
    BY <2>1
  <2>2. CASE j > m
    <3>1. j - 1 \in 1 .. size /\ j - 1 >= m /\ j # 1 /\ j \in 2 .. size /\ j # n
      BY <1>0, <2>2
    <3>2. n \notin Ancestors(parent, j - 1)
      BY <1>2, <3>1
    <3>3. parent[j] \in Ancestors(parent, j - 1)
      BY <3>1 DEF IsTree
    <3>4. Ancestors(parent, parent[j]) \subseteq Ancestors(parent, j - 1)
      BY <3>1, <3>3, AncestorsUp
    <3>5. Ancestors(parent, j) = {j} \union Ancestors(parent, parent[j])
      BY <1>0, <3>1, AncestorsAre
    <3>6. n \notin Ancestors(parent, j)
      BY <3>1, <3>2, <3>4, <3>5
    <3> QED
      BY <3>6
  <2> QED
    BY <2>1, <2>2
<1>3. 0 .. size \subseteq S
  <2> HIDE DEF S
  <2> QED
    BY <1>0, <1>1, <1>2, InductionUpTo
<1>4. k \in 0 .. size /\ k >= m
  OBVIOUS
<1> QED
  BY <1>3, <1>4

\* The nodes below n, and n itself, are those up to e.
Ends(parent, size, n, e) ==
    /\ e \in n .. size
    /\ \A m \in n .. e : n \in Ancestors(parent, m)
    /\ \A m \in e + 1 .. size : n \notin Ancestors(parent, m)

\* Of some naturals one is the least.
LEMMA LeastOf ==
    ASSUME NEW S, S \subseteq Nat, S # {}
    PROVE  \E m \in S : \A k \in S : m <= k
<1> DEFINE Less == OpToRel(<, Nat)
<1>1. PICK n \in S : \A m \in S : ~ (<<m, n>> \in Less)
  BY NatLessThanWellFounded, WFMin
<1>2. \A m \in S : ~ (m < n)
  BY <1>1 DEF OpToRel
<1> HIDE DEF Less
<1> QED
  BY <1>2

\* Every node has such an end.
LEMMA EndExists ==
    ASSUME NEW size, NEW parent, IsTree(parent, size), NEW n \in 1 .. size
    PROVE  \E e : Ends(parent, size, n, e)
<1>0. size \in Nat
  BY DEF IsTree
<1> DEFINE Out == {m \in n .. size : n \notin Ancestors(parent, m)}
<1>1. n \in Ancestors(parent, n)
  BY AncestorsIn
<1>2. CASE Out = {}
  <2>1. \A m \in n .. size : n \in Ancestors(parent, m)
    BY <1>2
  <2>2. Ends(parent, size, n, size)
    BY <1>0, <2>1 DEF Ends
  <2> QED
    BY <2>2
<1>3. CASE Out # {}
  <2>1. Out \subseteq Nat
    BY <1>0
  <2>2. PICK m \in Out : \A k \in Out : m <= k
    <3> HIDE DEF Out
    <3> QED
      BY <1>3, <2>1, LeastOf
  <2>3. m \in n .. size /\ n \notin Ancestors(parent, m)
    BY <2>2
  <2>4. m # n
    BY <1>1, <2>3
  <2>5. m \in n + 1 .. size /\ m - 1 \in n .. size
    BY <1>0, <2>3, <2>4
  <2>6. ASSUME NEW k \in n .. m - 1 PROVE n \in Ancestors(parent, k)
    <3>1. k \in n .. size /\ ~ (m <= k)
      BY <1>0, <2>5
    <3> QED
      BY <2>2, <3>1
  <2>7. ASSUME NEW k \in (m - 1) + 1 .. size PROVE n \notin Ancestors(parent, k)
    <3>1. k \in m .. size
      BY <2>5
    <3> QED
      BY <2>3, <2>5, <3>1, AncestorsGap
  <2>8. Ends(parent, size, n, m - 1)
    BY <2>5, <2>6, <2>7 DEF Ends
  <2> QED
    BY <2>8
<1> QED
  BY <1>2, <1>3

\* A node without children is an end itself.
LEMMA LeafEnds ==
    ASSUME NEW size, NEW parent, IsTree(parent, size), NEW n \in 1 .. size,
           \A c \in 2 .. size : parent[c] # n
    PROVE  Ends(parent, size, n, n)
<1>0. size \in Nat /\ Rooted(parent, size)
  BY DEF IsTree
<1>1. n \in Ancestors(parent, n)
  BY AncestorsIn
<1>2. ASSUME NEW m \in n + 1 .. size PROVE n \notin Ancestors(parent, m)
  <2>1. n + 1 \in 2 .. size /\ n + 1 # n /\ n + 1 # 1 /\ n + 1 \in 1 .. size
    BY <1>0
  <2>2. PICK q : q = parent[n + 1]
    OBVIOUS
  <2>3. q \in 1 .. n /\ q # n /\ q \in 1 .. size
    BY <1>0, <2>1, <2>2 DEF Rooted
  <2>4. Ancestors(parent, n + 1) = {n + 1} \union Ancestors(parent, q)
    BY <1>0, <2>1, <2>2, AncestorsAre
  <2>5. Ancestors(parent, q) \subseteq 1 .. q
    BY <2>3, AncestorsIn
  <2>6. n \notin Ancestors(parent, n + 1)
    BY <2>1, <2>3, <2>4, <2>5
  <2>7. n + 1 \in n + 1 .. size /\ m \in n + 1 .. size
    BY <2>1
  <2> QED
    BY <2>6, <2>7, AncestorsGap
<1> QED
  BY <1>0, <1>1, <1>2 DEF Ends

\* The node behind one with children is its first child.
LEMMA FirstChildIs ==
    ASSUME NEW size, NEW parent, IsTree(parent, size), NEW n \in 1 .. size,
           NEW c \in 2 .. size, parent[c] = n
    PROVE  n + 1 \in 2 .. size /\ parent[n + 1] = n
<1>0. size \in Nat /\ Rooted(parent, size)
  BY DEF IsTree
<1>1. n \in 1 .. c - 1
  BY <1>0 DEF Rooted
<1>2. n + 1 \in 2 .. size /\ n + 1 \in 1 .. size /\ n + 1 # 1 /\ c \in n + 1 .. size
      /\ c # 1 /\ c # n /\ c \in 1 .. size
  BY <1>0, <1>1
<1>3. n \in Ancestors(parent, c)
  <2>1. Ancestors(parent, c) = {c} \union Ancestors(parent, n)
    BY <1>0, <1>2, AncestorsAre
  <2> QED
    BY <2>1, AncestorsIn
<1>4. n \in Ancestors(parent, n + 1)
  <2>1. n + 1 \in n + 1 .. size
    BY <1>2
  <2> QED
    BY <1>2, <1>3, <2>1, AncestorsGap
<1>5. PICK q : q = parent[n + 1]
  OBVIOUS
<1>6. q \in 1 .. n /\ q \in 1 .. size
  BY <1>0, <1>2, <1>5 DEF Rooted
<1>7. Ancestors(parent, n + 1) = {n + 1} \union Ancestors(parent, q)
  BY <1>0, <1>2, <1>5, AncestorsAre
<1>8. n \in Ancestors(parent, q) /\ Ancestors(parent, q) \subseteq 1 .. q
  BY <1>4, <1>6, <1>7, AncestorsIn
<1>9. q = n
  BY <1>6, <1>8
<1> QED
  BY <1>2, <1>5, <1>9

\* The node behind all of those below n, if it is below n's parent, is its child.
LEMMA BehindEnd ==
    ASSUME NEW size, NEW parent, IsTree(parent, size), NEW n \in 2 .. size,
           NEW e, Ends(parent, size, n, e), e < size,
           parent[n] \in Ancestors(parent, e + 1)
    PROVE  parent[e + 1] = parent[n]
<1>0. size \in Nat /\ Rooted(parent, size) /\ n \in 1 .. size /\ e \in n .. size
      /\ e \in 1 .. size /\ e + 1 \in 2 .. size /\ e + 1 \in 1 .. size /\ n # 1
      /\ e + 1 # 1
  BY DEF IsTree, Ends
<1>1. PICK p, q : p = parent[n] /\ q = parent[e + 1]
  OBVIOUS
<1>2. p \in 1 .. n - 1 /\ p \in 1 .. size /\ q \in 1 .. e /\ q \in 1 .. size
  BY <1>0, <1>1 DEF Rooted
<1>3. Ancestors(parent, n) = {n} \union Ancestors(parent, p)
  BY <1>0, <1>1, AncestorsAre
<1>4. Ancestors(parent, e + 1) = {e + 1} \union Ancestors(parent, q)
  BY <1>0, <1>1, AncestorsAre
<1>5. q \in Ancestors(parent, e) /\ n \in Ancestors(parent, e)
  <2>1. (e + 1) - 1 = e /\ e \in n .. e
    BY <1>0
  <2> QED
    BY <1>0, <1>1, <2>1 DEF IsTree, Ends
<1>6. n \notin Ancestors(parent, e + 1)
  <2>1. e + 1 \in e + 1 .. size
    BY <1>0
  <2> QED
    BY <2>1 DEF Ends
<1>7. p \in Ancestors(parent, q)
  <2>1. p # e + 1
    BY <1>0, <1>2
  <2> QED
    BY <1>1, <1>4, <2>1
<1>8. ~ (n <= q)
  <2> SUFFICES ASSUME n <= q PROVE FALSE
    OBVIOUS
  <2>1. n \in Ancestors(parent, q)
    BY <1>0, <1>5, AncestorsChain
  <2> QED
    BY <1>4, <1>6, <2>1
<1>9. q < n
  BY <1>0, <1>2, <1>8
<1>10. q \in Ancestors(parent, n)
  <2>1. q <= n
    BY <1>0, <1>2, <1>9
  <2> QED
    BY <1>0, <1>5, <2>1, AncestorsChain
<1>11. q \in Ancestors(parent, p) /\ Ancestors(parent, p) \subseteq 1 .. p
       /\ Ancestors(parent, q) \subseteq 1 .. q
  <2>1. q # n
    BY <1>0, <1>2, <1>9
  <2> QED
    BY <1>2, <1>3, <1>10, <2>1, AncestorsIn
<1>12. q = p
  BY <1>2, <1>7, <1>11
<1> QED
  BY <1>1, <1>12

\* The next sibling comes right behind what is below a node.
LEMMA NextSiblingIs ==
    ASSUME NEW size, NEW parent, IsTree(parent, size), NEW n \in 2 .. size,
           NEW e, Ends(parent, size, n, e),
           NEW c \in 2 .. size, parent[c] = parent[n], c > n
    PROVE  /\ e + 1 \in 2 .. size /\ e + 1 > n /\ parent[e + 1] = parent[n]
           /\ e + 1 <= c
<1>0. size \in Nat /\ Rooted(parent, size) /\ n \in 1 .. size /\ e \in n .. size
      /\ e \in 1 .. size /\ n # 1 /\ c # 1 /\ c \in 1 .. size
  BY DEF IsTree, Ends
<1>1. PICK p : p = parent[n]
  OBVIOUS
<1>2. p \in 1 .. n - 1 /\ p \in 1 .. size
  BY <1>0, <1>1 DEF Rooted
<1>3. Ancestors(parent, c) = {c} \union Ancestors(parent, p)
  BY <1>0, <1>1, AncestorsAre
<1>4. p \in Ancestors(parent, p) /\ Ancestors(parent, p) \subseteq 1 .. p
  BY <1>2, AncestorsIn
<1>5. n \notin Ancestors(parent, c) /\ p \in Ancestors(parent, c)
  BY <1>0, <1>2, <1>3, <1>4
<1>6. c \notin n .. e
  BY <1>5 DEF Ends
<1>7. e + 1 <= c /\ e + 1 \in 2 .. size /\ e + 1 > n /\ e < size
      /\ e + 1 \in p + 1 .. size /\ c \in e + 1 .. size
  BY <1>0, <1>2, <1>6
<1>8. p \in Ancestors(parent, e + 1)
  BY <1>2, <1>5, <1>7, AncestorsGap
<1>9. parent[e + 1] = parent[n]
  BY <1>1, <1>7, <1>8, BehindEnd
<1> QED
  BY <1>7, <1>9

\* What is below the last child ends where its parent's does.
LEMMA LastChildEnds ==
    ASSUME NEW size, NEW parent, IsTree(parent, size), NEW n \in 2 .. size,
           NEW e, Ends(parent, size, n, e),
           \A c \in 2 .. size : parent[c] = parent[n] => ~ (c > n)
    PROVE  Ends(parent, size, parent[n], e)
<1>0. size \in Nat /\ Rooted(parent, size) /\ n \in 1 .. size /\ e \in n .. size
      /\ e \in 1 .. size /\ n # 1
  BY DEF IsTree, Ends
<1>1. PICK p : p = parent[n]
  OBVIOUS
<1>2. p \in 1 .. n - 1 /\ p \in 1 .. size
  BY <1>0, <1>1 DEF Rooted
<1>3. p \in Ancestors(parent, e)
  <2>1. Ancestors(parent, n) = {n} \union Ancestors(parent, p)
    BY <1>0, <1>1, AncestorsAre
  <2>2. p \in Ancestors(parent, n)
    BY <1>2, <2>1, AncestorsIn
  <2>3. n \in Ancestors(parent, e)
    <3>1. e \in n .. e
      BY <1>0
    <3> QED
      BY <3>1 DEF Ends
  <2>4. Ancestors(parent, n) \subseteq Ancestors(parent, e)
    BY <1>0, <2>3, AncestorsUp
  <2> QED
    BY <2>2, <2>4
<1>4. ASSUME NEW m \in p .. e PROVE p \in Ancestors(parent, m)
  <2>1. CASE m = p
    BY <1>2, <2>1, AncestorsIn
  <2>2. CASE m # p
    <3>1. m \in p + 1 .. size /\ e \in m .. size
      BY <1>0, <1>2, <2>2
    <3> QED
      BY <1>2, <1>3, <3>1, AncestorsGap
  <2> QED
    BY <2>1, <2>2
<1>5. ASSUME NEW m \in e + 1 .. size PROVE p \notin Ancestors(parent, m)
  <2>1. e < size /\ e + 1 \in 2 .. size /\ e + 1 > n /\ e + 1 \in p + 1 .. size
        /\ m \in e + 1 .. size
    BY <1>0, <1>2
  <2>2. p \notin Ancestors(parent, e + 1)
    BY <1>1, <2>1, BehindEnd
  <2> QED
    BY <1>2, <2>1, <2>2, AncestorsGap
<1>6. e \in p .. size
  BY <1>0, <1>2
<1> QED
  BY <1>1, <1>4, <1>5, <1>6 DEF Ends

\* Below the body is all of the document.
LEMMA BodyEnds ==
    ASSUME NEW size, NEW parent, IsTree(parent, size), NEW e, Ends(parent, size, 1, e)
    PROVE  e = size
<1>0. size \in Nat /\ e \in 1 .. size
  BY DEF IsTree, Ends
<1>1. ASSUME e < size PROVE FALSE
  <2>1. e + 1 \in e + 1 .. size /\ e + 1 \in 1 .. size
    BY <1>0, <1>1
  <2>2. 1 \in Ancestors(parent, e + 1)
    BY <2>1, AncestorsIn
  <2> QED
    BY <2>1, <2>2 DEF Ends
<1> QED
  BY <1>0, <1>1

-----------------------------------------------------------------------------
(* Sequences.                                                              *)

\* A value and a step for each number up to n make a function.
LEMMA RecursionOnNat ==
    ASSUME NEW S, NEW a \in S, NEW n \in Nat, NEW step \in [1 .. n -> [S -> S]]
    PROVE  \E f \in [0 .. n -> S] :
               /\ f[0] = a
               /\ \A r \in 1 .. n : f[r] = step[r][f[r - 1]]
<1> DEFINE Upto(f, m) ==
                /\ f \in [0 .. m -> S]
                /\ f[0] = a
                /\ \A r \in 1 .. m : f[r] = step[r][f[r - 1]]
           P(m) == m <= n => \E f : Upto(f, m)
           T == {m \in Nat : P(m)}
<1>1. P(0)
  <2>1. Upto([r \in 0 .. 0 |-> a], 0)
    OBVIOUS
  <2> QED
    BY <2>1
<1>2. ASSUME NEW m \in Nat, P(m), m + 1 <= n PROVE \E f : Upto(f, m + 1)
  <2>1. \E f : Upto(f, m)
    <3>1. m <= n
      BY <1>2
    <3> HIDE DEF Upto
    <3> QED
      BY <1>2, <3>1
  <2>2. PICK f : Upto(f, m)
    BY <2>1
  <2> DEFINE g == [r \in 0 .. m + 1 |-> IF r = m + 1 THEN step[m + 1][f[m]] ELSE f[r]]
  <2>3. step[m + 1][f[m]] \in S
    BY <1>2, <2>2
  <2>4. g \in [0 .. m + 1 -> S]
    BY <2>2, <2>3
  <2>5. g[0] = a
    BY <2>2
  <2>6. ASSUME NEW r \in 1 .. m + 1 PROVE g[r] = step[r][g[r - 1]]
    <3>1. g[r - 1] = f[r - 1] /\ r - 1 \in 0 .. m
      OBVIOUS
    <3> QED
      BY <2>2, <3>1
  <2> QED
    BY <2>4, <2>5, <2>6
<1>3. PICK f : Upto(f, n)
  <2> HIDE DEF Upto
  <2>1. 0 \in T
    BY <1>1
  <2>2. \A m \in Nat : m \in T => m + 1 \in T
    BY <1>2
  <2> HIDE DEF T
  <2>3. n \in T
    BY <2>1, <2>2, InductionOnNat
  <2> QED
    BY <2>3 DEF T
<1> QED
  BY <1>3

\* The function that Joined computes.
Joining(f, parts) ==
    f = [i \in 0 .. Len(parts) |-> IF i = 0 THEN <<>> ELSE f[i - 1] \o parts[i]]

\* What it is, step by step.
JoinedBy(f, parts) ==
    /\ Joined(parts) = f[Len(parts)]
    /\ f[0] = <<>>
    /\ \A i \in 1 .. Len(parts) : f[i] = f[i - 1] \o parts[i]

\* There is one, however far: it can be taken one part further.
LEMMA JoiningExists ==
    ASSUME NEW n \in Nat, NEW parts
    PROVE  \E f : f = [i \in 0 .. n |-> IF i = 0 THEN <<>> ELSE f[i - 1] \o parts[i]]
<1> DEFINE P(f, m) == f = [i \in 0 .. m |-> IF i = 0 THEN <<>> ELSE f[i - 1] \o parts[i]]
           S == {m \in 0 .. n : \E f : P(f, m)}
<1>1. 0 \in S
  <2> DEFINE f == [i \in 0 .. 0 |-> <<>>]
  <2>1. \A i \in 0 .. 0 : i = 0
    OBVIOUS
  <2>2. P(f, 0)
    BY <2>1
  <2>3. 0 \in 0 .. n
    OBVIOUS
  <2> HIDE DEF P
  <2> QED
    BY <2>2, <2>3
<1>2. ASSUME NEW m \in 1 .. n, m - 1 \in S PROVE m \in S
  <2>1. PICK f : P(f, m - 1)
    BY <1>2
  <2> DEFINE next == f[m - 1] \o parts[m]
             g == [i \in 0 .. m |-> IF i = m THEN next ELSE f[i]]
             h(i) == IF i = 0 THEN <<>> ELSE g[i - 1] \o parts[i]
  <2>2. ASSUME NEW i \in 0 .. m PROVE g[i] = h(i)
    <3>1. CASE i = m
      <4>1. i # 0
        BY <3>1
      <4>5. g[i] = next
        BY <3>1, Zenon
      <4>2. m - 1 \in 0 .. m /\ m - 1 # m
        OBVIOUS
      <4>3. g[m - 1] = f[m - 1]
        BY <4>2, Zenon
      <4> QED
        BY <3>1, <4>1, <4>3, <4>5, Zenon
    <3>2. CASE i # m
      <4>1. i \in 0 .. m - 1
        BY <3>2
      <4>2. g[i] = f[i]
        BY <3>2, Zenon
      <4>3. f[i] = IF i = 0 THEN <<>> ELSE f[i - 1] \o parts[i]
        <5> HIDE DEF g, h, next
        <5> QED
          BY <2>1, <4>1, Zenon
      <4>4. ASSUME i # 0 PROVE g[i - 1] = f[i - 1]
        <5>1. i - 1 \in 0 .. m /\ i - 1 # m
          BY <4>1, <4>4
        <5> QED
          BY <5>1, Zenon
      <4> QED
        BY <4>2, <4>3, <4>4, Zenon
    <3> QED
      BY <3>1, <3>2
  <2>3. g = [i \in 0 .. m |-> g[i]]
    OBVIOUS
  <2> HIDE DEF g
  <2>4. g = [i \in 0 .. m |-> h(i)]
    <3> HIDE DEF h
    <3> QED
      BY <2>2, <2>3
  <2>5. P(g, m)
    BY <2>4, Zenon
  <2> HIDE DEF P
  <2>6. m \in 0 .. n
    OBVIOUS
  <2> QED
    BY <2>5, <2>6
<1>3. 0 .. n \subseteq S
  <2> HIDE DEF S
  <2> QED
    BY <1>1, <1>2, InductionUpTo
<1> HIDE DEF P
<1>4. n \in 0 .. n
  OBVIOUS
<1>5. \E f : P(f, n)
  BY <1>3, <1>4
<1> QED
  BY <1>5 DEF P

\* Joined computes one.
LEMMA JoinedWalks ==
    ASSUME NEW V, NEW parts \in Seq(Seq(V)) PROVE \E f : JoinedBy(f, parts)
<1> DEFINE n == Len(parts)
           g == CHOOSE f : Joining(f, parts)
<1>0. n \in Nat /\ \A i \in 1 .. n : parts[i] \in Seq(V)
  BY LenProperties, ElementOfSeq
<1>1. \E f : Joining(f, parts)
  BY <1>0, JoiningExists DEF Joining
<1>2. Joining(g, parts)
  BY <1>1
<1>3. Joined(parts) = g[n]
  BY DEF Joined, Joining
<1> HIDE DEF g
<1>4. ASSUME NEW i \in 0 .. n
      PROVE  g[i] = IF i = 0 THEN <<>> ELSE g[i - 1] \o parts[i]
  BY <1>2, Zenon DEF Joining
<1>5. g[0] = <<>>
  BY <1>0, <1>4
<1>6. ASSUME NEW i \in 1 .. n PROVE g[i] = g[i - 1] \o parts[i]
  <2>1. i # 0 /\ i \in 0 .. n
    BY <1>0
  <2> QED
    BY <1>4, <2>1, Zenon
<1>7. JoinedBy(g, parts)
  BY <1>3, <1>5, <1>6 DEF JoinedBy
<1> QED
  BY <1>7

\* Sequences joined are a sequence.
LEMMA JoinedIn ==
    ASSUME NEW V, NEW parts \in Seq(Seq(V)) PROVE Joined(parts) \in Seq(V)
<1>0. Len(parts) \in Nat /\ \A i \in 1 .. Len(parts) : parts[i] \in Seq(V)
  BY LenProperties, ElementOfSeq
<1>1. PICK f : JoinedBy(f, parts)
  BY JoinedWalks
<1> DEFINE S == {i \in 0 .. Len(parts) : f[i] \in Seq(V)}
<1>2. 0 \in S
  <2>1. f[0] \in Seq(V)
    BY <1>1, EmptySeq DEF JoinedBy
  <2> QED
    BY <1>0, <2>1
<1>3. ASSUME NEW i \in 1 .. Len(parts), i - 1 \in S PROVE i \in S
  <2>1. f[i - 1] \in Seq(V) /\ i \in 0 .. Len(parts)
    BY <1>0, <1>3
  <2>2. f[i] = f[i - 1] \o parts[i] /\ parts[i] \in Seq(V)
    BY <1>0, <1>1 DEF JoinedBy
  <2>3. f[i] \in Seq(V)
    BY <2>1, <2>2, ConcatProperties
  <2> QED
    BY <2>1, <2>3
<1>4. Len(parts) \in S
  <2> HIDE DEF S
  <2>1. 0 .. Len(parts) \subseteq S
    BY <1>0, <1>2, <1>3, InductionUpTo
  <2> QED
    BY <1>0, <2>1
<1> QED
  BY <1>1, <1>4 DEF JoinedBy

\* No sequences make an empty one.
LEMMA JoinedNone == Joined(<<>>) = <<>>
<1>1. <<>> \in Seq(Seq({}))
  BY EmptySeq
<1>2. PICK f : JoinedBy(f, <<>>)
  BY <1>1, JoinedWalks
<1>3. Len(<<>>) = 0
  OBVIOUS
<1> QED
  BY <1>2, <1>3 DEF JoinedBy

\* One more sequence is added behind the others.
LEMMA JoinedAppend ==
    ASSUME NEW V, NEW parts \in Seq(Seq(V)), NEW x \in Seq(V)
    PROVE  Joined(Append(parts, x)) = Joined(parts) \o x
<1> DEFINE more == Append(parts, x)
           n == Len(parts)
<1>0. /\ n \in Nat /\ more \in Seq(Seq(V)) /\ Len(more) = n + 1
      /\ more[n + 1] = x /\ \A i \in 1 .. n : more[i] = parts[i]
  <2> DEFINE M == Seq(V)
  <2>1. parts \in Seq(M) /\ x \in M
    OBVIOUS
  <2> HIDE DEF M
  <2>2. /\ n \in Nat /\ more \in Seq(M) /\ Len(more) = n + 1
        /\ more[n + 1] = x /\ \A i \in 1 .. n : more[i] = parts[i]
    BY <2>1, AppendProperties, LenProperties
  <2> QED
    BY <2>2 DEF M
<1>1. PICK f : JoinedBy(f, parts)
  BY JoinedWalks
<1>2. PICK g : JoinedBy(g, more)
  BY <1>0, JoinedWalks
<1> HIDE DEF more
<1> DEFINE S == {i \in 0 .. n : f[i] = g[i]}
<1>3. 0 \in S
  BY <1>0, <1>1, <1>2 DEF JoinedBy
<1>4. ASSUME NEW i \in 1 .. n, i - 1 \in S PROVE i \in S
  <2>1. f[i - 1] = g[i - 1] /\ i \in 0 .. n /\ i \in 1 .. Len(more)
    BY <1>0, <1>4
  <2>2. f[i] = f[i - 1] \o parts[i] /\ g[i] = g[i - 1] \o more[i] /\ more[i] = parts[i]
    BY <1>0, <1>1, <1>2, <2>1 DEF JoinedBy
  <2> QED
    BY <2>1, <2>2
<1>5. n \in S
  <2> HIDE DEF S
  <2>1. 0 .. n \subseteq S
    BY <1>0, <1>3, <1>4, InductionUpTo
  <2> QED
    BY <1>0, <2>1
<1>6. f[n] = g[n]
  BY <1>5
<1>7. g[n + 1] = g[n] \o x
  <2>1. n + 1 \in 1 .. Len(more) /\ (n + 1) - 1 = n
    BY <1>0
  <2>2. g[n + 1] = g[(n + 1) - 1] \o more[n + 1]
    BY <1>2, <2>1 DEF JoinedBy
  <2> QED
    BY <1>0, <2>1, <2>2
<1>8. Joined(more) = g[n + 1] /\ Joined(parts) = f[n]
  BY <1>0, <1>1, <1>2 DEF JoinedBy
<1> QED
  BY <1>6, <1>7, <1>8 DEF more

-----------------------------------------------------------------------------
(* Nodes in order.                                                         *)

\* The function that InOrder computes.
Listing(f, size, S) ==
    f = [n \in 0 .. size |->
            IF n = 0 THEN <<>> ELSE IF n \in S THEN Append(f[n - 1], n) ELSE f[n - 1]]

\* What it is, step by step.
ListedBy(f, size, S) ==
    /\ f[0] = <<>>
    /\ \A n \in 1 .. size : n \in S => f[n] = Append(f[n - 1], n)
    /\ \A n \in 1 .. size : n \notin S => f[n] = f[n - 1]

\* There is one.
LEMMA ListingExists ==
    ASSUME NEW size \in Nat, NEW S
    PROVE  \E f : Listing(f, size, S)
<1> DEFINE M == Seq(Nat)
           e == <<>>
           step == [n \in 1 .. size |-> [x \in M |-> IF n \in S THEN Append(x, n) ELSE x]]
<1>1. e \in M
  BY EmptySeq
<1>2. step \in [1 .. size -> [M -> M]]
  <2>1. ASSUME NEW n \in 1 .. size, NEW x \in M
        PROVE  (IF n \in S THEN Append(x, n) ELSE x) \in M
    <3>1. n \in Nat
      OBVIOUS
    <3>2. Append(x, n) \in M
      BY <3>1, AppendProperties
    <3> QED
      BY <3>2
  <2> HIDE DEF M
  <2> QED
    BY <2>1
<1>3. ASSUME NEW n \in 1 .. size, NEW x \in M
      PROVE  step[n][x] = IF n \in S THEN Append(x, n) ELSE x
  <2> HIDE DEF M
  <2> QED
    BY Zenon
<1> HIDE DEF M, e, step
<1>4. PICK f \in [0 .. size -> M] :
          f[0] = e /\ \A n \in 1 .. size : f[n] = step[n][f[n - 1]]
  BY <1>1, <1>2, RecursionOnNat
<1>5. ASSUME NEW n \in 0 .. size
      PROVE  f[n] = IF n = 0 THEN <<>>
                    ELSE IF n \in S THEN Append(f[n - 1], n) ELSE f[n - 1]
  <2>1. CASE n = 0
    BY <1>4, <2>1, Zenon DEF e
  <2>2. CASE n # 0
    <3>1. n \in 1 .. size /\ n - 1 \in 0 .. size
      BY <2>2
    <3>2. f[n - 1] \in M
      BY <3>1, Zenon
    <3>3. f[n] = step[n][f[n - 1]]
      BY <1>4, <3>1
    <3>4. f[n] = IF n \in S THEN Append(f[n - 1], n) ELSE f[n - 1]
      BY <1>3, <3>1, <3>2, <3>3, Zenon
    <3> QED
      BY <2>2, <3>4, Zenon
  <2> QED
    BY <2>1, <2>2
<1>6. Listing(f, size, S)
  BY <1>5 DEF Listing
<1> QED
  BY <1>6

\* InOrder computes one.
LEMMA InOrderWalks ==
    ASSUME doc.size \in Nat, NEW S
    PROVE  \E f : ListedBy(f, doc.size, S) /\ InOrder(S) = f[doc.size]
<1> DEFINE g == CHOOSE f : Listing(f, doc.size, S)
<1>1. PICK size : size = doc.size /\ size \in Nat
  OBVIOUS
<1>2. \E f : Listing(f, doc.size, S)
  BY <1>1, ListingExists
<1>3. Listing(g, size, S)
  BY <1>1, <1>2
<1>4. InOrder(S) = g[size]
  BY <1>1 DEF InOrder, Listing
<1> HIDE DEF g
<1>5. ASSUME NEW n \in 0 .. size
      PROVE  g[n] = IF n = 0 THEN <<>>
                    ELSE IF n \in S THEN Append(g[n - 1], n) ELSE g[n - 1]
  BY <1>3, Zenon DEF Listing
<1>6. g[0] = <<>>
  BY <1>1, <1>5
<1>7. ASSUME NEW n \in 1 .. size
      PROVE  /\ n \in S => g[n] = Append(g[n - 1], n)
             /\ n \notin S => g[n] = g[n - 1]
  <2>1. n # 0 /\ n \in 0 .. size
    BY <1>1
  <2> QED
    BY <1>5, <2>1, Zenon
<1>8. ListedBy(g, size, S)
  BY <1>6, <1>7 DEF ListedBy
<1> QED
  BY <1>1, <1>4, <1>8

\* One more at the end of a sequence.
LEMMA AppendFacts ==
    ASSUME NEW V, NEW s \in Seq(V), NEW x \in V
    PROVE  /\ Append(s, x) \in Seq(V) /\ Append(s, x) # <<>>
           /\ Last(Append(s, x)) = x /\ Front(Append(s, x)) = s
           /\ Len(s) \in Nat /\ Len(Append(s, x)) = Len(s) + 1
           /\ Append(s, x)[Len(s) + 1] = x
           /\ \A i \in 1 .. Len(s) : Append(s, x)[i] = s[i]
           /\ DOMAIN s = 1 .. Len(s) /\ DOMAIN Append(s, x) = 1 .. Len(s) + 1
<1> DEFINE t == Append(s, x)
           f == SubSeq(t, 1, Len(s))
<1>1. /\ t \in Seq(V) /\ t # <<>> /\ Len(s) \in Nat /\ Len(t) = Len(s) + 1
      /\ t[Len(s) + 1] = x /\ \A i \in 1 .. Len(s) : t[i] = s[i]
  BY AppendProperties, LenProperties
<1>2. DOMAIN s = 1 .. Len(s) /\ DOMAIN t = 1 .. Len(s) + 1
  BY <1>1, LenProperties
<1>3. Last(t) = x
  BY <1>1 DEF Last
<1>4. /\ f \in Seq(V) /\ Len(f) = Len(s) /\ \A i \in 1 .. Len(s) : f[i] = t[i]
  <2>1. \A i \in 1 .. Len(s) : t[i] \in V
    BY <1>1, ElementOfSeq
  <2> HIDE DEF t
  <2>2. /\ f \in Seq(V)
        /\ Len(f) = IF 1 <= Len(s) THEN Len(s) - 1 + 1 ELSE 0
        /\ \A i \in 1 .. Len(s) - 1 + 1 : f[i] = t[1 + i - 1]
    BY <1>1, <2>1, SubSeqProperties
  <2> QED
    BY <1>1, <2>2
<1>5. f = s
  <2> HIDE DEF t, f
  <2>1. \A i \in 1 .. Len(f) : f[i] = s[i]
    BY <1>1, <1>4
  <2> QED
    BY <1>4, <2>1, SeqEqual
<1>6. Front(t) = f
  BY <1>1 DEF Front
<1> QED
  BY <1>1, <1>2, <1>3, <1>5, <1>6

\* Two ways to add one behind a concatenation.
LEMMA ConcatAppend ==
    ASSUME NEW V, NEW s \in Seq(V), NEW t \in Seq(V), NEW x \in V
    PROVE  s \o Append(t, x) = Append(s \o t, x)
<1>1. <<x>> \in Seq(V) /\ s \o t \in Seq(V)
  BY ConcatProperties
<1>2. Append(t, x) = t \o <<x>> /\ Append(s \o t, x) = (s \o t) \o <<x>>
  BY <1>1, AppendIsConcat
<1>3. (s \o t) \o <<x>> = s \o (t \o <<x>>)
  BY <1>1, ConcatAssociative
<1> QED
  BY <1>2, <1>3

\* The ends of a concatenation.
LEMMA ConcatEnds ==
    ASSUME NEW V, NEW s \in Seq(V), NEW t \in Seq(V)
    PROVE  /\ s # <<>> => (s \o t)[1] = s[1] /\ s \o t # <<>>
           /\ t # <<>> => Last(s \o t) = Last(t) /\ s \o t # <<>>
           /\ s = <<>> => s \o t = t
           /\ t = <<>> => s \o t = s
<1>1. /\ s \o t \in Seq(V) /\ Len(s \o t) = Len(s) + Len(t)
      /\ \A i \in 1 .. Len(s) + Len(t) : (s \o t)[i] =
            IF i <= Len(s) THEN s[i] ELSE t[i - Len(s)]
      /\ Len(s) \in Nat /\ Len(t) \in Nat
      /\ (s = <<>> => s \o t = t) /\ (t = <<>> => s \o t = s)
      /\ (s \o t = <<>> <=> s = <<>> /\ t = <<>>)
  BY ConcatProperties, LenProperties, ConcatEmptySeq, ConcatEqualIffEmpty
<1>2. (s # <<>> => Len(s) > 0) /\ (t # <<>> => Len(t) > 0)
  BY <1>1, EmptySeq
<1>3. s # <<>> => (s \o t)[1] = s[1]
  BY <1>1, <1>2
<1>4. t # <<>> => (s \o t)[Len(s) + Len(t)] = t[Len(t)]
  BY <1>1, <1>2
<1> QED
  BY <1>1, <1>3, <1>4 DEF Last

\* A list of nodes is one of numbers.
LEMMA InOrderIn ==
    ASSUME doc.size \in Nat, NEW S PROVE InOrder(S) \in Seq(Nat)
<1>1. PICK f : ListedBy(f, doc.size, S) /\ InOrder(S) = f[doc.size]
  BY InOrderWalks
<1> DEFINE T == {k \in 0 .. doc.size : f[k] \in Seq(Nat)}
<1>2. 0 \in T
  <2>1. f[0] = <<>> /\ 0 \in 0 .. doc.size
    BY <1>1 DEF ListedBy
  <2>2. <<>> \in Seq(Nat)
    BY EmptySeq
  <2> QED
    BY <2>1, <2>2
<1>3. ASSUME NEW k \in 1 .. doc.size, k - 1 \in T PROVE k \in T
  <2>1. f[k - 1] \in Seq(Nat) /\ k \in Nat /\ k \in 0 .. doc.size
    BY <1>3
  <2>2. Append(f[k - 1], k) \in Seq(Nat)
    BY <2>1, AppendProperties
  <2>3. f[k] = Append(f[k - 1], k) \/ f[k] = f[k - 1]
    BY <1>1 DEF ListedBy
  <2> QED
    BY <2>1, <2>2, <2>3
<1>4. doc.size \in T
  <2> HIDE DEF T
  <2>1. 0 .. doc.size \subseteq T
    BY <1>2, <1>3, InductionUpTo
  <2> QED
    BY <2>1
<1> QED
  BY <1>1, <1>4

\* No nodes make an empty list.
LEMMA InOrderNone == ASSUME doc.size \in Nat PROVE InOrder({}) = <<>>
<1>1. PICK f : ListedBy(f, doc.size, {}) /\ InOrder({}) = f[doc.size]
  BY InOrderWalks
<1> DEFINE T == {k \in 0 .. doc.size : f[k] = <<>>}
<1>2. 0 \in T
  BY <1>1 DEF ListedBy
<1>3. ASSUME NEW k \in 1 .. doc.size, k - 1 \in T PROVE k \in T
  BY <1>1, <1>3 DEF ListedBy
<1>4. doc.size \in T
  <2> HIDE DEF T
  <2>1. 0 .. doc.size \subseteq T
    BY <1>2, <1>3, InductionUpTo
  <2> QED
    BY <2>1
<1> QED
  BY <1>1, <1>4

\* A node behind all others comes last.
LEMMA InOrderNext ==
    ASSUME doc.size \in Nat, NEW n \in 1 .. doc.size, NEW S \in SUBSET (1 .. n - 1)
    PROVE  InOrder(S \union {n}) = Append(InOrder(S), n)
<1> DEFINE U == S \union {n}
<1>1. PICK f : ListedBy(f, doc.size, S) /\ InOrder(S) = f[doc.size]
  BY InOrderWalks
<1>2. PICK g : ListedBy(g, doc.size, U) /\ InOrder(U) = g[doc.size]
  BY InOrderWalks
<1> DEFINE T == {k \in 0 .. doc.size :
                    IF k < n THEN g[k] = f[k] ELSE g[k] = Append(f[k], n)}
<1>3. 0 \in T
  BY <1>1, <1>2 DEF ListedBy
<1>4. ASSUME NEW k \in 1 .. doc.size, k - 1 \in T PROVE k \in T
  <2>1. CASE k < n
    <3>1. g[k - 1] = f[k - 1] /\ (k \in U <=> k \in S)
      BY <1>4, <2>1
    <3>2. g[k] = f[k]
      BY <1>1, <1>2, <3>1 DEF ListedBy
    <3> QED
      BY <2>1, <3>2
  <2>2. CASE k = n
    <3>1. g[k - 1] = f[k - 1] /\ k \in U /\ k \notin S
      BY <1>4, <2>2
    <3>2. g[k] = Append(g[k - 1], k) /\ f[k] = f[k - 1]
      BY <1>1, <1>2, <3>1 DEF ListedBy
    <3> QED
      BY <2>2, <3>1, <3>2
  <2>3. CASE k > n
    <3>1. g[k - 1] = Append(f[k - 1], n) /\ k \notin U /\ k \notin S
      BY <1>4, <2>3
    <3>2. g[k] = g[k - 1] /\ f[k] = f[k - 1]
      BY <1>1, <1>2, <3>1 DEF ListedBy
    <3> QED
      BY <2>3, <3>1, <3>2
  <2> QED
    BY <2>1, <2>2, <2>3
<1>5. doc.size \in T
  <2> HIDE DEF T
  <2>1. 0 .. doc.size \subseteq T
    BY <1>3, <1>4, InductionUpTo
  <2> QED
    BY <2>1
<1>6. ~ (doc.size < n)
  OBVIOUS
<1>7. g[doc.size] = Append(f[doc.size], n)
  BY <1>5, <1>6
<1> QED
  BY <1>1, <1>2, <1>7

-----------------------------------------------------------------------------
(* The invariant.  Sequences of texts are followed through Segs: what is   *)
(* pending in a converter, as if its last segment were complete.           *)

Segment == [texts : Seq(Nat), before : Seq(Nat), language : BOOLEAN]
TextElement == [kind : {"text"}, segments : Seq(Segment), block : Nat]
MediaElement == [kind : {"image", "video"}, media : Nat]
Element == TextElement \union MediaElement
Converters ==
    [elements : Seq(Element), startIndex : Nat, segments : Seq(Segment), text : Seq(Nat),
     whole : Seq(Nat), language : BOOLEAN, crumbs : Seq(Nat), panicked : BOOLEAN]

LastSegment(c) == [texts |-> c.text, before |-> c.whole, language |-> c.language]
Segs(c) == IF c.text = <<>> THEN c.segments ELSE Append(c.segments, LastSegment(c))

\* The texts of a run that is pending, and the nodes in elements.
Pending(c) == SegmentTexts(Segs(c))
Said(elements) == Joined([i \in DOMAIN elements |-> ElementNodes(elements[i])])

Told == Texts \union Media
UpTo(S, p) == {n \in S : n <= p}

\* A node that ends the run of texts before it.
IsBreak(n) == Kind(n) \in {"br", "image"} \/ IsBlock(n)

\* The segments are a run of texts in block b.
IsRun(segs, b) ==
    /\ \A i \in DOMAIN segs :
          /\ segs[i].texts # <<>>
          /\ segs[i].before = InOrder({t \in Texts : t < segs[i].texts[1]})
    /\ SegmentTexts(segs) # <<>>
    /\ \A i \in DOMAIN SegmentTexts(segs) :
          SegmentTexts(segs)[i] \in Texts /\ BlockOf(SegmentTexts(segs)[i]) = b
    /\ \A i \in 1 .. Len(SegmentTexts(segs)) - 1 :
          ~Separated(SegmentTexts(segs)[i], SegmentTexts(segs)[i + 1])

LastText(e) == Last(SegmentTexts(e.segments))
FirstText(e) == SegmentTexts(e.segments)[1]
IsText(e) == e.kind = "text"

\* The elements are right when the first p nodes have been passed.
ElementsRight(elements, p) ==
    /\ \A i \in DOMAIN elements :
          /\ ElementNodes(elements[i]) # <<>>
          /\ ElementNodes(elements[i])[1] \in 1 .. p
          /\ IsText(elements[i]) =>
                /\ IsRun(elements[i].segments, elements[i].block)
                /\ LastText(elements[i]) <= p
    /\ \A i \in DOMAIN elements :
          i > 1 /\ IsText(elements[i - 1]) /\ IsText(elements[i])
             => Separated(LastText(elements[i - 1]), FirstText(elements[i]))

\* Does the converter end with a text element?
EndsInText(c) == c.elements # <<>> /\ IsText(Last(c.elements))

\* Everything passed is there, in document order.
Kept(c, p) ==
    /\ Said(c.elements) \o Pending(c) = InOrder(UpTo(Told, p))
    /\ c.whole \o c.text = InOrder(UpTo(Texts, p))
    /\ c.text # <<>> => c.whole = InOrder({t \in Texts : t < c.text[1]})

\* What is pending is a run in the innermost open block, which nothing has ended.
PendingRight(c, p) ==
    Segs(c) # <<>> =>
        /\ c.crumbs # <<>>
        /\ IsRun(Segs(c), Last(c.crumbs))
        /\ Last(Pending(c)) <= p
        /\ Pending(c)[1] \in 1 .. p
        /\ \A b \in Last(Pending(c)) + 1 .. p : ~IsBreak(b)
        /\ EndsInText(c) => Separated(LastText(Last(c.elements)), Pending(c)[1])

\* When nothing is pending the last text is separated from all that can follow.
Cut(c, p, open) ==
    Segs(c) = <<>> /\ EndsInText(c) =>
        \/ \E b \in LastText(Last(c.elements)) + 1 .. p : IsBreak(b)
        \/ BlockOf(LastText(Last(c.elements))) \notin open

\* The first k elements are those in front of the start element.
SplitAt(elements, k) ==
    /\ k \in 0 .. Len(elements)
    /\ \A i \in 1 .. Len(elements) : ElementNodes(elements[i])[1] < doc.start <=> i <= k

\* When the start element has been entered, the elements in front of it are
\* complete, and their number is the start index.
StartRight(c, p) ==
    doc.start # 0 /\ IsBlock(doc.start) =>
        /\ p < doc.start => c.startIndex = 0
        /\ p >= doc.start =>
              \E k \in Nat :
                  /\ SplitAt(c.elements, k)
                  /\ k > 0 => c.startIndex = k
                  /\ Segs(c) # <<>> => ~ (Pending(c)[1] < doc.start)

Good(c, p, open) ==
    /\ c \in Converters /\ ~c.panicked
    /\ open \subseteq 1 .. p /\ c.crumbs = InOrder(open)
    /\ Kept(c, p)
    /\ ElementsRight(c.elements, p)
    /\ PendingRight(c, p)
    /\ Cut(c, p, open)
    /\ StartRight(c, p)

\* The nodes that are above n, and those of them that are blocks.
Above(n) == Ancestors(doc.parent, n)
Blocks(S) == {b \in S : IsBlock(b)}

EndOf(n) == CHOOSE e : Ends(doc.parent, doc.size, n, e)

\* How far the converter is, and the blocks it is in.
Passed ==
    IF phase = "done" THEN doc.size
    ELSE IF phase = "head" \/ Kind(node) = "text" THEN node - 1
    ELSE EndOf(node)

OpenBlocks ==
    IF phase = "done" THEN {}
    ELSE IF phase = "head" THEN Blocks(Above(node) \ {node}) ELSE Blocks(Above(node))

\* The document is a tree whose inner nodes are elements.
Proper ==
    /\ IsTree(doc.parent, doc.size)
    /\ \A n \in 2 .. doc.size : doc.kind[n] \in AllKinds
    /\ \A n \in 2 .. doc.size : Parent(n) # 1 => Kind(Parent(n)) \in {"block", "inline"}
    /\ doc.start \in 0 .. doc.size
    /\ doc.start # 0 => doc.start # 1 /\ Kind(doc.start) # "text"

Walking ==
    /\ node \in Nodes
    /\ phase \in {"head", "tail", "done"}
    /\ depth = Cardinality(Above(node)) - 1

Inv == Proper /\ Walking /\ Good(conv, Passed, OpenBlocks)

-----------------------------------------------------------------------------
(* Texts of segments, nodes of elements.                                   *)

\* A function of the first numbers is a sequence.
LEMMA FunctionIsSeq ==
    ASSUME NEW V, NEW n \in Nat, NEW f \in [1 .. n -> V]
    PROVE  f \in Seq(V) /\ Len(f) = n
  OBVIOUS

\* One that goes one further has one more at its end.
LEMMA FunctionAppend ==
    ASSUME NEW V, NEW n \in Nat, NEW f \in [1 .. n -> V], NEW g \in [1 .. n + 1 -> V],
           \A i \in 1 .. n : g[i] = f[i]
    PROVE  g = Append(f, g[n + 1])
<1>1. f \in Seq(V) /\ Len(f) = n /\ g \in Seq(V) /\ Len(g) = n + 1 /\ g[n + 1] \in V
  BY FunctionIsSeq
<1> DEFINE h == Append(f, g[n + 1])
<1>2. /\ h \in Seq(V) /\ Len(h) = n + 1 /\ h[n + 1] = g[n + 1]
      /\ \A i \in 1 .. n : h[i] = f[i]
  BY <1>1, AppendProperties
<1> HIDE DEF h
<1>3. \A i \in 1 .. Len(g) : g[i] = h[i]
  BY <1>1, <1>2
<1>4. g = h
  BY <1>1, <1>2, <1>3, SeqEqual
<1> QED
  BY <1>4 DEF h

\* The texts of segments.
LEMMA SegmentTextsFacts ==
    /\ SegmentTexts(<<>>) = <<>>
    /\ \A segs \in Seq(Segment) :
          /\ SegmentTexts(segs) \in Seq(Nat)
          /\ \A s \in Segment :
                SegmentTexts(Append(segs, s)) = SegmentTexts(segs) \o s.texts
<1>1. SegmentTexts(<<>>) = <<>>
  <2>1. [i \in DOMAIN <<>> |-> <<>>[i].texts] = <<>>
    OBVIOUS
  <2> QED
    BY <2>1, JoinedNone DEF SegmentTexts
<1>2. ASSUME NEW segs \in Seq(Segment)
      PROVE  /\ [i \in DOMAIN segs |-> segs[i].texts] \in [1 .. Len(segs) -> Seq(Nat)]
             /\ [i \in DOMAIN segs |-> segs[i].texts] \in Seq(Seq(Nat))
             /\ Len(segs) \in Nat
  <2>1. Len(segs) \in Nat /\ DOMAIN segs = 1 .. Len(segs)
    BY LenProperties
  <2>2. ASSUME NEW i \in 1 .. Len(segs) PROVE segs[i].texts \in Seq(Nat)
    <3>1. segs[i] \in Segment
      BY ElementOfSeq
    <3> QED
      BY <3>1 DEF Segment
  <2>3. [i \in DOMAIN segs |-> segs[i].texts] \in [1 .. Len(segs) -> Seq(Nat)]
    BY <2>1, <2>2
  <2> QED
    BY <2>1, <2>3, FunctionIsSeq
<1>3. ASSUME NEW segs \in Seq(Segment) PROVE SegmentTexts(segs) \in Seq(Nat)
  BY <1>2, JoinedIn DEF SegmentTexts
<1>4. ASSUME NEW segs \in Seq(Segment), NEW s \in Segment
      PROVE  SegmentTexts(Append(segs, s)) = SegmentTexts(segs) \o s.texts
  <2> DEFINE f == [i \in DOMAIN segs |-> segs[i].texts]
             more == Append(segs, s)
             g == [i \in DOMAIN more |-> more[i].texts]
             n == Len(segs)
  <2>1. /\ more \in Seq(Segment) /\ Len(more) = n + 1 /\ more[n + 1] = s
        /\ n \in Nat /\ DOMAIN segs = 1 .. n /\ DOMAIN more = 1 .. n + 1
        /\ \A i \in 1 .. n : more[i] = segs[i]
    BY AppendFacts
  <2>2. f \in [1 .. n -> Seq(Nat)] /\ f \in Seq(Seq(Nat))
    BY <1>2
  <2> HIDE DEF more
  <2>3. g \in [1 .. Len(more) -> Seq(Nat)]
    BY <1>2, <2>1
  <2>4. g \in [1 .. n + 1 -> Seq(Nat)]
    BY <2>1, <2>3
  <2>5. \A i \in 1 .. n : g[i] = f[i]
    BY <2>1
  <2>6. g[n + 1] = s.texts /\ s.texts \in Seq(Nat)
    BY <2>1 DEF Segment
  <2>7. g = Append(f, s.texts)
    <3> HIDE DEF f, g, n
    <3> QED
      BY <2>1, <2>2, <2>4, <2>5, <2>6, FunctionAppend
  <2>8. Joined(g) = Joined(f) \o s.texts
    <3> HIDE DEF f, g
    <3> QED
      BY <2>2, <2>6, <2>7, JoinedAppend
  <2> QED
    BY <2>8 DEF SegmentTexts, more
<1> QED
  BY <1>1, <1>3, <1>4

\* The nodes of elements.
LEMMA SaidFacts ==
    /\ Said(<<>>) = <<>>
    /\ \A e \in Element : ElementNodes(e) \in Seq(Nat)
    /\ \A els \in Seq(Element) :
          /\ Said(els) \in Seq(Nat)
          /\ \A e \in Element : Said(Append(els, e)) = Said(els) \o ElementNodes(e)
<1>1. Said(<<>>) = <<>>
  <2>1. [i \in DOMAIN <<>> |-> ElementNodes(<<>>[i])] = <<>>
    OBVIOUS
  <2> QED
    BY <2>1, JoinedNone DEF Said
<1>e. ASSUME NEW e \in Element PROVE ElementNodes(e) \in Seq(Nat)
  <2>1. CASE e \in TextElement
    <3>1. e.kind = "text" /\ e.segments \in Seq(Segment)
      BY <2>1 DEF TextElement
    <3> QED
      BY <3>1, SegmentTextsFacts DEF ElementNodes
  <2>2. CASE e \in MediaElement
    <3>1. e.kind # "text" /\ e.media \in Nat
      BY <2>2 DEF MediaElement
    <3> QED
      BY <3>1 DEF ElementNodes
  <2> QED
    BY <2>1, <2>2 DEF Element
<1>2. ASSUME NEW els \in Seq(Element)
      PROVE  /\ [i \in DOMAIN els |-> ElementNodes(els[i])] \in [1 .. Len(els) -> Seq(Nat)]
             /\ [i \in DOMAIN els |-> ElementNodes(els[i])] \in Seq(Seq(Nat))
             /\ Len(els) \in Nat
  <2>1. Len(els) \in Nat /\ DOMAIN els = 1 .. Len(els)
    BY LenProperties
  <2>2. ASSUME NEW i \in 1 .. Len(els) PROVE ElementNodes(els[i]) \in Seq(Nat)
    <3>1. els[i] \in Element
      BY ElementOfSeq
    <3> QED
      BY <3>1, <1>e
  <2>3. [i \in DOMAIN els |-> ElementNodes(els[i])] \in [1 .. Len(els) -> Seq(Nat)]
    BY <2>1, <2>2
  <2> QED
    BY <2>1, <2>3, FunctionIsSeq
<1>3. ASSUME NEW els \in Seq(Element) PROVE Said(els) \in Seq(Nat)
  BY <1>2, JoinedIn DEF Said
<1>4. ASSUME NEW els \in Seq(Element), NEW e \in Element
      PROVE  Said(Append(els, e)) = Said(els) \o ElementNodes(e)
  <2> DEFINE f == [i \in DOMAIN els |-> ElementNodes(els[i])]
             more == Append(els, e)
             g == [i \in DOMAIN more |-> ElementNodes(more[i])]
             n == Len(els)
  <2>1. /\ more \in Seq(Element) /\ Len(more) = n + 1 /\ more[n + 1] = e
        /\ n \in Nat /\ DOMAIN els = 1 .. n /\ DOMAIN more = 1 .. n + 1
        /\ \A i \in 1 .. n : more[i] = els[i]
    BY AppendFacts
  <2>2. f \in [1 .. n -> Seq(Nat)] /\ f \in Seq(Seq(Nat))
    BY <1>2
  <2> HIDE DEF more
  <2>3. g \in [1 .. Len(more) -> Seq(Nat)]
    BY <1>2, <2>1
  <2>4. g \in [1 .. n + 1 -> Seq(Nat)]
    BY <2>1, <2>3
  <2>5. \A i \in 1 .. n : g[i] = f[i]
    BY <2>1
  <2>6. g[n + 1] = ElementNodes(e) /\ ElementNodes(e) \in Seq(Nat)
    BY <2>1, <1>e
  <2>7. g = Append(f, ElementNodes(e))
    <3> HIDE DEF f, g, n
    <3>1. g = Append(f, g[n + 1])
      BY <2>1, <2>2, <2>4, <2>5, FunctionAppend
    <3> QED
      BY <2>6, <3>1
  <2>8. Joined(g) = Joined(f) \o ElementNodes(e)
    <3> HIDE DEF f, g
    <3> QED
      BY <2>2, <2>6, <2>7, JoinedAppend
  <2> QED
    BY <2>8 DEF Said, more
<1> QED
  BY <1>1, <1>e, <1>3, <1>4

-----------------------------------------------------------------------------
(* What the operations of the converter do.                                *)

InStart(c) == doc.start # 0 /\ c.crumbs # <<>> /\ Last(c.crumbs) = doc.start

\* The elements when what is pending has become one.
Flushed(c) ==
    IF Segs(c) = <<>> THEN c.elements
    ELSE Append(c.elements, [kind |-> "text", segments |-> Segs(c),
                             block |-> IF c.crumbs = <<>> THEN 0 ELSE Last(c.crumbs)])

\* What is pending, and the elements after a flush.
LEMMA SegsIn ==
    ASSUME NEW c \in Converters
    PROVE  /\ LastSegment(c) \in Segment /\ Segs(c) \in Seq(Segment)
           /\ Pending(c) \in Seq(Nat)
           /\ Flushed(c) \in Seq(Element)
           /\ Segs(c) = <<>> => c.segments = <<>> /\ c.text = <<>> /\ Pending(c) = <<>>
           /\ Segs(c) # <<>> => Last(Flushed(c)).kind = "text" /\ Len(Flushed(c)) > 0
<1>1. LastSegment(c) \in Segment
  BY DEF LastSegment, Segment, Converters
<1>2. c.segments \in Seq(Segment) /\ c.elements \in Seq(Element) /\ c.crumbs \in Seq(Nat)
  BY DEF Converters
<1>3. Append(c.segments, LastSegment(c)) \in Seq(Segment)
      /\ Append(c.segments, LastSegment(c)) # <<>>
  BY <1>1, <1>2, AppendFacts
<1>4. Segs(c) \in Seq(Segment) /\ (Segs(c) = <<>> => c.segments = <<>> /\ c.text = <<>>)
  BY <1>2, <1>3 DEF Segs
<1>5. Pending(c) \in Seq(Nat) /\ (Segs(c) = <<>> => Pending(c) = <<>>)
  BY <1>4, SegmentTextsFacts DEF Pending
<1>6. (IF c.crumbs = <<>> THEN 0 ELSE Last(c.crumbs)) \in Nat
  <2>1. c.crumbs # <<>> => Len(c.crumbs) \in 1 .. Len(c.crumbs)
    BY <1>2, EmptySeq
  <2>2. c.crumbs # <<>> => Last(c.crumbs) \in Nat
    BY <1>2, <2>1, ElementOfSeq DEF Last
  <2> QED
    BY <2>2
<1> DEFINE e == [kind |-> "text", segments |-> Segs(c),
                 block |-> IF c.crumbs = <<>> THEN 0 ELSE Last(c.crumbs)]
<1>7. e \in Element /\ e.kind = "text"
  BY <1>4, <1>6 DEF Element, TextElement
<1> HIDE DEF e
<1>8. /\ Append(c.elements, e) \in Seq(Element) /\ Last(Append(c.elements, e)) = e
      /\ Len(Append(c.elements, e)) > 0
  BY <1>2, <1>7, AppendFacts
<1>9. Flushed(c) = IF Segs(c) = <<>> THEN c.elements ELSE Append(c.elements, e)
  BY DEF Flushed, e
<1> QED
  BY <1>1, <1>2, <1>4, <1>5, <1>7, <1>8, <1>9

\* The segment that is under way is complete.
LEMMA FlushSegmentDoes ==
    ASSUME NEW c \in Converters
    PROVE  /\ FlushSegment(c) \in Converters
           /\ FlushSegment(c).elements = c.elements
           /\ FlushSegment(c).startIndex = c.startIndex
           /\ FlushSegment(c).crumbs = c.crumbs
           /\ FlushSegment(c).panicked = c.panicked
           /\ FlushSegment(c).language = c.language
           /\ FlushSegment(c).segments = Segs(c)
           /\ FlushSegment(c).whole = c.whole \o c.text
           /\ FlushSegment(c).text = <<>>
<1>1. Segs(c) \in Seq(Segment)
  BY SegsIn
<1>2. c.whole \o c.text \in Seq(Nat) /\ <<>> \in Seq(Nat)
  <2>1. c.whole \in Seq(Nat) /\ c.text \in Seq(Nat)
    BY DEF Converters
  <2> QED
    BY <2>1, ConcatProperties, EmptySeq
<1>3. FlushSegment(c) = [c EXCEPT !.segments = Segs(c), !.whole = c.whole \o c.text,
                                  !.text = <<>>]
  BY DEF FlushSegment, Segs, LastSegment
<1> QED
  BY <1>1, <1>2, <1>3 DEF Converters

\* Everything that is pending becomes an element, in the innermost block.
LEMMA FlushTextDoes ==
    ASSUME NEW c \in Converters
    PROVE  /\ FlushText(c) \in Converters
           /\ FlushText(c).elements = Flushed(c)
           /\ FlushText(c).startIndex =
                 IF c.startIndex = 0 /\ InStart(c) THEN Len(c.elements) ELSE c.startIndex
           /\ FlushText(c).crumbs = c.crumbs
           /\ FlushText(c).panicked = c.panicked
           /\ FlushText(c).segments = <<>>
           /\ FlushText(c).whole = c.whole \o c.text
           /\ FlushText(c).text = <<>>
<1> DEFINE d == FlushSegment(c)
           s == IF c.startIndex = 0 /\ InStart(c) THEN Len(c.elements) ELSE c.startIndex
           m == MarkStart(d)
<1>1. /\ d \in Converters /\ d.elements = c.elements /\ d.startIndex = c.startIndex
      /\ d.crumbs = c.crumbs /\ d.panicked = c.panicked /\ d.segments = Segs(c)
      /\ d.whole = c.whole \o c.text /\ d.text = <<>>
  BY FlushSegmentDoes
<1>2. s \in Nat
  <2>1. Len(c.elements) \in Nat /\ c.startIndex \in Nat
    BY LenProperties DEF Converters
  <2> QED
    BY <2>1
<1> HIDE DEF d
<1>3. m = [d EXCEPT !.startIndex = s]
  BY <1>1 DEF MarkStart, InStart
<1> HIDE DEF s
<1>4. /\ m \in Converters /\ m.elements = c.elements /\ m.startIndex = s
      /\ m.crumbs = c.crumbs /\ m.panicked = c.panicked /\ m.segments = Segs(c)
      /\ m.whole = c.whole \o c.text /\ m.text = <<>>
  BY <1>1, <1>2, <1>3 DEF Converters
<1> HIDE DEF m
<1>5. Flushed(c) \in Seq(Element)
  BY SegsIn
<1>6. CASE Segs(c) = <<>>
  <2>1. AddText(m) = m
    BY <1>4, <1>6 DEF AddText
  <2>2. FlushText(c) = m
    BY <2>1 DEF FlushText, m, d
  <2> QED
    BY <1>4, <1>6, <2>2 DEF Flushed, s
<1>7. CASE Segs(c) # <<>>
  <2>1. AddText(m) = [m EXCEPT !.elements = Flushed(c), !.segments = <<>>]
    BY <1>4, <1>7 DEF AddText, Flushed
  <2>2. FlushText(c) = [m EXCEPT !.elements = Flushed(c), !.segments = <<>>]
    BY <2>1 DEF FlushText, m, d
  <2>3. <<>> \in Seq(Segment)
    BY EmptySeq
  <2> QED
    BY <1>4, <1>5, <2>2, <2>3 DEF Converters, s
<1> QED
  BY <1>6, <1>7

\* A text is added behind what is pending.
LEMMA TextTailDoes ==
    ASSUME NEW c \in Converters, NEW n \in Nat
    PROVE  /\ TextTail(c, n) \in Converters
           /\ TextTail(c, n).elements = c.elements
           /\ TextTail(c, n).startIndex = c.startIndex
           /\ TextTail(c, n).crumbs = c.crumbs
           /\ TextTail(c, n).panicked = c.panicked
           /\ TextTail(c, n).text # <<>>
           /\ \/ /\ TextTail(c, n).segments = c.segments
                 /\ TextTail(c, n).whole = c.whole
                 /\ TextTail(c, n).text = Append(c.text, n)
                 /\ TextTail(c, n).language = c.language
              \/ /\ TextTail(c, n).segments = Segs(c)
                 /\ TextTail(c, n).whole = c.whole \o c.text
                 /\ TextTail(c, n).text = <<n>>
<1> DEFINE same == ~c.language /\ ~HasLanguage(n)
           f == FlushSegment(c)
           d == IF same THEN c ELSE [f EXCEPT !.language = HasLanguage(n)]
<1>1. /\ f \in Converters /\ f.elements = c.elements /\ f.startIndex = c.startIndex
      /\ f.crumbs = c.crumbs /\ f.panicked = c.panicked /\ f.segments = Segs(c)
      /\ f.whole = c.whole \o c.text /\ f.text = <<>>
  BY FlushSegmentDoes
<1>2. HasLanguage(n) \in BOOLEAN
  BY DEF HasLanguage
<1> HIDE DEF f
<1>3. /\ d \in Converters /\ d.elements = c.elements /\ d.startIndex = c.startIndex
      /\ d.crumbs = c.crumbs /\ d.panicked = c.panicked
      /\ \/ d = c
         \/ d.segments = Segs(c) /\ d.whole = c.whole \o c.text /\ d.text = <<>>
  <2>1. CASE same
    BY <2>1
  <2>2. CASE ~same
    BY <1>1, <1>2, <2>2 DEF Converters
  <2> QED
    BY <2>1, <2>2
<1>4. TextTail(c, n) = [d EXCEPT !.text = Append(d.text, n)]
  BY DEF TextTail, f
<1> HIDE DEF d
<1>5. Append(d.text, n) \in Seq(Nat) /\ Append(d.text, n) # <<>>
  <2>1. d.text \in Seq(Nat)
    BY <1>3 DEF Converters
  <2> QED
    BY <2>1, AppendFacts
<1>6. d.text = <<>> => Append(d.text, n) = <<n>>
  OBVIOUS
<1>7. /\ TextTail(c, n) \in Converters /\ TextTail(c, n).text = Append(d.text, n)
      /\ TextTail(c, n).elements = d.elements /\ TextTail(c, n).startIndex = d.startIndex
      /\ TextTail(c, n).crumbs = d.crumbs /\ TextTail(c, n).panicked = d.panicked
      /\ TextTail(c, n).segments = d.segments /\ TextTail(c, n).whole = d.whole
      /\ TextTail(c, n).language = d.language
  BY <1>3, <1>4, <1>5 DEF Converters
<1> QED
  BY <1>3, <1>5, <1>6, <1>7

\* A text is then the last one pending, whether it starts a segment or not.
LEMMA TextTailAppends ==
    ASSUME NEW c \in Converters, NEW n \in Nat
    PROVE  /\ Pending(TextTail(c, n)) = Append(Pending(c), n)
           /\ TextTail(c, n).whole \o TextTail(c, n).text = Append(c.whole \o c.text, n)
<1> DEFINE d == TextTail(c, n)
<1>1. /\ d \in Converters /\ d.text # <<>>
      /\ \/ d.segments = c.segments /\ d.whole = c.whole /\ d.text = Append(c.text, n)
         \/ d.segments = Segs(c) /\ d.whole = c.whole \o c.text /\ d.text = <<n>>
  BY TextTailDoes
<1> HIDE DEF d
<1>2. /\ c.segments \in Seq(Segment) /\ c.text \in Seq(Nat) /\ c.whole \in Seq(Nat)
      /\ d.segments \in Seq(Segment)
  BY <1>1 DEF Converters
<1>3. LastSegment(d) \in Segment /\ LastSegment(c) \in Segment /\ Segs(c) \in Seq(Segment)
      /\ Pending(c) \in Seq(Nat)
  BY <1>1, SegsIn
<1>4. Pending(d) = SegmentTexts(d.segments) \o d.text
  <2>1. Segs(d) = Append(d.segments, LastSegment(d)) /\ LastSegment(d).texts = d.text
    BY <1>1 DEF Segs, LastSegment
  <2> QED
    BY <1>2, <1>3, <2>1, SegmentTextsFacts DEF Pending
<1>5. Pending(c) = SegmentTexts(c.segments) \o c.text
  <2>1. SegmentTexts(c.segments) \in Seq(Nat)
    BY <1>2, SegmentTextsFacts
  <2>2. CASE c.text = <<>>
    <3>1. SegmentTexts(c.segments) \o c.text = SegmentTexts(c.segments)
      BY <2>1, <2>2, ConcatEmptySeq
    <3> QED
      BY <2>2, <3>1 DEF Pending, Segs
  <2>3. CASE c.text # <<>>
    <3>1. Segs(c) = Append(c.segments, LastSegment(c)) /\ LastSegment(c).texts = c.text
      BY <2>3 DEF Segs, LastSegment
    <3> QED
      BY <1>2, <1>3, <3>1, SegmentTextsFacts DEF Pending
  <2> QED
    BY <2>2, <2>3
<1>6. SegmentTexts(c.segments) \in Seq(Nat) /\ c.whole \o c.text \in Seq(Nat)
  BY <1>2, SegmentTextsFacts, ConcatProperties
<1>7. CASE d.segments = c.segments /\ d.whole = c.whole /\ d.text = Append(c.text, n)
  <2>0. ASSUME NEW s \in Seq(Nat), NEW t \in Seq(Nat)
        PROVE  s \o Append(t, n) = Append(s \o t, n)
    BY ConcatAppend
  <2>1. SegmentTexts(c.segments) \o Append(c.text, n)
           = Append(SegmentTexts(c.segments) \o c.text, n)
    BY <1>2, <1>6, <2>0, Zenon
  <2>2. c.whole \o Append(c.text, n) = Append(c.whole \o c.text, n)
    BY <1>2, <2>0, Zenon
  <2> QED
    BY <1>4, <1>5, <1>7, <2>1, <2>2 DEF d
<1>8. CASE d.segments = Segs(c) /\ d.whole = c.whole \o c.text /\ d.text = <<n>>
  <2>1. Pending(c) \o <<n>> = Append(Pending(c), n)
    BY <1>3, AppendIsConcat
  <2>2. (c.whole \o c.text) \o <<n>> = Append(c.whole \o c.text, n)
    BY <1>6, AppendIsConcat
  <2> QED
    BY <1>4, <1>8, <2>1, <2>2 DEF d, Pending
<1> QED
  BY <1>1, <1>7, <1>8

-----------------------------------------------------------------------------
(* Blocks.                                                                 *)

\* Of some of the first naturals one is the greatest.
LEMMA GreatestOf ==
    ASSUME NEW n \in Nat, NEW S \in SUBSET (1 .. n), S # {}
    PROVE  \E m \in S : \A k \in S : k <= m
<1> DEFINE T == {n - k : k \in S}
<1>1. T \subseteq Nat /\ T # {}
  <2>1. \A k \in S : k \in 1 .. n
    OBVIOUS
  <2>2. \A k \in S : n - k \in Nat
    BY <2>1
  <2> QED
    BY <2>2
<1>2. PICK m \in T : \A k \in T : m <= k
  <2> HIDE DEF T
  <2> QED
    BY <1>1, LeastOf
<1>3. PICK a \in S : m = n - a
  BY <1>2
<1>4. ASSUME NEW k \in S PROVE k <= a
  <2>1. n - a <= n - k
    BY <1>2, <1>3
  <2> QED
    BY <2>1
<1> QED
  BY <1>4

\* The greatest of some nodes is the last in their list.
LEMMA InOrderLast ==
    ASSUME doc.size \in Nat, NEW S \in SUBSET (1 .. doc.size), NEW m \in S,
           \A k \in S : k <= m
    PROVE  /\ InOrder(S) # <<>> /\ Last(InOrder(S)) = m
           /\ Front(InOrder(S)) = InOrder(S \ {m})
<1> DEFINE R == S \ {m}
<1>1. R \in SUBSET (1 .. m - 1) /\ m \in 1 .. doc.size /\ m \in Nat
  OBVIOUS
<1>2. InOrder(R) \in Seq(Nat)
  BY InOrderIn
<1>3. InOrder(R \union {m}) = Append(InOrder(R), m)
  <2> HIDE DEF R
  <2> QED
    BY <1>1, InOrderNext
<1>4. R \union {m} = S
  OBVIOUS
<1> HIDE DEF R
<1>5. InOrder(S) = Append(InOrder(R), m)
  BY <1>3, <1>4
<1> QED
  BY <1>1, <1>2, <1>5, AppendFacts DEF R

\* What the document is.
LEMMA ProperFacts ==
    ASSUME Proper
    PROVE  /\ doc.size \in Nat \ {0} /\ Nodes = 1 .. doc.size /\ 1 \in Nodes
           /\ Rooted(doc.parent, doc.size)
           /\ IsBlock(1) /\ Kind(1) = "block"
           /\ \A n \in Nodes :
                 /\ Kind(n) \in AllKinds
                 /\ IsBreak(n) <=> Kind(n) \notin {"inline", "text"}
                 /\ n # 1 => Parent(n) \in 1 .. n - 1 /\ Parent(n) \in Nodes
                 /\ n \in Above(n) /\ Above(n) \subseteq 1 .. n
<1>1. doc.size \in Nat \ {0} /\ Rooted(doc.parent, doc.size)
  BY DEF Proper, IsTree
<1>2. ASSUME NEW n \in 1 .. doc.size PROVE Kind(n) \in AllKinds
  <2>1. n # 1 => n \in 2 .. doc.size
    BY <1>1
  <2> QED
    BY <2>1 DEF Kind, Proper, AllKinds
<1>3. ASSUME NEW n \in 1 .. doc.size PROVE IsBreak(n) <=> Kind(n) \notin {"inline", "text"}
  BY <1>2 DEF IsBreak, IsBlock, AllKinds
<1>4. ASSUME NEW n \in 1 .. doc.size, n # 1
      PROVE  Parent(n) \in 1 .. n - 1 /\ Parent(n) \in 1 .. doc.size
  <2>1. n \in 2 .. doc.size
    BY <1>1, <1>4
  <2>2. doc.parent[n] \in 1 .. n - 1
    BY <1>1, <2>1 DEF Rooted
  <2>3. Parent(n) = doc.parent[n]
    BY DEF Parent
  <2> HIDE DEF Parent
  <2> QED
    BY <1>1, <2>1, <2>2, <2>3
<1>5. Kind(1) = "block" /\ IsBlock(1)
  BY DEF Kind, IsBlock
<1>6. ASSUME NEW n \in 1 .. doc.size PROVE n \in Above(n) /\ Above(n) \subseteq 1 .. n
  BY AncestorsIn DEF Above, Proper
<1> QED
  BY <1>1, <1>2, <1>3, <1>4, <1>5, <1>6 DEF Nodes

\* The blocks a node is in are open where it is, with the innermost one last.
LEMMA BlockOfIs ==
    ASSUME Proper, NEW n \in Nodes
    PROVE  /\ BlockOf(n) \in Blocks(Above(n))
           /\ Blocks(Above(n)) \subseteq 1 .. n
           /\ InOrder(Blocks(Above(n))) # <<>>
           /\ Last(InOrder(Blocks(Above(n)))) = BlockOf(n)
           /\ Front(InOrder(Blocks(Above(n)))) = InOrder(Blocks(Above(n)) \ {BlockOf(n)})
<1> DEFINE B == Blocks(Above(n))
<1>1. n \in Nat /\ n \in 1 .. doc.size /\ doc.size \in Nat
  BY ProperFacts
<1>2. 1 \in Above(n) /\ Above(n) \subseteq 1 .. n
  BY <1>1, AncestorsIn DEF Above, Proper
<1>3. B # {} /\ B \in SUBSET (1 .. n)
  BY <1>2, ProperFacts DEF Blocks
<1>4. BlockOf(n) = CHOOSE b \in B : \A a \in B : a <= b
  BY DEF BlockOf, Blocks, Above
<1> HIDE DEF B
<1>5. \E b \in B : \A a \in B : a <= b
  BY <1>1, <1>3, GreatestOf
<1>6. BlockOf(n) \in B /\ \A a \in B : a <= BlockOf(n)
  BY <1>4, <1>5
<1>7. B \in SUBSET (1 .. doc.size)
  BY <1>1, <1>3
<1>8. /\ InOrder(B) # <<>> /\ Last(InOrder(B)) = BlockOf(n)
      /\ Front(InOrder(B)) = InOrder(B \ {BlockOf(n)})
  BY <1>1, <1>6, <1>7, InOrderLast
<1> QED
  BY <1>3, <1>6, <1>8 DEF B

\* The innermost block of a block is the block itself.
LEMMA BlockOfBlock ==
    ASSUME Proper, NEW n \in Nodes, IsBlock(n) PROVE BlockOf(n) = n
<1> DEFINE B == Blocks(Above(n))
<1>1. n \in Nat /\ n \in B /\ B \subseteq 1 .. n
  BY ProperFacts DEF Blocks
<1>2. BlockOf(n) = CHOOSE b \in B : \A a \in B : a <= b
  BY DEF BlockOf, Blocks, Above
<1> HIDE DEF B
<1>3. \A a \in B : a <= n
  BY <1>1
<1>4. \A b \in B : (\A a \in B : a <= b) => b = n
  <2> SUFFICES ASSUME NEW b \in B, \A a \in B : a <= b PROVE b = n
    OBVIOUS
  <2>1. n <= b /\ b <= n /\ b \in Nat
    BY <1>1, <1>3
  <2> QED
    BY <1>1, <2>1
<1>5. \E b \in B : \A a \in B : a <= b
  BY <1>1, <1>3
<1> QED
  BY <1>2, <1>4, <1>5

\* Nodes up to the next one.
LEMMA UpToNext ==
    ASSUME Proper, NEW n \in Nodes, NEW S \in SUBSET Nodes
    PROVE  /\ n - 1 \in Nat
           /\ UpTo(S, n - 1) = {t \in S : t < n}
           /\ n \notin S => InOrder(UpTo(S, n)) = InOrder(UpTo(S, n - 1))
           /\ n \in S => InOrder(UpTo(S, n)) = Append(InOrder(UpTo(S, n - 1)), n)
<1>1. /\ doc.size \in Nat /\ n \in 1 .. doc.size /\ n \in Int
      /\ \A t \in S : t \in Int /\ t >= 1 /\ t <= doc.size
  <2>1. doc.size \in Nat /\ Nodes = 1 .. doc.size
    BY ProperFacts
  <2>2. \A t \in S : t \in 1 .. doc.size
    BY <2>1
  <2> QED
    BY <2>1, <2>2
<1>2. UpTo(S, n - 1) = {t \in S : t < n} /\ n - 1 \in Nat
  <2>1. \A t \in S : t <= n - 1 <=> t < n
    BY <1>1
  <2>2. UpTo(S, n - 1) = {t \in S : t < n}
    BY <2>1 DEF UpTo
  <2>3. n - 1 \in Nat
    BY <1>1
  <2> QED
    BY <2>2, <2>3
<1>3. ASSUME n \notin S PROVE UpTo(S, n) = UpTo(S, n - 1)
  <2>1. \A t \in S : t <= n - 1 <=> t <= n
    BY <1>1, <1>3
  <2> QED
    BY <2>1 DEF UpTo
<1>4. ASSUME n \in S PROVE UpTo(S, n) = UpTo(S, n - 1) \union {n}
  <2>1. \A t \in S : t <= n <=> t <= n - 1 \/ t = n
    BY <1>1
  <2> QED
    BY <1>4, <2>1 DEF UpTo
<1>5. UpTo(S, n - 1) \in SUBSET (1 .. n - 1)
  <2>1. \A t \in S : t <= n - 1 => t \in 1 .. n - 1
    BY <1>1
  <2> QED
    BY <2>1 DEF UpTo
<1>6. InOrder(UpTo(S, n - 1) \union {n}) = Append(InOrder(UpTo(S, n - 1)), n)
  BY <1>1, <1>5, InOrderNext
<1> QED
  BY <1>2, <1>3, <1>4, <1>6

-----------------------------------------------------------------------------
(* Elements.                                                               *)

\* Elements stay right when more nodes are passed.
LEMMA ElementsRightLater ==
    ASSUME NEW els, NEW p \in Nat, NEW q \in Nat, p <= q, ElementsRight(els, p),
           els \in Seq(Element)
    PROVE  ElementsRight(els, q)
<1>1. ASSUME NEW i \in DOMAIN els
      PROVE  /\ ElementNodes(els[i]) # <<>> /\ ElementNodes(els[i])[1] \in 1 .. q
             /\ IsText(els[i]) => /\ IsRun(els[i].segments, els[i].block)
                                  /\ LastText(els[i]) <= q
  <2>1. /\ ElementNodes(els[i]) # <<>> /\ ElementNodes(els[i])[1] \in 1 .. p
        /\ IsText(els[i]) => /\ IsRun(els[i].segments, els[i].block)
                             /\ LastText(els[i]) <= p
    BY DEF ElementsRight
  <2>2. IsText(els[i]) => LastText(els[i]) \in Nat
    <3>1. els[i] \in Element
      <4>1. i \in 1 .. Len(els)
        BY LenProperties
      <4> QED
        BY <4>1, ElementOfSeq
    <3>2. els[i].kind = "text" => ElementNodes(els[i]) = SegmentTexts(els[i].segments)
      BY DEF ElementNodes
    <3>3. els[i].kind = "text" => SegmentTexts(els[i].segments) \in Seq(Nat)
      BY <3>1, <3>2, SaidFacts
    <3>4. ASSUME NEW s \in Seq(Nat), s # <<>> PROVE Last(s) \in Nat
      <4>1. Len(s) \in 1 .. Len(s)
        BY <3>4, EmptySeq, LenProperties
      <4> QED
        BY <4>1, ElementOfSeq DEF Last
    <3> QED
      BY <2>1, <3>2, <3>3, <3>4 DEF IsText, LastText
  <2>3. IsText(els[i]) => LastText(els[i]) <= q
    BY <2>1, <2>2
  <2>4. ElementNodes(els[i])[1] \in 1 .. q
    BY <2>1
  <2> QED
    BY <2>1, <2>3, <2>4
<1>2. \A i \in DOMAIN els :
          i > 1 /\ IsText(els[i - 1]) /\ IsText(els[i])
             => Separated(LastText(els[i - 1]), FirstText(els[i]))
  BY DEF ElementsRight
<1> QED
  BY <1>1, <1>2 DEF ElementsRight

\* One more element is right behind right ones.
LEMMA OneMoreElement ==
    ASSUME NEW els \in Seq(Element), NEW e \in Element, NEW p, ElementsRight(els, p),
           ElementNodes(e) # <<>>, ElementNodes(e)[1] \in 1 .. p,
           IsText(e) => IsRun(e.segments, e.block) /\ LastText(e) <= p,
           els # <<>> /\ IsText(Last(els)) /\ IsText(e)
              => Separated(LastText(Last(els)), FirstText(e))
    PROVE  ElementsRight(Append(els, e), p)
<1> DEFINE more == Append(els, e)
           n == Len(els)
<1>1. /\ more[n + 1] = e /\ \A i \in 1 .. n : more[i] = els[i]
      /\ n \in Nat /\ DOMAIN els = 1 .. n /\ DOMAIN more = 1 .. n + 1
  BY AppendFacts
<1>2. n > 0 => els # <<>> /\ Last(els) = els[n]
  BY <1>1 DEF Last
<1> HIDE DEF more, n
<1>3. ASSUME NEW i \in DOMAIN more
      PROVE  /\ ElementNodes(more[i]) # <<>> /\ ElementNodes(more[i])[1] \in 1 .. p
             /\ IsText(more[i]) => /\ IsRun(more[i].segments, more[i].block)
                                   /\ LastText(more[i]) <= p
  <2>1. CASE i = n + 1
    BY <1>1, <2>1
  <2>2. CASE i # n + 1
    <3>1. i \in 1 .. n /\ i \in DOMAIN els /\ more[i] = els[i]
      BY <1>1, <2>2
    <3> QED
      BY <3>1 DEF ElementsRight
  <2> QED
    BY <2>1, <2>2
<1>4. ASSUME NEW i \in DOMAIN more, i > 1, IsText(more[i - 1]), IsText(more[i])
      PROVE  Separated(LastText(more[i - 1]), FirstText(more[i]))
  <2>1. CASE i = n + 1
    <3>1. n > 0 /\ i - 1 = n /\ n \in 1 .. n
      BY <1>1, <1>4, <2>1
    <3>2. more[i] = e /\ more[i - 1] = Last(els) /\ els # <<>>
      BY <1>1, <1>2, <2>1, <3>1
    <3> QED
      BY <1>4, <3>2
  <2>2. CASE i # n + 1
    <3>1. i \in 1 .. n /\ i \in DOMAIN els /\ i - 1 \in 1 .. n
      BY <1>1, <1>4, <2>2
    <3>2. more[i] = els[i] /\ more[i - 1] = els[i - 1]
      BY <1>1, <3>1
    <3> QED
      BY <1>4, <3>1, <3>2 DEF ElementsRight
  <2> QED
    BY <2>1, <2>2
<1>5. ElementsRight(more, p)
  BY <1>3, <1>4 DEF ElementsRight
<1> QED
  BY <1>5 DEF more

\* The element that a flush adds.
LEMMA FlushedElement ==
    ASSUME NEW c \in Converters, Segs(c) # <<>>
    PROVE  \E e \in Element :
              /\ Flushed(c) = Append(c.elements, e)
              /\ IsText(e) /\ e.segments = Segs(c)
              /\ c.crumbs # <<>> => e.block = Last(c.crumbs)
              /\ ElementNodes(e) = Pending(c)
              /\ LastText(e) = Last(Pending(c)) /\ FirstText(e) = Pending(c)[1]
              /\ Len(Flushed(c)) = Len(c.elements) + 1 /\ Last(Flushed(c)) = e
              /\ Flushed(c)[Len(c.elements) + 1] = e
              /\ \A i \in 1 .. Len(c.elements) : Flushed(c)[i] = c.elements[i]
<1> DEFINE e == [kind |-> "text", segments |-> Segs(c),
                 block |-> IF c.crumbs = <<>> THEN 0 ELSE Last(c.crumbs)]
<1>1. Segs(c) \in Seq(Segment) /\ c.elements \in Seq(Element) /\ c.crumbs \in Seq(Nat)
  BY SegsIn DEF Converters
<1>2. c.crumbs # <<>> => Last(c.crumbs) \in Nat
  <2>1. c.crumbs # <<>> => Len(c.crumbs) \in 1 .. Len(c.crumbs)
    BY <1>1, EmptySeq
  <2> QED
    BY <1>1, <2>1, ElementOfSeq DEF Last
<1>3. e \in Element
  BY <1>1, <1>2 DEF Element, TextElement
<1>4. /\ e.kind = "text" /\ e.segments = Segs(c)
      /\ c.crumbs # <<>> => e.block = Last(c.crumbs)
  OBVIOUS
<1>5. Flushed(c) = Append(c.elements, e)
  BY DEF Flushed
<1> HIDE DEF e
<1>6. /\ Len(Append(c.elements, e)) = Len(c.elements) + 1 /\ Last(Append(c.elements, e)) = e
      /\ Append(c.elements, e)[Len(c.elements) + 1] = e
      /\ \A i \in 1 .. Len(c.elements) : Append(c.elements, e)[i] = c.elements[i]
  BY <1>1, <1>3, AppendFacts
<1>7. /\ ElementNodes(e) = Pending(c)
      /\ LastText(e) = Last(Pending(c)) /\ FirstText(e) = Pending(c)[1] /\ IsText(e)
  BY <1>4 DEF ElementNodes, Pending, LastText, FirstText, IsText
<1> QED
  BY <1>3, <1>4, <1>5, <1>6, <1>7

\* The elements after a flush are right.
LEMMA FlushedRight ==
    ASSUME NEW c \in Converters, NEW p, ElementsRight(c.elements, p), PendingRight(c, p)
    PROVE  ElementsRight(Flushed(c), p)
<1>1. CASE Segs(c) = <<>>
  BY <1>1 DEF Flushed
<1>2. CASE Segs(c) # <<>>
  <2>1. PICK e \in Element :
              /\ Flushed(c) = Append(c.elements, e)
              /\ IsText(e) /\ e.segments = Segs(c)
              /\ c.crumbs # <<>> => e.block = Last(c.crumbs)
              /\ ElementNodes(e) = Pending(c)
              /\ LastText(e) = Last(Pending(c)) /\ FirstText(e) = Pending(c)[1]
    BY <1>2, FlushedElement
  <2>2. /\ IsRun(e.segments, e.block) /\ LastText(e) <= p /\ ElementNodes(e)[1] \in 1 .. p
        /\ EndsInText(c) => Separated(LastText(Last(c.elements)), FirstText(e))
    BY <1>2, <2>1 DEF PendingRight
  <2>3. ElementNodes(e) # <<>>
    BY <2>1, <2>2 DEF IsRun, Pending
  <2>4. c.elements \in Seq(Element)
    BY DEF Converters
  <2>5. ElementsRight(Append(c.elements, e), p)
    BY <2>2, <2>3, <2>4, OneMoreElement DEF EndsInText
  <2> QED
    BY <2>1, <2>5
<1> QED
  BY <1>1, <1>2

\* A flush only moves what is pending into the elements.
LEMMA SaidFlushed ==
    ASSUME NEW c \in Converters
    PROVE  Said(Flushed(c)) = Said(c.elements) \o Pending(c)
<1>1. c.elements \in Seq(Element) /\ Said(c.elements) \in Seq(Nat)
  BY SaidFacts DEF Converters
<1>2. CASE Segs(c) = <<>>
  <2>1. Pending(c) = <<>>
    BY <1>2, SegsIn
  <2>2. Said(c.elements) \o <<>> = Said(c.elements)
    BY <1>1, ConcatEmptySeq
  <2> QED
    BY <1>2, <2>1, <2>2 DEF Flushed
<1>3. CASE Segs(c) # <<>>
  <2>1. PICK e \in Element : Flushed(c) = Append(c.elements, e) /\ ElementNodes(e) = Pending(c)
    BY <1>3, FlushedElement
  <2> QED
    BY <1>1, <2>1, SaidFacts
<1> QED
  BY <1>2, <1>3

\* The start index after a flush.
StartIndex(c) == IF c.startIndex = 0 /\ InStart(c) THEN Len(c.elements) ELSE c.startIndex

\* The elements that are in front of the start element are as many as before,
\* and the start index is not changed.
LEMMA StartFlushed ==
    ASSUME NEW c \in Converters, NEW p \in Nat, StartRight(c, p), doc.start \in Nat,
           c.crumbs # <<>> => Last(c.crumbs) \in 1 .. p,
           doc.start # 0, IsBlock(doc.start)
    PROVE  /\ p < doc.start => StartIndex(c) = 0
           /\ p >= doc.start =>
                 \E k \in Nat : SplitAt(Flushed(c), k) /\ (k > 0 => StartIndex(c) = k)
<1>1. ASSUME p < doc.start PROVE StartIndex(c) = 0
  <2>1. c.startIndex = 0
    BY <1>1 DEF StartRight
  <2>2. ~ InStart(c)
    <3>1. doc.start \notin 1 .. p
      BY <1>1
    <3> QED
      BY <3>1 DEF InStart
  <2> QED
    BY <2>1, <2>2 DEF StartIndex
<1>2. ASSUME p >= doc.start
      PROVE  \E k \in Nat : SplitAt(Flushed(c), k) /\ (k > 0 => StartIndex(c) = k)
  <2>1. PICK k \in Nat :
           /\ SplitAt(c.elements, k)
           /\ k > 0 => c.startIndex = k
           /\ Segs(c) # <<>> => ~ (Pending(c)[1] < doc.start)
    BY <1>2 DEF StartRight
  <2>2. k > 0 => StartIndex(c) = k
    BY <2>1 DEF StartIndex
  <2>3. CASE Segs(c) = <<>>
    BY <2>1, <2>2, <2>3 DEF Flushed
  <2>4. CASE Segs(c) # <<>>
    <3>1. PICK e \in Element :
              /\ ElementNodes(e) = Pending(c)
              /\ Len(Flushed(c)) = Len(c.elements) + 1
              /\ Flushed(c)[Len(c.elements) + 1] = e
              /\ \A i \in 1 .. Len(c.elements) : Flushed(c)[i] = c.elements[i]
      BY <2>4, FlushedElement
    <3>2. Len(c.elements) \in Nat
      BY LenProperties DEF Converters
    <3>3. k \in 0 .. Len(Flushed(c))
      BY <2>1, <3>1, <3>2 DEF SplitAt
    <3>4. ASSUME NEW i \in 1 .. Len(Flushed(c))
          PROVE  ElementNodes(Flushed(c)[i])[1] < doc.start <=> i <= k
      <4>1. CASE i = Len(c.elements) + 1
        <5>1. ~ (i <= k)
          BY <2>1, <3>2, <4>1 DEF SplitAt
        <5>2. Flushed(c)[i] = e
          BY <3>1, <4>1
        <5> QED
          BY <2>1, <2>4, <3>1, <5>1, <5>2
      <4>2. CASE i # Len(c.elements) + 1
        <5>1. i \in 1 .. Len(c.elements)
          BY <3>1, <3>2, <4>2
        <5> QED
          BY <2>1, <3>1, <5>1 DEF SplitAt
      <4> QED
        BY <4>1, <4>2
    <3> QED
      BY <2>2, <3>3, <3>4 DEF SplitAt
  <2> QED
    BY <2>3, <2>4
<1> QED
  BY <1>1, <1>2

-----------------------------------------------------------------------------
(* What a node does to the converter at its head.                          *)

\* The elements and the blocks after the head of a node that ends a run.
ElementsAt(c, n) ==
    IF Kind(n) \in {"image", "video"}
    THEN Append(Flushed(c), [kind |-> Kind(n), media |-> n]) ELSE Flushed(c)
CrumbsAt(c, n) == IF IsBlock(n) THEN Append(c.crumbs, n) ELSE c.crumbs

\* A converter with nothing pending is flushed without effect.
LEMMA NothingToFlush ==
    ASSUME NEW c \in Converters, c.text = <<>>, c.segments = <<>>
    PROVE  Segs(c) = <<>> /\ Flushed(c) = c.elements /\ c.whole \o c.text = c.whole
<1>1. Segs(c) = <<>> /\ Flushed(c) = c.elements
  BY DEF Segs, Flushed
<1>2. c.whole \o <<>> = c.whole
  <2>1. c.whole \in Seq(Nat)
    BY DEF Converters
  <2> QED
    BY <2>1, ConcatEmptySeq
<1> QED
  BY <1>1, <1>2

\* A block is opened.
LEMMA PushDoes ==
    ASSUME NEW c \in Converters, NEW n \in Nat
    PROVE  /\ Push(c, n) \in Converters
           /\ Push(c, n).elements = c.elements /\ Push(c, n).startIndex = c.startIndex
           /\ Push(c, n).panicked = c.panicked /\ Push(c, n).segments = c.segments
           /\ Push(c, n).whole = c.whole /\ Push(c, n).text = c.text
           /\ Push(c, n).crumbs = Append(c.crumbs, n)
           /\ InStart(Push(c, n)) <=> doc.start # 0 /\ n = doc.start
<1>1. c.crumbs \in Seq(Nat)
  BY DEF Converters
<1>2. /\ Append(c.crumbs, n) \in Seq(Nat) /\ Append(c.crumbs, n) # <<>>
      /\ Last(Append(c.crumbs, n)) = n
  BY <1>1, AppendFacts
<1>3. /\ Push(c, n) \in Converters
      /\ Push(c, n).elements = c.elements /\ Push(c, n).startIndex = c.startIndex
      /\ Push(c, n).panicked = c.panicked /\ Push(c, n).segments = c.segments
      /\ Push(c, n).whole = c.whole /\ Push(c, n).text = c.text
      /\ Push(c, n).crumbs = Append(c.crumbs, n)
  BY <1>2 DEF Push, Converters
<1>4. InStart(Push(c, n)) <=> doc.start # 0 /\ n = doc.start
  BY <1>2, <1>3 DEF InStart
<1> QED
  BY <1>3, <1>4

\* A medium is an element.
LEMMA AddMediaDoes ==
    ASSUME NEW c \in Converters, NEW n \in Nat, Kind(n) \in {"image", "video"}
    PROVE  /\ [kind |-> Kind(n), media |-> n] \in Element
           /\ AddMedia(c, n) \in Converters
           /\ AddMedia(c, n).elements = Append(c.elements, [kind |-> Kind(n), media |-> n])
           /\ AddMedia(c, n).startIndex = c.startIndex
           /\ AddMedia(c, n).panicked = c.panicked /\ AddMedia(c, n).segments = c.segments
           /\ AddMedia(c, n).whole = c.whole /\ AddMedia(c, n).text = c.text
           /\ AddMedia(c, n).crumbs = c.crumbs
<1> DEFINE e == [kind |-> Kind(n), media |-> n]
<1>1. e \in Element
  BY DEF Element, MediaElement
<1>2. AddMedia(c, n) = [c EXCEPT !.elements = Append(c.elements, e)]
  BY DEF AddMedia
<1> HIDE DEF e
<1>3. Append(c.elements, e) \in Seq(Element)
  <2>1. c.elements \in Seq(Element)
    BY DEF Converters
  <2> QED
    BY <1>1, <2>1, AppendFacts
<1>4. /\ AddMedia(c, n) \in Converters
      /\ AddMedia(c, n).elements = Append(c.elements, e)
      /\ AddMedia(c, n).startIndex = c.startIndex
      /\ AddMedia(c, n).panicked = c.panicked /\ AddMedia(c, n).segments = c.segments
      /\ AddMedia(c, n).whole = c.whole /\ AddMedia(c, n).text = c.text
      /\ AddMedia(c, n).crumbs = c.crumbs
  BY <1>2, <1>3 DEF Converters
<1> QED
  BY <1>1, <1>4 DEF e

\* The head of a node that ends a run: what is pending becomes an element, and a
\* block is opened, a medium added.  The start index is set by the start element,
\* for good if anything is in front of it.
LEMMA VisitHeadDoes ==
    ASSUME NEW c \in Converters, NEW n \in Nat, Kind(n) \in {"block", "br", "image", "video"}
    PROVE  /\ VisitHead(c, n) \in Converters
           /\ VisitHead(c, n).panicked = c.panicked
           /\ VisitHead(c, n).text = <<>> /\ VisitHead(c, n).segments = <<>>
           /\ VisitHead(c, n).whole = c.whole \o c.text
           /\ VisitHead(c, n).crumbs = CrumbsAt(c, n)
           /\ VisitHead(c, n).elements = ElementsAt(c, n)
           /\ n # doc.start \/ StartIndex(c) # 0 => VisitHead(c, n).startIndex = StartIndex(c)
           /\ IsBlock(n) /\ doc.start # 0 /\ n = doc.start /\ StartIndex(c) = 0
                 /\ Len(Flushed(c)) > 0 => VisitHead(c, n).startIndex = Len(Flushed(c))
<1> DEFINE f == FlushText(c)
<1>1. /\ f \in Converters /\ f.elements = Flushed(c) /\ f.startIndex = StartIndex(c)
      /\ f.crumbs = c.crumbs /\ f.panicked = c.panicked /\ f.segments = <<>>
      /\ f.whole = c.whole \o c.text /\ f.text = <<>>
  BY FlushTextDoes DEF StartIndex
<1>2. Len(Flushed(c)) \in Nat
  BY SegsIn, LenProperties
<1> HIDE DEF f
<1>3. CASE Kind(n) = "br"
  <2>1. VisitHead(c, n) = f /\ CrumbsAt(c, n) = c.crumbs /\ ElementsAt(c, n) = Flushed(c)
        /\ ~ IsBlock(n)
    BY <1>3 DEF VisitHead, IsBlock, f, CrumbsAt, ElementsAt
  <2> QED
    BY <1>1, <2>1
<1>4. CASE Kind(n) = "image"
  <2>1. VisitHead(c, n) = AddMedia(f, n) /\ CrumbsAt(c, n) = c.crumbs /\ ~ IsBlock(n)
        /\ ElementsAt(c, n) = Append(Flushed(c), [kind |-> Kind(n), media |-> n])
    BY <1>4 DEF VisitHead, IsBlock, f, CrumbsAt, ElementsAt
  <2> DEFINE m == AddMedia(f, n)
  <2>2. /\ m \in Converters
        /\ m.elements = Append(f.elements, [kind |-> Kind(n), media |-> n])
        /\ m.startIndex = f.startIndex
        /\ m.panicked = f.panicked /\ m.segments = f.segments
        /\ m.whole = f.whole /\ m.text = f.text /\ m.crumbs = f.crumbs
    BY <1>1, <1>4, AddMediaDoes
  <2> HIDE DEF m
  <2>3. VisitHead(c, n) = m
    BY <2>1 DEF m
  <2> QED
    BY <1>1, <2>1, <2>2, <2>3
<1> DEFINE g == Push(f, n)
<1>5. /\ g \in Converters /\ g.elements = Flushed(c) /\ g.startIndex = StartIndex(c)
      /\ g.crumbs = Append(c.crumbs, n) /\ g.panicked = c.panicked /\ g.segments = <<>>
      /\ g.whole = c.whole \o c.text /\ g.text = <<>>
      /\ InStart(g) <=> doc.start # 0 /\ n = doc.start
  <2>1. /\ g \in Converters /\ g.elements = f.elements /\ g.startIndex = f.startIndex
        /\ g.panicked = f.panicked /\ g.segments = f.segments
        /\ g.whole = f.whole /\ g.text = f.text /\ g.crumbs = Append(f.crumbs, n)
        /\ InStart(g) <=> doc.start # 0 /\ n = doc.start
    BY <1>1, PushDoes
  <2> HIDE DEF g
  <2> QED
    BY <1>1, <2>1
<1> HIDE DEF g
<1> DEFINE h == FlushText(g)
<1>6. /\ h \in Converters /\ h.elements = Flushed(c)
      /\ h.crumbs = Append(c.crumbs, n) /\ h.panicked = c.panicked /\ h.segments = <<>>
      /\ h.whole = c.whole \o c.text /\ h.text = <<>>
      /\ h.startIndex = IF StartIndex(c) = 0 /\ InStart(g) THEN Len(Flushed(c))
                        ELSE StartIndex(c)
  <2>1. Flushed(g) = Flushed(c) /\ g.whole \o g.text = c.whole \o c.text
    BY <1>5, NothingToFlush
  <2> QED
    BY <1>5, <2>1, FlushTextDoes
<1> HIDE DEF h
<1>7. CASE Kind(n) = "block"
  <2>1. VisitHead(c, n) = h /\ CrumbsAt(c, n) = Append(c.crumbs, n)
        /\ ElementsAt(c, n) = Flushed(c)
    BY <1>7 DEF VisitHead, IsBlock, f, g, h, CrumbsAt, ElementsAt
  <2> QED
    BY <1>5, <1>6, <2>1
<1>8. CASE Kind(n) = "video"
  <2> DEFINE m == AddMedia(h, n)
             e == [kind |-> Kind(n), media |-> n]
  <2>1. VisitHead(c, n) = FlushText(m) /\ CrumbsAt(c, n) = Append(c.crumbs, n)
        /\ ElementsAt(c, n) = Append(Flushed(c), e)
    BY <1>8 DEF VisitHead, IsBlock, f, g, h, CrumbsAt, ElementsAt
  <2>2. /\ m \in Converters /\ m.elements = Append(Flushed(c), e) /\ e \in Element
        /\ m.crumbs = Append(c.crumbs, n) /\ m.panicked = c.panicked /\ m.segments = <<>>
        /\ m.whole = c.whole \o c.text /\ m.text = <<>>
        /\ m.startIndex = h.startIndex
    <3>1. /\ e \in Element /\ m \in Converters /\ m.elements = Append(h.elements, e)
          /\ m.startIndex = h.startIndex
          /\ m.panicked = h.panicked /\ m.segments = h.segments
          /\ m.whole = h.whole /\ m.text = h.text /\ m.crumbs = h.crumbs
      BY <1>6, <1>8, AddMediaDoes
    <3> HIDE DEF m, e
    <3> QED
      BY <1>6, <3>1
  <2> HIDE DEF m, e
  <2>3. Flushed(m) = m.elements /\ m.whole \o m.text = m.whole
    BY <2>2, NothingToFlush
  <2>4. /\ FlushText(m) \in Converters /\ FlushText(m).elements = m.elements
        /\ FlushText(m).startIndex =
              IF m.startIndex = 0 /\ InStart(m) THEN Len(m.elements) ELSE m.startIndex
        /\ FlushText(m).crumbs = m.crumbs /\ FlushText(m).panicked = m.panicked
        /\ FlushText(m).segments = <<>> /\ FlushText(m).whole = m.whole
        /\ FlushText(m).text = <<>>
    BY <2>2, <2>3, FlushTextDoes
  <2>5. InStart(m) <=> InStart(g)
    BY <1>5, <2>2 DEF InStart
  <2>6. n # doc.start \/ StartIndex(c) # 0 => FlushText(m).startIndex = StartIndex(c)
    BY <1>5, <1>6, <2>2, <2>4, <2>5
  <2>7. doc.start # 0 /\ n = doc.start /\ StartIndex(c) = 0 /\ Len(Flushed(c)) > 0
           => FlushText(m).startIndex = Len(Flushed(c))
    BY <1>2, <1>5, <1>6, <2>2, <2>4, <2>5
  <2> QED
    BY <2>1, <2>2, <2>4, <2>6, <2>7
<1> QED
  BY <1>3, <1>4, <1>7, <1>8

-----------------------------------------------------------------------------
(* The converter stays right.                                              *)

\* The blocks that are open at a node are those open in front of it, and the node
\* itself when it is one.
LEMMA BlocksAt ==
    ASSUME Proper, NEW n \in Nodes
    PROVE  /\ Blocks(Above(n) \ {n}) \subseteq 1 .. n - 1
           /\ IsBlock(n) => Blocks(Above(n)) = Blocks(Above(n) \ {n}) \union {n}
           /\ IsBlock(n) => Blocks(Above(n)) \ {n} = Blocks(Above(n) \ {n})
           /\ ~ IsBlock(n) => Blocks(Above(n)) = Blocks(Above(n) \ {n})
<1>1. n \in Above(n) /\ Above(n) \subseteq 1 .. n /\ n \in Int
  BY ProperFacts
<1>2. \A b \in Above(n) \ {n} : b \in 1 .. n - 1
  BY <1>1
<1>3. Blocks(Above(n) \ {n}) \subseteq 1 .. n - 1
  BY <1>2 DEF Blocks
<1> QED
  BY <1>1, <1>3 DEF Blocks

\* Texts and media are nodes, and which node is one.
LEMMA ToldFacts ==
    ASSUME Proper, NEW n \in Nodes
    PROVE  /\ Texts \in SUBSET Nodes /\ Told \in SUBSET Nodes
           /\ n \in Texts <=> Kind(n) = "text"
           /\ n \in Told <=> Kind(n) \in {"text", "image", "video"}
  BY DEF Texts, Media, Told

\* The block at the end of the crumbs is open.
LEMMA LastCrumb ==
    ASSUME doc.size \in Nat, NEW p \in 0 .. doc.size, NEW open \in SUBSET (1 .. p),
           InOrder(open) # <<>>
    PROVE  Last(InOrder(open)) \in open
<1>1. p \in Nat /\ open \in SUBSET (1 .. doc.size)
  OBVIOUS
<1>2. open # {}
  BY InOrderNone
<1>3. PICK m \in open : \A k \in open : k <= m
  BY <1>1, <1>2, GreatestOf
<1>4. Last(InOrder(open)) = m
  BY <1>1, <1>3, InOrderLast
<1> QED
  BY <1>4

\* The last text of the last element is a text that has been passed.
LEMMA LastTextIn ==
    ASSUME NEW els \in Seq(Element), NEW p, ElementsRight(els, p), els # <<>>,
           IsText(Last(els))
    PROVE  /\ LastText(Last(els)) \in Texts /\ LastText(Last(els)) <= p
           /\ BlockOf(LastText(Last(els))) = Last(els).block
<1>1. Len(els) \in 1 .. Len(els) /\ Len(els) \in DOMAIN els
  BY EmptySeq, LenProperties
<1> DEFINE e == els[Len(els)]
           s == SegmentTexts(e.segments)
<1>2. e \in Element /\ e = Last(els)
  BY <1>1, ElementOfSeq DEF Last
<1>3. IsRun(e.segments, e.block) /\ LastText(e) <= p
  BY <1>1, <1>2 DEF ElementsRight
<1>4. s \in Seq(Nat)
  <2>1. ElementNodes(e) = s
    BY <1>2 DEF IsText, ElementNodes
  <2> QED
    BY <1>2, <2>1, SaidFacts
<1>5. s # <<>> /\ \A i \in DOMAIN s : s[i] \in Texts /\ BlockOf(s[i]) = e.block
  BY <1>3 DEF IsRun
<1> HIDE DEF s
<1>6. Len(s) \in DOMAIN s /\ Last(s) = s[Len(s)]
  BY <1>4, <1>5, EmptySeq, LenProperties DEF Last
<1>7. LastText(e) = Last(s)
  BY DEF LastText, s
<1> QED
  BY <1>2, <1>3, <1>5, <1>6, <1>7

\* A node that ends a run.
LEMMA HeadEnds ==
    ASSUME Proper, NEW n \in Nodes, NEW c, Good(c, n - 1, Blocks(Above(n) \ {n})),
           Kind(n) \in {"block", "br", "image", "video"}
    PROVE  Good(VisitHead(c, n), n, Blocks(Above(n)))
<1> DEFINE open == Blocks(Above(n) \ {n})
           now == Blocks(Above(n))
           d == VisitHead(c, n)
           els == ElementsAt(c, n)
           e == [kind |-> Kind(n), media |-> n]
<1>1. /\ c \in Converters /\ ~ c.panicked /\ open \subseteq 1 .. n - 1
      /\ c.crumbs = InOrder(open) /\ Kept(c, n - 1) /\ ElementsRight(c.elements, n - 1)
      /\ PendingRight(c, n - 1) /\ StartRight(c, n - 1)
  BY DEF Good
<1>2. /\ n \in Nat /\ n - 1 \in Nat /\ n \in 1 .. doc.size /\ doc.size \in Nat
      /\ n - 1 \in 0 .. doc.size /\ doc.start \in Nat
  <2>1. doc.size \in Nat /\ n \in 1 .. doc.size /\ doc.start \in 0 .. doc.size
    BY ProperFacts DEF Proper
  <2> QED
    BY <2>1
<1>3. /\ d \in Converters /\ ~ d.panicked /\ d.text = <<>> /\ d.segments = <<>>
      /\ d.whole = c.whole \o c.text /\ d.crumbs = CrumbsAt(c, n) /\ d.elements = els
      /\ n # doc.start \/ StartIndex(c) # 0 => d.startIndex = StartIndex(c)
      /\ IsBlock(n) /\ doc.start # 0 /\ n = doc.start /\ StartIndex(c) = 0
            /\ Len(Flushed(c)) > 0 => d.startIndex = Len(Flushed(c))
  BY <1>1, <1>2, VisitHeadDoes
<1>4. Segs(d) = <<>> /\ Pending(d) = <<>> /\ d.whole \o d.text = c.whole \o c.text
  <2>1. Segs(d) = <<>> /\ d.whole \o d.text = d.whole
    BY <1>3, NothingToFlush
  <2>2. Pending(d) = <<>>
    BY <1>3, <2>1, SegsIn
  <2> QED
    BY <1>3, <2>1, <2>2
<1>5. now \subseteq 1 .. n /\ d.crumbs = InOrder(now)
  <2>1. now \subseteq 1 .. n
    BY BlockOfIs
  <2>2. CASE IsBlock(n)
    <3>1. now = open \union {n}
      BY <2>2, BlocksAt
    <3>2. InOrder(open \union {n}) = Append(InOrder(open), n)
      BY <1>1, <1>2, InOrderNext
    <3> QED
      BY <1>1, <1>3, <2>1, <2>2, <3>1, <3>2 DEF CrumbsAt
  <2>3. CASE ~ IsBlock(n)
    BY <1>1, <1>3, <2>1, <2>3, BlocksAt DEF CrumbsAt
  <2> QED
    BY <2>2, <2>3
<1>6. ElementsRight(Flushed(c), n - 1) /\ ElementsRight(Flushed(c), n)
      /\ Flushed(c) \in Seq(Element)
  <2>1. Flushed(c) \in Seq(Element) /\ n - 1 <= n
    BY <1>1, <1>2, SegsIn
  <2> QED
    BY <1>1, <1>2, <2>1, FlushedRight, ElementsRightLater
<1>7. /\ els \in Seq(Element) /\ ElementsRight(els, n)
      /\ Said(els) = InOrder(UpTo(Told, n))
      /\ ~ (n < doc.start) => \A k \in Nat : SplitAt(Flushed(c), k) => SplitAt(els, k)
      /\ els # <<>> /\ IsText(Last(els)) => els = Flushed(c)
  <2>a. Said(Flushed(c)) = InOrder(UpTo(Told, n - 1))
    BY <1>1, SaidFlushed DEF Kept
  <2>b. CASE Kind(n) \in {"image", "video"}
    <3>1. /\ e \in Element /\ els = Append(Flushed(c), e) /\ ElementNodes(e) = <<n>>
          /\ ~ IsText(e) /\ n \in Told
      <4>1. e \in Element
        BY <1>2, <2>b DEF Element, MediaElement
      <4> QED
        BY <2>b, <4>1, ToldFacts DEF ElementsAt, ElementNodes, IsText
    <3> HIDE DEF e
    <3>2. ElementNodes(e) # <<>> /\ ElementNodes(e)[1] = n
      BY <3>1
    <3>3. ElementsRight(els, n)
      <4>1. ElementNodes(e)[1] \in 1 .. n
        BY <1>2, <3>2
      <4>2. ElementsRight(Append(Flushed(c), e), n)
        BY <1>6, <3>1, <3>2, <4>1, OneMoreElement
      <4> QED
        BY <3>1, <4>2
    <3>4. /\ Len(els) = Len(Flushed(c)) + 1 /\ els[Len(Flushed(c)) + 1] = e
          /\ Last(els) = e /\ els \in Seq(Element)
          /\ \A i \in 1 .. Len(Flushed(c)) : els[i] = Flushed(c)[i]
      BY <1>6, <3>1, AppendFacts
    <3>5. Said(els) = Said(Flushed(c)) \o <<n>>
      BY <1>6, <3>1, SaidFacts
    <3>6. Said(els) = Append(Said(Flushed(c)), n)
      <4>1. Said(Flushed(c)) \in Seq(Nat)
        BY <1>6, SaidFacts
      <4>2. Said(Flushed(c)) \o <<n>> = Append(Said(Flushed(c)), n)
        BY <1>2, <4>1, AppendIsConcat
      <4> QED
        BY <3>5, <4>2
    <3>7. Said(els) = InOrder(UpTo(Told, n))
      <4>1. Said(Flushed(c)) = InOrder(UpTo(Told, n - 1))
        BY <2>a
      <4>2. InOrder(UpTo(Told, n)) = Append(InOrder(UpTo(Told, n - 1)), n)
        BY <3>1, UpToNext, ToldFacts
      <4> QED
        BY <3>6, <4>1, <4>2
    <3>8. ASSUME NEW k \in Nat, SplitAt(Flushed(c), k), ~ (n < doc.start)
          PROVE  SplitAt(els, k)
      <4>1. Len(Flushed(c)) \in Nat
        BY <1>6, LenProperties
      <4>2. k \in 0 .. Len(els)
        BY <3>4, <3>8, <4>1 DEF SplitAt
      <4>3. ASSUME NEW i \in 1 .. Len(els)
            PROVE  ElementNodes(els[i])[1] < doc.start <=> i <= k
        <5>1. CASE i = Len(Flushed(c)) + 1
          <6>1. ~ (i <= k)
            BY <3>8, <4>1, <5>1 DEF SplitAt
          <6> QED
            BY <3>2, <3>4, <3>8, <5>1, <6>1
        <5>2. CASE i # Len(Flushed(c)) + 1
          <6>1. i \in 1 .. Len(Flushed(c))
            BY <3>4, <4>1, <5>2
          <6> QED
            BY <3>4, <3>8, <6>1 DEF SplitAt
        <5> QED
          BY <5>1, <5>2
      <4> QED
        BY <4>2, <4>3 DEF SplitAt
    <3> QED
      BY <3>1, <3>3, <3>4, <3>7, <3>8
  <2>c. CASE Kind(n) \notin {"image", "video"}
    <3>1. els = Flushed(c) /\ n \notin Told
      BY <2>c, ToldFacts DEF ElementsAt
    <3>2. InOrder(UpTo(Told, n)) = InOrder(UpTo(Told, n - 1))
      BY <3>1, UpToNext, ToldFacts
    <3> QED
      BY <1>6, <2>a, <3>1, <3>2
  <2> QED
    BY <2>b, <2>c
<1>8. Kept(d, n)
  <2>1. Said(els) \o <<>> = Said(els)
    <3>1. Said(els) \in Seq(Nat)
      BY <1>7, SaidFacts
    <3> QED
      BY <3>1, ConcatEmptySeq
  <2>2. c.whole \o c.text = InOrder(UpTo(Texts, n - 1))
    BY <1>1 DEF Kept
  <2>3. InOrder(UpTo(Texts, n)) = InOrder(UpTo(Texts, n - 1))
    BY UpToNext, ToldFacts
  <2> HIDE DEF d, els
  <2> QED
    BY <1>3, <1>4, <1>7, <2>1, <2>2, <2>3 DEF Kept
<1>9. Cut(d, n, now)
  <2> SUFFICES ASSUME EndsInText(d)
               PROVE  \E b \in LastText(Last(d.elements)) + 1 .. n : IsBreak(b)
    BY DEF Cut
  <2>1. els # <<>> /\ IsText(Last(els)) /\ els = Flushed(c)
    BY <1>3, <1>7 DEF EndsInText
  <2>2. LastText(Last(els)) \in Texts /\ LastText(Last(els)) <= n - 1
    BY <1>6, <2>1, LastTextIn
  <2>3. Texts \subseteq 1 .. doc.size
    BY ToldFacts DEF Nodes
  <2>4. n \in LastText(Last(els)) + 1 .. n
    <3>1. PICK t : t = LastText(Last(els))
      OBVIOUS
    <3>2. t \in 1 .. doc.size /\ t <= n - 1
      BY <2>2, <2>3, <3>1, Zenon
    <3>3. n \in t + 1 .. n
      BY <1>2, <3>2
    <3> QED
      BY <3>1, <3>3
  <2>5. IsBreak(n)
    BY ProperFacts
  <2> QED
    BY <1>3, <2>4, <2>5
<1>10. StartRight(d, n)
  <2> SUFFICES ASSUME doc.start # 0, IsBlock(doc.start)
               PROVE  /\ n < doc.start => d.startIndex = 0
                      /\ n >= doc.start =>
                            \E k \in Nat : SplitAt(d.elements, k) /\ (k > 0 => d.startIndex = k)
    BY <1>4 DEF StartRight
  <2>1. c.crumbs # <<>> => Last(c.crumbs) \in 1 .. n - 1
    BY <1>1, <1>2, LastCrumb
  <2>2. /\ n - 1 < doc.start => StartIndex(c) = 0
        /\ n - 1 >= doc.start =>
              \E k \in Nat : SplitAt(Flushed(c), k) /\ (k > 0 => StartIndex(c) = k)
    BY <1>1, <1>2, <2>1, StartFlushed
  <2>3. CASE n < doc.start
    <3>1. n - 1 < doc.start /\ n # doc.start
      BY <1>2, <2>3
    <3> QED
      BY <1>2, <1>3, <2>2, <2>3, <3>1
  <2>4. CASE n = doc.start
    <3> DEFINE k == Len(Flushed(c))
    <3>1. StartIndex(c) = 0 /\ k \in Nat /\ DOMAIN Flushed(c) = 1 .. k
      <4>1. n - 1 < doc.start
        BY <1>2, <2>4
      <4> QED
        BY <1>6, <2>2, <4>1, LenProperties
    <3>2. \A i \in 1 .. k : ElementNodes(Flushed(c)[i])[1] \in 1 .. n - 1
      BY <1>6, <3>1 DEF ElementsRight
    <3>3. \A i \in 1 .. k : ElementNodes(Flushed(c)[i])[1] < doc.start
      <4>1. \A x \in 1 .. n - 1 : x < doc.start
        BY <1>2, <2>4
      <4> QED
        BY <3>2, <4>1, Zenon
    <3>4. SplitAt(Flushed(c), k)
      BY <3>1, <3>3 DEF SplitAt
    <3>5. SplitAt(els, k)
      <4>1. ~ (n < doc.start)
        BY <1>2, <2>4
      <4> QED
        BY <1>7, <3>1, <3>4, <4>1
    <3>6. k > 0 => d.startIndex = k
      BY <1>3, <2>4, <3>1
    <3>7. ~ (n < doc.start)
      BY <1>2, <2>4
    <3> QED
      BY <1>3, <3>1, <3>5, <3>6, <3>7
  <2>5. CASE n > doc.start
    <3>1. n - 1 >= doc.start /\ n # doc.start /\ ~ (n < doc.start)
      BY <1>2, <2>5
    <3>2. PICK k \in Nat : SplitAt(Flushed(c), k) /\ (k > 0 => StartIndex(c) = k)
      BY <2>2, <3>1
    <3>3. SplitAt(els, k)
      BY <1>7, <3>1, <3>2
    <3> QED
      BY <1>3, <3>1, <3>2, <3>3
  <2> QED
    BY <1>2, <2>3, <2>4, <2>5
<1>11. PendingRight(d, n)
  BY <1>4 DEF PendingRight
<1> QED
  BY <1>3, <1>5, <1>7, <1>8, <1>9, <1>10, <1>11 DEF Good

\* A node that ends no run, at its head.
LEMMA HeadPasses ==
    ASSUME Proper, NEW n \in Nodes, NEW c, Good(c, n - 1, Blocks(Above(n))),
           Kind(n) = "inline"
    PROVE  Good(c, n, Blocks(Above(n)))
<1> DEFINE open == Blocks(Above(n))
<1>1. /\ c \in Converters /\ ~ c.panicked /\ open \subseteq 1 .. n - 1
      /\ c.crumbs = InOrder(open) /\ Kept(c, n - 1) /\ ElementsRight(c.elements, n - 1)
      /\ PendingRight(c, n - 1) /\ StartRight(c, n - 1) /\ Cut(c, n - 1, open)
  BY DEF Good
<1>2. /\ n \in Nat /\ n - 1 \in Nat /\ n \in 1 .. doc.size /\ doc.size \in Nat
      /\ doc.start \in Nat
  <2>1. doc.size \in Nat /\ n \in 1 .. doc.size /\ doc.start \in 0 .. doc.size
    BY ProperFacts DEF Proper
  <2> QED
    BY <2>1
<1>3. open \subseteq 1 .. n
  BY BlockOfIs
<1>4. Kept(c, n)
  <2>1. n \notin Told /\ n \notin Texts /\ Told \in SUBSET Nodes /\ Texts \in SUBSET Nodes
    BY ToldFacts
  <2>2. /\ InOrder(UpTo(Told, n)) = InOrder(UpTo(Told, n - 1))
        /\ InOrder(UpTo(Texts, n)) = InOrder(UpTo(Texts, n - 1))
    BY <2>1, UpToNext
  <2> QED
    BY <1>1, <2>2 DEF Kept
<1>5. ElementsRight(c.elements, n)
  <2>1. c.elements \in Seq(Element) /\ n - 1 <= n
    BY <1>1, <1>2 DEF Converters
  <2> QED
    BY <1>1, <1>2, <2>1, ElementsRightLater
<1>6. ~ IsBreak(n) /\ ~ IsBlock(n)
  BY ProperFacts DEF IsBlock
<1>7. PendingRight(c, n)
  <2> SUFFICES ASSUME Segs(c) # <<>>
               PROVE  /\ c.crumbs # <<>>
                      /\ IsRun(Segs(c), Last(c.crumbs))
                      /\ Last(Pending(c)) <= n
                      /\ Pending(c)[1] \in 1 .. n
                      /\ \A b \in Last(Pending(c)) + 1 .. n : ~ IsBreak(b)
                      /\ EndsInText(c) => Separated(LastText(Last(c.elements)), Pending(c)[1])
    BY DEF PendingRight
  <2>1. /\ c.crumbs # <<>>
        /\ IsRun(Segs(c), Last(c.crumbs))
        /\ Last(Pending(c)) <= n - 1
        /\ Pending(c)[1] \in 1 .. n - 1
        /\ \A b \in Last(Pending(c)) + 1 .. n - 1 : ~ IsBreak(b)
        /\ EndsInText(c) => Separated(LastText(Last(c.elements)), Pending(c)[1])
    BY <1>1 DEF PendingRight
  <2>2. PICK t : t = Last(Pending(c))
    OBVIOUS
  <2>3. t \in Nat
    <3>1. Pending(c) \in Seq(Nat) /\ Pending(c) # <<>>
      BY <1>1, <2>1, SegsIn DEF IsRun, Pending
    <3>2. Len(Pending(c)) \in 1 .. Len(Pending(c))
      BY <3>1, EmptySeq, LenProperties
    <3> QED
      BY <2>2, <3>1, <3>2, ElementOfSeq DEF Last
  <2>4. t <= n
    BY <1>2, <2>1, <2>2, <2>3
  <2>5. ASSUME NEW b \in t + 1 .. n PROVE ~ IsBreak(b)
    <3>1. b = n \/ b \in t + 1 .. n - 1
      BY <1>2, <2>3
    <3> QED
      BY <1>6, <2>1, <2>2, <3>1
  <2>6. Pending(c)[1] \in 1 .. n
    BY <1>2, <2>1
  <2> QED
    BY <2>1, <2>2, <2>4, <2>5, <2>6
<1>8. Cut(c, n, open)
  <2> SUFFICES ASSUME Segs(c) = <<>>, EndsInText(c)
               PROVE  \/ \E b \in LastText(Last(c.elements)) + 1 .. n : IsBreak(b)
                      \/ BlockOf(LastText(Last(c.elements))) \notin open
    BY DEF Cut
  <2>1. PICK t : t = LastText(Last(c.elements))
    OBVIOUS
  <2>2. \/ \E b \in t + 1 .. n - 1 : IsBreak(b)
        \/ BlockOf(t) \notin open
    BY <1>1, <2>1 DEF Cut
  <2>3. t \in Nat
    <3>1. c.elements \in Seq(Element) /\ c.elements # <<>> /\ IsText(Last(c.elements))
      BY <1>1 DEF Converters, EndsInText
    <3>2. t \in Texts
      BY <1>1, <2>1, <3>1, LastTextIn
    <3>3. t \in 1 .. doc.size
      BY <3>2, ToldFacts DEF Nodes
    <3> QED
      BY <1>2, <3>3
  <2>4. \A b \in t + 1 .. n - 1 : b \in t + 1 .. n
    BY <1>2, <2>3
  <2> QED
    BY <2>1, <2>2, <2>4
<1>9. StartRight(c, n)
  <2> SUFFICES ASSUME doc.start # 0, IsBlock(doc.start)
               PROVE  /\ n < doc.start => n - 1 < doc.start
                      /\ n >= doc.start => n - 1 >= doc.start
    BY <1>1 DEF StartRight
  <2>1. n # doc.start
    BY <1>6
  <2> QED
    BY <1>2, <2>1
<1> QED
  BY <1>1, <1>3, <1>4, <1>5, <1>7, <1>8, <1>9 DEF Good

\* A block that is left.
LEMMA BlockLeft ==
    ASSUME Proper, NEW n \in Nodes, IsBlock(n), NEW p \in 0 .. doc.size,
           NEW c, Good(c, p, Blocks(Above(n)))
    PROVE  Good(VisitTail(c, n), p, Blocks(Above(n) \ {n}))
<1> DEFINE open == Blocks(Above(n))
           now == Blocks(Above(n) \ {n})
           f == FlushText(c)
           d == VisitTail(c, n)
<1>1. /\ c \in Converters /\ ~ c.panicked /\ open \subseteq 1 .. p
      /\ c.crumbs = InOrder(open) /\ Kept(c, p) /\ ElementsRight(c.elements, p)
      /\ PendingRight(c, p) /\ StartRight(c, p) /\ Cut(c, p, open)
  BY DEF Good
<1>2. doc.size \in Nat /\ p \in Nat /\ doc.start \in Nat
  <2>1. doc.size \in Nat /\ doc.start \in 0 .. doc.size
    BY ProperFacts DEF Proper
  <2> QED
    BY <2>1
<1>3. c.crumbs # <<>> /\ Last(c.crumbs) = n /\ Front(c.crumbs) = InOrder(now)
  <2>1. BlockOf(n) = n /\ open \ {n} = now
    BY BlockOfBlock, BlocksAt
  <2> QED
    BY <1>1, <2>1, BlockOfIs
<1>4. /\ f \in Converters /\ f.elements = Flushed(c) /\ f.startIndex = StartIndex(c)
      /\ f.crumbs = c.crumbs /\ f.panicked = c.panicked /\ f.segments = <<>>
      /\ f.whole = c.whole \o c.text /\ f.text = <<>>
  BY <1>1, FlushTextDoes DEF StartIndex
<1>5. d = [f EXCEPT !.crumbs = Front(f.crumbs)]
  <2>1. Kind(n) # "text"
    BY DEF IsBlock
  <2> QED
    BY <1>3, <2>1 DEF VisitTail
<1> HIDE DEF f
<1>6. InOrder(now) \in Seq(Nat)
  BY <1>2, InOrderIn
<1> HIDE DEF now
<1>7. /\ d \in Converters /\ d.elements = Flushed(c) /\ d.startIndex = StartIndex(c)
      /\ d.crumbs = InOrder(now) /\ ~ d.panicked /\ d.segments = <<>>
      /\ d.whole = c.whole \o c.text /\ d.text = <<>>
  BY <1>1, <1>3, <1>4, <1>5, <1>6 DEF Converters
<1> HIDE DEF d
<1>8. Segs(d) = <<>> /\ Pending(d) = <<>> /\ d.whole \o d.text = c.whole \o c.text
  <2>1. Segs(d) = <<>> /\ d.whole \o d.text = d.whole
    BY <1>7, NothingToFlush
  <2>2. Pending(d) = <<>>
    BY <1>7, <2>1, SegsIn
  <2> QED
    BY <1>7, <2>1, <2>2
<1>9. now \subseteq 1 .. p /\ now \subseteq open /\ n \notin now
  BY <1>1 DEF now, Blocks
<1>10. ElementsRight(Flushed(c), p)
  BY <1>1, FlushedRight
<1>11. Kept(d, p)
  <2>1. Said(Flushed(c)) = InOrder(UpTo(Told, p))
    BY <1>1, SaidFlushed DEF Kept
  <2>2. Said(Flushed(c)) \o <<>> = Said(Flushed(c))
    <3>1. Said(Flushed(c)) \in Seq(Nat)
      BY <1>1, SegsIn, SaidFacts
    <3> QED
      BY <3>1, ConcatEmptySeq
  <2> QED
    BY <1>1, <1>7, <1>8, <2>1, <2>2 DEF Kept
<1>12. Cut(d, p, now)
  <2> SUFFICES ASSUME EndsInText(d)
               PROVE  \/ \E b \in LastText(Last(d.elements)) + 1 .. p : IsBreak(b)
                      \/ BlockOf(LastText(Last(d.elements))) \notin now
    BY DEF Cut
  <2>1. CASE Segs(c) = <<>>
    <3>1. d.elements = c.elements
      BY <1>7, <2>1 DEF Flushed
    <3>2. EndsInText(c)
      BY <3>1 DEF EndsInText
    <3> QED
      BY <1>1, <1>9, <2>1, <3>1, <3>2 DEF Cut
  <2>2. CASE Segs(c) # <<>>
    <3>1. PICK e \in Element : IsText(e) /\ e.block = n /\ Last(Flushed(c)) = e
      BY <1>1, <1>3, <2>2, FlushedElement
    <3>2. Flushed(c) \in Seq(Element) /\ Flushed(c) # <<>>
      BY <1>1, <1>7, SegsIn DEF EndsInText
    <3>3. BlockOf(LastText(Last(Flushed(c)))) = n
      BY <1>10, <3>1, <3>2, LastTextIn
    <3> QED
      BY <1>7, <1>9, <3>3
  <2> QED
    BY <2>1, <2>2
<1>13. StartRight(d, p)
  <2> SUFFICES ASSUME doc.start # 0, IsBlock(doc.start)
               PROVE  /\ p < doc.start => d.startIndex = 0
                      /\ p >= doc.start =>
                            \E k \in Nat : SplitAt(d.elements, k) /\ (k > 0 => d.startIndex = k)
    BY <1>8 DEF StartRight
  <2>1. c.crumbs # <<>> => Last(c.crumbs) \in 1 .. p
    BY <1>1, LastCrumb, <1>2
  <2> QED
    BY <1>1, <1>2, <1>7, <2>1, StartFlushed
<1>14. PendingRight(d, p)
  BY <1>8 DEF PendingRight
<1> QED
  BY <1>7, <1>9, <1>10, <1>11, <1>12, <1>13, <1>14 DEF Good, d, now

\* The first of a longer sequence.
LEMMA FirstOfAppend ==
    ASSUME NEW V, NEW s \in Seq(V), NEW x \in V
    PROVE  /\ s = <<>> => Append(s, x)[1] = x
           /\ s # <<>> => Append(s, x)[1] = s[1] /\ Last(s) = s[Len(s)] /\ Len(s) \in 1 .. Len(s)
<1>1. /\ Append(s, x)[Len(s) + 1] = x /\ Len(s) \in Nat
      /\ \A i \in 1 .. Len(s) : Append(s, x)[i] = s[i]
  BY AppendFacts
<1>2. s # <<>> => Len(s) \in 1 .. Len(s) /\ 1 \in 1 .. Len(s)
  BY <1>1, EmptySeq
<1>3. s = <<>> => Len(s) + 1 = 1
  BY <1>1
<1> QED
  BY <1>1, <1>2, <1>3 DEF Last

\* A text continues the run in front of it.
LEMMA TextContinues ==
    ASSUME Proper, NEW n \in Nodes, Kind(n) = "text",
           NEW c, Good(c, n - 1, Blocks(Above(n)))
    PROVE  /\ \A i \in DOMAIN Append(Pending(c), n) :
                 /\ Append(Pending(c), n)[i] \in Texts
                 /\ BlockOf(Append(Pending(c), n)[i]) = BlockOf(n)
           /\ \A i \in 1 .. Len(Append(Pending(c), n)) - 1 :
                 ~ Separated(Append(Pending(c), n)[i], Append(Pending(c), n)[i + 1])
<1> DEFINE s == Pending(c)
           t == Append(s, n)
           m == Len(s)
<1>1. /\ c \in Converters /\ c.crumbs = InOrder(Blocks(Above(n)))
      /\ PendingRight(c, n - 1)
  BY DEF Good
<1>2. s \in Seq(Nat) /\ n \in Nat /\ n \in Texts
  <2>1. n \in Nat
    BY ProperFacts
  <2> QED
    BY <1>1, <2>1, SegsIn, ToldFacts
<1>3. /\ Len(t) = m + 1 /\ m \in Nat /\ t[m + 1] = n /\ \A i \in 1 .. m : t[i] = s[i]
      /\ DOMAIN s = 1 .. m /\ DOMAIN t = 1 .. m + 1
  <2> HIDE DEF s
  <2> QED
    BY <1>2, AppendFacts
<1>4. c.crumbs # <<>> /\ Last(c.crumbs) = BlockOf(n)
  BY <1>1, BlockOfIs
<1>5. m > 0 => /\ s # <<>> /\ Segs(c) # <<>> /\ IsRun(Segs(c), BlockOf(n))
               /\ \A b \in Last(s) + 1 .. n - 1 : ~ IsBreak(b)
               /\ Last(s) = s[m]
  <2>1. m > 0 => s # <<>>
    BY <1>2, EmptySeq
  <2>2. s # <<>> => Segs(c) # <<>>
    BY <1>1, SegsIn
  <2>3. s # <<>> => Last(s) = s[m]
    BY DEF Last
  <2> QED
    BY <1>1, <1>4, <2>1, <2>2, <2>3 DEF PendingRight
<1>6. /\ \A i \in 1 .. m : s[i] \in Texts /\ BlockOf(s[i]) = BlockOf(n)
      /\ \A i \in 1 .. m - 1 : ~ Separated(s[i], s[i + 1])
  <2>1. CASE m > 0
    <3>1. SegmentTexts(Segs(c)) = s
      BY DEF Pending
    <3> QED
      BY <1>3, <1>5, <2>1, <3>1 DEF IsRun
  <2>2. CASE ~ (m > 0)
    BY <1>3, <2>2
  <2> QED
    BY <2>1, <2>2
<1>7. ASSUME m > 0 PROVE ~ Separated(s[m], n)
  <2>1. BlockOf(s[m]) = BlockOf(n)
    BY <1>3, <1>6, <1>7
  <2>2. \A b \in s[m] + 1 .. n - 1 : ~ IsBreak(b)
    BY <1>5, <1>7
  <2> QED
    BY <2>1, <2>2 DEF Separated, IsBreak
<1>8. ASSUME NEW i \in DOMAIN t PROVE t[i] \in Texts /\ BlockOf(t[i]) = BlockOf(n)
  <2>1. CASE i = m + 1
    BY <1>2, <1>3, <2>1
  <2>2. CASE i # m + 1
    <3>1. i \in 1 .. m
      BY <1>3, <2>2
    <3> QED
      BY <1>3, <1>6, <3>1
  <2> QED
    BY <2>1, <2>2
<1>9. ASSUME NEW i \in 1 .. Len(t) - 1 PROVE ~ Separated(t[i], t[i + 1])
  <2> HIDE DEF s, t, m
  <2>1. CASE i = m
    <3>1. m > 0 /\ t[i] = s[m] /\ t[i + 1] = n
      BY <1>3, <2>1
    <3> QED
      BY <1>7, <3>1
  <2>2. CASE i # m
    <3>1. i \in 1 .. m - 1 /\ i \in 1 .. m /\ i + 1 \in 1 .. m
      BY <1>3, <2>2
    <3>2. t[i] = s[i] /\ t[i + 1] = s[i + 1]
      BY <1>3, <3>1
    <3> QED
      BY <1>6, <3>1, <3>2
  <2> QED
    BY <2>1, <2>2
<1> QED
  BY <1>8, <1>9

\* A text that is left is pending.
LEMMA TextLeft ==
    ASSUME Proper, NEW n \in Nodes, Kind(n) = "text",
           NEW c, Good(c, n - 1, Blocks(Above(n)))
    PROVE  Good(TextTail(c, n), n, Blocks(Above(n)))
<1> DEFINE open == Blocks(Above(n))
           d == TextTail(c, n)
<1>1. /\ c \in Converters /\ ~ c.panicked /\ open \subseteq 1 .. n - 1
      /\ c.crumbs = InOrder(open) /\ Kept(c, n - 1) /\ ElementsRight(c.elements, n - 1)
      /\ PendingRight(c, n - 1) /\ StartRight(c, n - 1) /\ Cut(c, n - 1, open)
  BY DEF Good
<1>2. /\ n \in Nat /\ n - 1 \in Nat /\ n \in 1 .. doc.size /\ doc.size \in Nat
      /\ doc.start \in Nat
  <2>1. doc.size \in Nat /\ n \in 1 .. doc.size /\ doc.start \in 0 .. doc.size
    BY ProperFacts DEF Proper
  <2> QED
    BY <2>1
<1>3. /\ d \in Converters /\ d.elements = c.elements /\ d.startIndex = c.startIndex
      /\ d.crumbs = c.crumbs /\ d.panicked = c.panicked /\ d.text # <<>>
      /\ \/ d.segments = c.segments /\ d.whole = c.whole /\ d.text = Append(c.text, n)
         \/ d.segments = Segs(c) /\ d.whole = c.whole \o c.text /\ d.text = <<n>>
  BY <1>1, <1>2, TextTailDoes
<1>4. Pending(d) = Append(Pending(c), n) /\ d.whole \o d.text = Append(c.whole \o c.text, n)
  BY <1>1, <1>2, TextTailAppends
<1> HIDE DEF d
<1>5. /\ Pending(c) \in Seq(Nat) /\ Said(c.elements) \in Seq(Nat) /\ c.whole \in Seq(Nat)
      /\ c.text \in Seq(Nat) /\ c.segments \in Seq(Segment) /\ Segs(c) \in Seq(Segment)
      /\ d.segments \in Seq(Segment) /\ LastSegment(d) \in Segment
      /\ LastSegment(c) \in Segment /\ c.elements \in Seq(Element)
  BY <1>1, <1>3, SegsIn, SaidFacts DEF Converters
<1>6. /\ Segs(d) = Append(d.segments, LastSegment(d)) /\ Segs(d) # <<>>
      /\ Pending(d) # <<>> /\ Last(Pending(d)) = n
  <2>1. Segs(d) = Append(d.segments, LastSegment(d))
    BY <1>3 DEF Segs
  <2>2. Segs(d) # <<>>
    <3>1. ASSUME NEW s \in Seq(Segment), NEW x \in Segment PROVE Append(s, x) # <<>>
      BY AppendFacts
    <3> QED
      BY <1>5, <2>1, <3>1
  <2>3. Append(Pending(c), n) # <<>> /\ Last(Append(Pending(c), n)) = n
    <3>1. ASSUME NEW s \in Seq(Nat)
          PROVE  Append(s, n) # <<>> /\ Last(Append(s, n)) = n
      BY <1>2, AppendFacts
    <3> QED
      BY <1>5, <3>1, Zenon
  <2> QED
    BY <1>4, <2>1, <2>2, <2>3
<1>7. c.crumbs # <<>> /\ Last(c.crumbs) = BlockOf(n) /\ BlockOf(n) \in open
      /\ open \subseteq 1 .. n
  BY <1>1, BlockOfIs
<1>8. Kept(d, n)
  <2>1. n \in Told /\ n \in Texts /\ Told \in SUBSET Nodes /\ Texts \in SUBSET Nodes
    BY ToldFacts
  <2>2. /\ InOrder(UpTo(Told, n)) = Append(InOrder(UpTo(Told, n - 1)), n)
        /\ InOrder(UpTo(Texts, n)) = Append(InOrder(UpTo(Texts, n - 1)), n)
        /\ UpTo(Texts, n - 1) = {t \in Texts : t < n}
    BY <2>1, UpToNext
  <2>3. Said(d.elements) \o Pending(d) = InOrder(UpTo(Told, n))
    <3>1. Said(c.elements) \o Append(Pending(c), n) = Append(Said(c.elements) \o Pending(c), n)
      <4>1. ASSUME NEW s \in Seq(Nat), NEW t \in Seq(Nat)
            PROVE  s \o Append(t, n) = Append(s \o t, n)
        BY <1>2, ConcatAppend
      <4> QED
        BY <1>5, <4>1, Zenon
    <3> QED
      BY <1>1, <1>3, <1>4, <2>2, <3>1 DEF Kept
  <2>4. d.whole \o d.text = InOrder(UpTo(Texts, n))
    BY <1>1, <1>4, <2>2 DEF Kept
  <2>5. c.whole \o c.text = InOrder({t \in Texts : t < n})
    BY <1>1, <2>2 DEF Kept
  <2>6. d.whole = InOrder({t \in Texts : t < d.text[1]})
    <3>1. CASE d.segments = Segs(c) /\ d.whole = c.whole \o c.text /\ d.text = <<n>>
      <4>1. d.text[1] = n
        BY <3>1
      <4> QED
        BY <2>5, <3>1, <4>1
    <3>2. CASE d.segments = c.segments /\ d.whole = c.whole /\ d.text = Append(c.text, n)
      <4>1. CASE c.text = <<>>
        <5>1. d.text[1] = n
          BY <1>2, <1>5, <3>2, <4>1, FirstOfAppend
        <5>2. c.whole \o c.text = c.whole
          BY <1>5, <4>1, ConcatEmptySeq
        <5> QED
          BY <2>5, <3>2, <5>1, <5>2
      <4>2. CASE c.text # <<>>
        <5>1. d.text[1] = c.text[1]
          BY <1>2, <1>5, <3>2, <4>2, FirstOfAppend
        <5> QED
          BY <1>1, <3>2, <4>2, <5>1 DEF Kept
      <4> QED
        BY <4>1, <4>2
    <3> QED
      BY <1>3, <3>1, <3>2
  <2> QED
    BY <2>3, <2>4, <2>6 DEF Kept
<1>9. ElementsRight(d.elements, n)
  <2>1. n - 1 <= n
    BY <1>2
  <2> QED
    BY <1>1, <1>2, <1>3, <1>5, <2>1, ElementsRightLater
<1>10. ASSUME NEW i \in DOMAIN d.segments
       PROVE  /\ d.segments[i].texts # <<>>
              /\ d.segments[i].before = InOrder({t \in Texts : t < d.segments[i].texts[1]})
  <2>0. DOMAIN d.segments = 1 .. Len(d.segments) /\ Len(d.segments) \in Nat
    BY <1>5, LenProperties
  <2>1. i \in DOMAIN Segs(c) /\ d.segments[i] = Segs(c)[i]
    <3>1. CASE d.segments = Segs(c)
      BY <3>1
    <3>2. CASE d.segments = c.segments /\ d.segments # Segs(c)
      <4>1. Segs(c) = Append(c.segments, LastSegment(c))
        BY <3>2 DEF Segs
      <4>2. /\ \A j \in 1 .. Len(c.segments) :
                   Append(c.segments, LastSegment(c))[j] = c.segments[j]
            /\ DOMAIN Append(c.segments, LastSegment(c)) = 1 .. Len(c.segments) + 1
        BY <1>5, AppendFacts
      <4>3. i \in 1 .. Len(c.segments) /\ i \in 1 .. Len(c.segments) + 1
        BY <2>0, <3>2
      <4> QED
        BY <3>2, <4>1, <4>2, <4>3
    <3> QED
      BY <1>3, <3>1, <3>2
  <2>2. Segs(c) # <<>>
    BY <2>1
  <2>3. IsRun(Segs(c), Last(c.crumbs))
    BY <1>1, <2>2 DEF PendingRight
  <2> QED
    BY <2>1, <2>3 DEF IsRun
<1>11. IsRun(Segs(d), BlockOf(n))
  <2>1. ASSUME NEW i \in DOMAIN Segs(d)
        PROVE  /\ Segs(d)[i].texts # <<>>
               /\ Segs(d)[i].before = InOrder({t \in Texts : t < Segs(d)[i].texts[1]})
    <3> DEFINE m == Len(d.segments)
    <3>1. /\ Segs(d)[m + 1] = LastSegment(d) /\ m \in Nat /\ DOMAIN d.segments = 1 .. m
          /\ \A j \in 1 .. m : Segs(d)[j] = d.segments[j]
          /\ DOMAIN Segs(d) = 1 .. m + 1
      BY <1>5, <1>6, AppendFacts
    <3>2. CASE i = m + 1
      <4>1. Segs(d)[i].texts = d.text /\ Segs(d)[i].before = d.whole
        BY <3>1, <3>2 DEF LastSegment
      <4> QED
        BY <1>3, <1>8, <4>1 DEF Kept
    <3>3. CASE i # m + 1
      <4>1. i \in 1 .. m
        BY <3>1, <3>3
      <4>2. Segs(d)[i] = d.segments[i] /\ i \in DOMAIN d.segments
        BY <3>1, <4>1
      <4> QED
        BY <1>10, <4>2
    <3> QED
      BY <3>2, <3>3
  <2>2. SegmentTexts(Segs(d)) = Append(Pending(c), n)
    BY <1>4 DEF Pending
  <2>3. /\ \A i \in DOMAIN Append(Pending(c), n) :
              /\ Append(Pending(c), n)[i] \in Texts
              /\ BlockOf(Append(Pending(c), n)[i]) = BlockOf(n)
        /\ \A i \in 1 .. Len(Append(Pending(c), n)) - 1 :
              ~ Separated(Append(Pending(c), n)[i], Append(Pending(c), n)[i + 1])
    BY TextContinues
  <2>4. Append(Pending(c), n) # <<>>
    BY <1>4, <1>6
  <2>5. PICK s : s = SegmentTexts(Segs(d))
    OBVIOUS
  <2>6. /\ s # <<>>
        /\ \A i \in DOMAIN s : s[i] \in Texts /\ BlockOf(s[i]) = BlockOf(n)
        /\ \A i \in 1 .. Len(s) - 1 : ~ Separated(s[i], s[i + 1])
    BY <2>2, <2>3, <2>4, <2>5
  <2> QED
    BY <2>1, <2>5, <2>6 DEF IsRun
<1>12. /\ Pending(c) = <<>> => Pending(d)[1] = n
       /\ Pending(c) # <<>> => Pending(d)[1] = Pending(c)[1] /\ Segs(c) # <<>>
  BY <1>1, <1>2, <1>4, <1>5, FirstOfAppend, SegsIn
<1>13. Pending(c) = <<>> => Segs(c) = <<>>
  <2>1. Segs(c) # <<>> => IsRun(Segs(c), Last(c.crumbs))
    BY <1>1 DEF PendingRight
  <2> QED
    BY <2>1 DEF IsRun, Pending
<1>14. ASSUME EndsInText(d) PROVE Separated(LastText(Last(d.elements)), Pending(d)[1])
  <2>1. EndsInText(c)
    BY <1>3, <1>14 DEF EndsInText
  <2>2. CASE Pending(c) # <<>>
    BY <1>1, <1>3, <1>12, <2>1, <2>2 DEF PendingRight
  <2>3. CASE Pending(c) = <<>>
    <3>1. \/ \E b \in LastText(Last(c.elements)) + 1 .. n - 1 : IsBreak(b)
          \/ BlockOf(LastText(Last(c.elements))) \notin open
      BY <1>1, <1>13, <2>1, <2>3 DEF Cut
    <3>2. \/ \E b \in LastText(Last(c.elements)) + 1 .. n - 1 : IsBreak(b)
          \/ BlockOf(LastText(Last(c.elements))) # BlockOf(n)
      BY <1>7, <3>1
    <3>3. Separated(LastText(Last(c.elements)), n)
      BY <3>2 DEF Separated, IsBreak
    <3> QED
      BY <1>3, <1>12, <2>3, <3>3
  <2> QED
    BY <2>2, <2>3
<1>15. PendingRight(d, n)
  <2>1. Pending(d)[1] \in 1 .. n
    <3>1. Pending(c) # <<>> => Pending(c)[1] \in 1 .. n - 1
      BY <1>1, <1>12 DEF PendingRight
    <3>2. \A x \in 1 .. n - 1 : x \in 1 .. n
      BY <1>2
    <3>3. n \in 1 .. n
      BY <1>2
    <3> QED
      BY <1>12, <3>1, <3>2, <3>3
  <2>2. \A b \in n + 1 .. n : FALSE
    BY <1>2
  <2>3. n <= n
    BY <1>2
  <2> QED
    BY <1>3, <1>6, <1>7, <1>11, <1>14, <2>1, <2>2, <2>3 DEF PendingRight
<1>16. Cut(d, n, open)
  BY <1>6 DEF Cut
<1>17. StartRight(d, n)
  <2> SUFFICES ASSUME doc.start # 0, IsBlock(doc.start)
               PROVE  /\ n < doc.start => d.startIndex = 0
                      /\ n >= doc.start =>
                            \E k \in Nat :
                               /\ SplitAt(d.elements, k) /\ (k > 0 => d.startIndex = k)
                               /\ ~ (Pending(d)[1] < doc.start)
    BY DEF StartRight
  <2>1. n # doc.start
    BY DEF IsBlock
  <2>2. /\ n < doc.start => n - 1 < doc.start
        /\ n >= doc.start => n - 1 >= doc.start /\ ~ (n < doc.start)
    BY <1>2, <2>1
  <2>3. n < doc.start => d.startIndex = 0
    BY <1>1, <1>3, <2>2 DEF StartRight
  <2>4. ASSUME n >= doc.start
        PROVE  \E k \in Nat :
                  /\ SplitAt(d.elements, k) /\ (k > 0 => d.startIndex = k)
                  /\ ~ (Pending(d)[1] < doc.start)
    <3>1. PICK k \in Nat :
             /\ SplitAt(c.elements, k) /\ (k > 0 => c.startIndex = k)
             /\ Segs(c) # <<>> => ~ (Pending(c)[1] < doc.start)
      BY <1>1, <2>2, <2>4 DEF StartRight
    <3>2. ~ (Pending(d)[1] < doc.start)
      BY <1>12, <2>2, <2>4, <3>1
    <3> QED
      BY <1>3, <3>1, <3>2
  <2> QED
    BY <2>3, <2>4
<1>18. Good(d, n, open)
  BY <1>1, <1>3, <1>7, <1>8, <1>9, <1>15, <1>16, <1>17 DEF Good
<1> QED
  BY <1>18 DEF d

-----------------------------------------------------------------------------
(* The walk.                                                               *)

\* A node ends in one place only.
LEMMA EndOfIs ==
    ASSUME Proper, NEW n \in Nodes
    PROVE  /\ EndOf(n) \in n .. doc.size /\ Ends(doc.parent, doc.size, n, EndOf(n))
           /\ \A e : Ends(doc.parent, doc.size, n, e) => EndOf(n) = e
<1>1. n \in 1 .. doc.size /\ IsTree(doc.parent, doc.size) /\ doc.size \in Nat /\ n \in Nat
  BY ProperFacts DEF Proper
<1>2. \E e : Ends(doc.parent, doc.size, n, e)
  BY <1>1, EndExists
<1>3. Ends(doc.parent, doc.size, n, EndOf(n))
  BY <1>2 DEF EndOf
<1>4. ASSUME NEW e, NEW f, Ends(doc.parent, doc.size, n, e), Ends(doc.parent, doc.size, n, f)
      PROVE  ~ (e < f)
  <2>1. /\ e \in n .. doc.size /\ f \in n .. doc.size
        /\ \A m \in n .. f : n \in Ancestors(doc.parent, m)
        /\ \A m \in e + 1 .. doc.size : n \notin Ancestors(doc.parent, m)
    BY <1>4 DEF Ends
  <2>2. e < f => e + 1 \in n .. f /\ e + 1 \in e + 1 .. doc.size
    BY <1>1, <2>1
  <2> QED
    BY <2>1, <2>2
<1>5. ASSUME NEW e, Ends(doc.parent, doc.size, n, e) PROVE EndOf(n) = e
  <2>1. e \in n .. doc.size /\ EndOf(n) \in n .. doc.size
    BY <1>3, <1>5 DEF Ends
  <2>2. ~ (e < EndOf(n)) /\ ~ (EndOf(n) < e)
    BY <1>3, <1>4, <1>5
  <2> QED
    BY <1>1, <2>1, <2>2
<1>6. EndOf(n) \in n .. doc.size
  BY <1>3 DEF Ends
<1> QED
  BY <1>3, <1>5, <1>6

\* A node without children is its own end, as texts are.
LEMMA LeafIs ==
    ASSUME Proper, NEW n \in Nodes
    PROVE  /\ Children(n) = {} => EndOf(n) = n
           /\ Children(n) # {} => Kind(n) \in {"block", "inline"}
           /\ Kind(n) = "text" => EndOf(n) = n
<1>1. n \in 1 .. doc.size /\ IsTree(doc.parent, doc.size)
  BY ProperFacts DEF Proper
<1>2. ASSUME Children(n) = {} PROVE EndOf(n) = n
  <2>1. \A c \in 2 .. doc.size : doc.parent[c] # n
    BY <1>2 DEF Children, Parent
  <2>2. Ends(doc.parent, doc.size, n, n)
    BY <1>1, <2>1, LeafEnds
  <2> QED
    BY <2>2, EndOfIs
<1>3. ASSUME Children(n) # {} PROVE Kind(n) \in {"block", "inline"}
  <2>1. PICK c \in 2 .. doc.size : Parent(c) = n
    BY <1>3 DEF Children
  <2>2. n # 1 => Kind(n) \in {"block", "inline"}
    BY <2>1 DEF Proper
  <2>3. Kind(1) = "block"
    BY ProperFacts
  <2> QED
    BY <2>2, <2>3
<1> QED
  BY <1>2, <1>3

\* What is above a node is above its parent, but for itself.
LEMMA AboveParent ==
    ASSUME Proper, NEW n \in Nodes
    PROVE  /\ IsFiniteSet(Above(n)) /\ Cardinality(Above(n)) \in Nat
           /\ n # 1 => /\ Parent(n) \in Nodes /\ Above(n) \ {n} = Above(Parent(n))
                       /\ Cardinality(Above(n)) = Cardinality(Above(Parent(n))) + 1
                       /\ Cardinality(Above(n)) - 1 > 0
           /\ n = 1 => Above(n) \ {n} = {} /\ Cardinality(Above(n)) = 1
<1>1. /\ n \in 1 .. doc.size /\ doc.size \in Nat /\ Rooted(doc.parent, doc.size)
      /\ Above(n) \subseteq 1 .. n /\ n \in Nat
  BY ProperFacts
<1>2. ASSUME NEW k \in Nodes PROVE IsFiniteSet(Above(k)) /\ Cardinality(Above(k)) \in Nat
  <2>1. Above(k) \subseteq 1 .. k /\ k \in Int
    BY ProperFacts
  <2>2. IsFiniteSet(1 .. k)
    BY <2>1, FS_Interval
  <2>3. IsFiniteSet(Above(k))
    BY <2>1, <2>2, FS_Subset
  <2> QED
    BY <2>3, FS_CardinalityType
<1>3. ASSUME n # 1
      PROVE  /\ Parent(n) \in Nodes /\ Above(n) \ {n} = Above(Parent(n))
             /\ Cardinality(Above(n)) = Cardinality(Above(Parent(n))) + 1
             /\ Cardinality(Above(n)) - 1 > 0
  <2>1. Parent(n) \in Nodes /\ Parent(n) \in 1 .. n - 1
    BY <1>3, ProperFacts
  <2>2. Above(n) = {n} \union Above(Parent(n))
    BY <1>1, <1>3, AncestorsAre DEF Above, Parent
  <2>3. n \notin Above(Parent(n))
    <3>1. PICK q : q = Parent(n)
      OBVIOUS
    <3>2. Above(q) \subseteq 1 .. q /\ q \in 1 .. n - 1
      BY <2>1, <3>1, ProperFacts
    <3>3. n \notin 1 .. q
      BY <1>1, <3>2
    <3> QED
      BY <3>1, <3>2, <3>3
  <2>4. Above(n) \ {n} = Above(Parent(n))
    BY <2>2, <2>3
  <2>5. IsFiniteSet(Above(Parent(n))) /\ Cardinality(Above(Parent(n))) \in Nat
    BY <1>2, <2>1
  <2>6. Cardinality(Above(Parent(n)) \union {n}) = Cardinality(Above(Parent(n))) + 1
    BY <2>3, <2>5, FS_AddElement
  <2>7. Above(n) = Above(Parent(n)) \union {n}
    BY <2>2
  <2>8. Cardinality(Above(Parent(n))) # 0
    <3>1. Parent(n) \in Above(Parent(n))
      BY <2>1, ProperFacts
    <3> QED
      BY <2>5, <3>1, FS_EmptySet
  <2>9. Cardinality(Above(n)) - 1 > 0
    BY <2>5, <2>6, <2>7, <2>8
  <2> QED
    BY <2>1, <2>4, <2>6, <2>7, <2>9
<1>4. ASSUME n = 1 PROVE Above(n) \ {n} = {} /\ Cardinality(Above(n)) = 1
  <2>1. Above(n) = {1}
    BY <1>1, <1>4, AncestorsAre DEF Above
  <2>2. Cardinality({1}) = 1
    BY FS_Singleton
  <2> QED
    BY <1>4, <2>1, <2>2
<1>5. IsFiniteSet(Above(n)) /\ Cardinality(Above(n)) \in Nat
  BY <1>2
<1> QED
  BY <1>3, <1>4, <1>5

\* The first child comes next.
LEMMA FirstChildNext ==
    ASSUME Proper, NEW n \in Nodes, Children(n) # {}
    PROVE  FirstChild(n) \in Nodes /\ FirstChild(n) # 1 /\ Parent(FirstChild(n)) = n
<1>1. n \in 1 .. doc.size /\ IsTree(doc.parent, doc.size) /\ n \in Nat /\ doc.size \in Nat
  BY ProperFacts DEF Proper
<1>2. PICK c \in 2 .. doc.size : doc.parent[c] = n
  BY DEF Children, Parent
<1>3. n + 1 \in 2 .. doc.size /\ doc.parent[n + 1] = n
  BY <1>1, <1>2, FirstChildIs
<1>4. n + 1 \in 1 .. doc.size /\ n + 1 # 1
  BY <1>1, <1>3
<1> QED
  BY <1>3, <1>4 DEF FirstChild, Nodes, Parent

\* The next sibling comes behind the end of a node; without one the node ends where
\* its parent does.
LEMMA SiblingNext ==
    ASSUME Proper, NEW n \in Nodes, n # 1
    PROVE  /\ NextSiblings(n) = {} => EndOf(Parent(n)) = EndOf(n)
           /\ NextSiblings(n) # {} =>
                 /\ NextSibling(n) = EndOf(n) + 1 /\ NextSibling(n) \in Nodes
                 /\ NextSibling(n) # 1 /\ Parent(NextSibling(n)) = Parent(n)
<1>1. /\ n \in 2 .. doc.size /\ IsTree(doc.parent, doc.size) /\ n \in Nat /\ doc.size \in Nat
      /\ Parent(n) \in Nodes
  <2>1. n \in 1 .. doc.size /\ doc.size \in Nat /\ Parent(n) \in Nodes
    BY ProperFacts
  <2> QED
    BY <2>1 DEF Proper
<1>2. PICK e : e = EndOf(n) /\ Ends(doc.parent, doc.size, n, e) /\ e \in n .. doc.size
  BY EndOfIs
<1>3. NextSiblings(n) = {c \in 2 .. doc.size : doc.parent[c] = doc.parent[n] /\ c > n}
  BY DEF NextSiblings, Children, Parent
<1>4. ASSUME NextSiblings(n) = {} PROVE EndOf(Parent(n)) = EndOf(n)
  <2>1. \A c \in 2 .. doc.size : doc.parent[c] = doc.parent[n] => ~ (c > n)
    BY <1>3, <1>4
  <2>2. Ends(doc.parent, doc.size, doc.parent[n], e)
    BY <1>1, <1>2, <2>1, LastChildEnds
  <2>3. EndOf(Parent(n)) = e
    BY <1>1, <2>2, EndOfIs DEF Parent
  <2> QED
    BY <1>2, <2>3
<1>5. ASSUME NextSiblings(n) # {}
      PROVE  /\ NextSibling(n) = e + 1 /\ e + 1 \in Nodes
             /\ e + 1 # 1 /\ Parent(e + 1) = Parent(n)
  <2>1. \A c \in NextSiblings(n) :
           /\ e + 1 \in 2 .. doc.size /\ e + 1 > n /\ doc.parent[e + 1] = doc.parent[n]
           /\ e + 1 <= c
    <3> TAKE c \in NextSiblings(n)
    <3>1. c \in 2 .. doc.size /\ doc.parent[c] = doc.parent[n] /\ c > n
      BY <1>3
    <3> QED
      BY <1>1, <1>2, <3>1, NextSiblingIs
  <2>2. /\ e + 1 \in 2 .. doc.size /\ e + 1 > n /\ doc.parent[e + 1] = doc.parent[n]
        /\ e + 1 \in NextSiblings(n)
    BY <1>3, <1>5, <2>1
  <2>3. \A x \in NextSiblings(n) : (\A d \in NextSiblings(n) : x <= d) => x = e + 1
    <3> SUFFICES ASSUME NEW x \in NextSiblings(n), \A d \in NextSiblings(n) : x <= d
                 PROVE  x = e + 1
      OBVIOUS
    <3>1. x <= e + 1 /\ e + 1 <= x /\ x \in 2 .. doc.size
      BY <1>3, <2>1, <2>2
    <3> QED
      BY <1>1, <1>2, <3>1
  <2>4. NextSibling(n) = e + 1
    BY <2>1, <2>2, <2>3 DEF NextSibling
  <2>5. e + 1 \in 1 .. doc.size /\ e + 1 # 1
    BY <1>1, <2>2
  <2> QED
    BY <2>2, <2>4, <2>5 DEF Nodes, Parent
<1> QED
  BY <1>2, <1>4, <1>5

\* A node has been left.
LEMMA TailRight ==
    ASSUME Proper, NEW n \in Nodes, NEW c,
           Good(c, IF Kind(n) = "text" THEN n - 1 ELSE EndOf(n), Blocks(Above(n)))
    PROVE  Good(VisitTail(c, n), EndOf(n), Blocks(Above(n) \ {n}))
<1>1. CASE Kind(n) = "text"
  <2>1. VisitTail(c, n) = TextTail(c, n) /\ ~ IsBlock(n)
    BY <1>1 DEF VisitTail, IsBlock
  <2>2. EndOf(n) = n
    BY <1>1, LeafIs
  <2>3. Good(TextTail(c, n), n, Blocks(Above(n)))
    BY <1>1, TextLeft
  <2> QED
    BY <2>1, <2>2, <2>3, BlocksAt
<1>2. CASE Kind(n) # "text" /\ ~ IsBlock(n)
  <2>1. VisitTail(c, n) = c
    BY <1>2 DEF VisitTail
  <2> QED
    BY <1>2, <2>1, BlocksAt
<1>3. CASE Kind(n) # "text" /\ IsBlock(n)
  <2>1. EndOf(n) \in 0 .. doc.size
    <3>1. EndOf(n) \in n .. doc.size /\ n \in 1 .. doc.size /\ doc.size \in Nat
      BY EndOfIs, ProperFacts
    <3> QED
      BY <3>1
  <2> QED
    BY <1>3, <2>1, BlockLeft
<1> QED
  BY <1>1, <1>2, <1>3

\* A node has been entered.
LEMMA HeadRight ==
    ASSUME Proper, NEW n \in Nodes, NEW c, Good(c, n - 1, Blocks(Above(n) \ {n}))
    PROVE  Good(VisitHead(c, n), IF Kind(n) = "text" THEN n - 1 ELSE n, Blocks(Above(n)))
<1>1. CASE Kind(n) \in {"block", "br", "image", "video"}
  BY <1>1, HeadEnds
<1>2. CASE Kind(n) \notin {"block", "br", "image", "video"}
  <2>1. Kind(n) \in {"inline", "text"}
    BY <1>2, ProperFacts DEF AllKinds
  <2>2. VisitHead(c, n) = c /\ ~ IsBlock(n)
    BY <2>1 DEF VisitHead, IsBlock
  <2>3. Good(c, n - 1, Blocks(Above(n)))
    BY <2>2, BlocksAt
  <2> QED
    BY <2>1, <2>2, <2>3, HeadPasses
<1> QED
  BY <1>1, <1>2

-----------------------------------------------------------------------------
(* The document stays what it is, and with it all that is said of it.      *)

\* The nodes, their order and the blocks above them are as the document has them.
LEMMA NodesStay ==
    ASSUME doc' = doc
    PROVE  /\ Texts' = Texts /\ Told' = Told /\ Nodes' = Nodes
           /\ \A S : InOrder(S)' = InOrder(S)
           /\ \A n : IsBlock(n)' = IsBlock(n) /\ IsBreak(n)' = IsBreak(n)
           /\ \A n : Kind(n)' = Kind(n)
           /\ \A n : BlockOf(n)' = BlockOf(n)
           /\ \A n : Above(n)' = Above(n) /\ EndOf(n)' = EndOf(n)
<1>1. Texts' = Texts /\ Told' = Told /\ Nodes' = Nodes
  BY DEF Texts, Told, Media, Nodes, Kind
<1>2. ASSUME NEW S PROVE InOrder(S)' = InOrder(S)
  BY DEF InOrder
<1>3. ASSUME NEW n PROVE IsBlock(n)' = IsBlock(n) /\ IsBreak(n)' = IsBreak(n)
  BY DEF IsBlock, IsBreak, Kind
<1>4. ASSUME NEW n PROVE Kind(n)' = Kind(n)
  BY DEF Kind
<1>5. ASSUME NEW n PROVE BlockOf(n)' = BlockOf(n)
  BY DEF BlockOf, IsBlock, Kind
<1>6. ASSUME NEW n PROVE Above(n)' = Above(n) /\ EndOf(n)' = EndOf(n)
  BY DEF Above, EndOf
<1> QED
  BY <1>1, <1>2, <1>3, <1>4, <1>5, <1>6

\* So are the nodes that are separated,
LEMMA SeparatedStays ==
    ASSUME doc' = doc, NEW m, NEW n PROVE Separated(m, n)' <=> Separated(m, n)
  BY DEF Separated, BlockOf, IsBlock, Kind

\* a run of segments,
LEMMA RunStays ==
    ASSUME doc' = doc, NEW segs, NEW b PROVE IsRun(segs, b)' <=> IsRun(segs, b)
  BY NodesStay, SeparatedStays DEF IsRun

\* the elements that are right,
LEMMA ElementsStay ==
    ASSUME doc' = doc, NEW els, NEW p PROVE ElementsRight(els, p)' <=> ElementsRight(els, p)
  BY RunStays, SeparatedStays DEF ElementsRight

\* and a converter that is right where it has come to.
LEMMA GoodStays ==
    ASSUME doc' = doc, NEW c, NEW p, NEW open PROVE Good(c, p, open)' <=> Good(c, p, open)
<1>1. Kept(c, p)' <=> Kept(c, p)
  BY NodesStay DEF Kept, UpTo
<1>2. PendingRight(c, p)' <=> PendingRight(c, p)
  BY NodesStay, RunStays, SeparatedStays DEF PendingRight
<1>3. Cut(c, p, open)' <=> Cut(c, p, open)
  BY NodesStay DEF Cut
<1>4. StartRight(c, p)' <=> StartRight(c, p)
  BY NodesStay DEF StartRight, SplitAt
<1> QED
  BY <1>1, <1>2, <1>3, <1>4, NodesStay, ElementsStay DEF Good

\* The next state is right when the converter is right where it has come to.
LEMMA StepRight ==
    ASSUME Proper, doc' = doc, node' \in Nodes, phase' \in {"head", "tail", "done"},
           depth' = Cardinality(Above(node')) - 1,
           Good(conv', IF phase' = "done" THEN doc.size
                       ELSE IF phase' = "head" \/ Kind(node') = "text" THEN node' - 1
                       ELSE EndOf(node'),
                IF phase' = "done" THEN {}
                ELSE IF phase' = "head" THEN Blocks(Above(node') \ {node'})
                ELSE Blocks(Above(node')))
    PROVE  Inv'
<1>1. Proper'
  <2>1. IsTree(doc.parent, doc.size)' <=> IsTree(doc.parent, doc.size)
    OBVIOUS
  <2>2. \A n : Parent(n)' = Parent(n)
    BY DEF Parent
  <2> QED
    BY <2>1, <2>2, NodesStay DEF Proper
<1>2. Walking'
  <2>1. Nodes' = Nodes /\ Above(node)' = Above(node')
    BY DEF Nodes, Above
  <2> QED
    BY <2>1 DEF Walking
<1>3. Passed' = IF phase' = "done" THEN doc.size
                ELSE IF phase' = "head" \/ Kind(node') = "text" THEN node' - 1
                ELSE EndOf(node')
  BY DEF Passed, Kind, EndOf
<1>4. OpenBlocks' = IF phase' = "done" THEN {}
                    ELSE IF phase' = "head" THEN Blocks(Above(node') \ {node'})
                    ELSE Blocks(Above(node'))
  BY DEF OpenBlocks, Blocks, Above, IsBlock, Kind
<1>5. Good(conv', Passed', OpenBlocks')
  BY <1>3, <1>4
<1>6. Good(conv, Passed, OpenBlocks)'
  BY <1>5, GoodStays
<1> QED
  BY <1>1, <1>2, <1>6 DEF Inv

\* Before the walk the converter is empty.
LEMMA NothingYet ==
    ASSUME Proper, doc.size \in Nat \ {0}
    PROVE  Good(NewConverter, 0, {})
<1> DEFINE c == NewConverter
<1>1. /\ c.elements = <<>> /\ c.startIndex = 0 /\ c.segments = <<>> /\ c.text = <<>>
      /\ c.whole = <<>> /\ c.crumbs = <<>> /\ c.panicked = FALSE /\ c \in Converters
  BY DEF NewConverter, Converters
<1> HIDE DEF c
<1>2. Segs(c) = <<>> /\ Pending(c) = <<>> /\ Said(c.elements) = <<>>
  BY <1>1, SegsIn, SaidFacts DEF Segs
<1>3. InOrder({}) = <<>>
  BY InOrderNone
<1>4. UpTo(Told, 0) = {} /\ UpTo(Texts, 0) = {}
  <2>1. \A t \in Nodes : ~ (t <= 0)
    BY DEF Nodes
  <2> QED
    BY <2>1, ToldFacts, ProperFacts DEF UpTo
<1>5. Kept(c, 0)
  <2>1. <<>> \o <<>> = <<>>
    OBVIOUS
  <2> QED
    BY <1>1, <1>2, <1>3, <1>4, <2>1 DEF Kept
<1>6. ElementsRight(c.elements, 0)
  BY <1>1 DEF ElementsRight
<1>7. PendingRight(c, 0) /\ Cut(c, 0, {})
  BY <1>1, <1>2 DEF PendingRight, Cut, EndsInText
<1>8. StartRight(c, 0)
  <2>1. doc.start # 0 => ~ (0 >= doc.start)
    BY ProperFacts DEF Proper
  <2> QED
    BY <1>1, <2>1 DEF StartRight
<1>9. Good(c, 0, {})
  BY <1>1, <1>3, <1>5, <1>6, <1>7, <1>8 DEF Good
<1> QED
  BY <1>9 DEF c

\* Visiting the head of a node, and going on to its first child if it has one.
LEMMA EnterRight == ASSUME Inv, Enter PROVE Inv'
<1> DEFINE n == node
           p == IF Kind(n) = "text" THEN n - 1 ELSE n
<1>1. Proper /\ n \in Nodes /\ phase = "head" /\ doc' = doc /\ n \in Nat
      /\ depth = Cardinality(Above(n)) - 1
  BY ProperFacts DEF Inv, Walking, Enter
<1>2. Good(conv, n - 1, Blocks(Above(n) \ {n}))
  BY <1>1 DEF Inv, Passed, OpenBlocks
<1>3. Good(VisitHead(conv, n), p, Blocks(Above(n)))
  BY <1>1, <1>2, HeadRight
<1>4. conv' = VisitHead(conv, n)
  BY DEF Enter
<1>5. CASE Children(n) # {}
  <2>1. node' = FirstChild(n) /\ depth' = depth + 1 /\ phase' = "head"
    BY <1>1, <1>5 DEF Enter
  <2>2. /\ node' \in Nodes /\ node' # 1 /\ Parent(node') = n /\ node' = n + 1
        /\ p = node' - 1
    <3>1. Kind(n) # "text"
      BY <1>1, <1>5, LeafIs
    <3>2. FirstChild(n) \in Nodes /\ FirstChild(n) # 1 /\ Parent(FirstChild(n)) = n
      BY <1>1, <1>5, FirstChildNext
    <3>3. FirstChild(n) = n + 1 /\ (n + 1) - 1 = n
      BY <1>1 DEF FirstChild
    <3> QED
      BY <2>1, <3>1, <3>2, <3>3
  <2>3. /\ Above(node') \ {node'} = Above(n)
        /\ Cardinality(Above(node')) = Cardinality(Above(n)) + 1
        /\ Cardinality(Above(n)) \in Nat
    BY <1>1, <2>2, AboveParent
  <2>4. depth' = Cardinality(Above(node')) - 1
    BY <1>1, <2>1, <2>3
  <2>5. Good(conv', node' - 1, Blocks(Above(node') \ {node'}))
    BY <1>3, <1>4, <2>2, <2>3
  <2> QED
    BY <1>1, <2>1, <2>2, <2>4, <2>5, StepRight
<1>6. CASE Children(n) = {}
  <2>1. node' = n /\ depth' = depth /\ phase' = "tail"
    BY <1>1, <1>6 DEF Enter
  <2>2. EndOf(n) = n
    BY <1>1, <1>6, LeafIs
  <2>3. Good(conv', IF Kind(n) = "text" THEN n - 1 ELSE EndOf(n), Blocks(Above(n)))
    BY <1>3, <1>4, <2>2
  <2> QED
    BY <1>1, <2>1, <2>3, StepRight
<1> QED
  BY <1>5, <1>6

\* The converter when a node is left.
LEMMA LeftRight ==
    ASSUME Inv, phase = "tail", conv' = VisitTail(conv, node)
    PROVE  Good(conv', EndOf(node), Blocks(Above(node) \ {node}))
<1>1. Proper /\ node \in Nodes
  BY DEF Inv, Walking
<1>2. Good(conv, IF Kind(node) = "text" THEN node - 1 ELSE EndOf(node), Blocks(Above(node)))
  BY DEF Inv, Passed, OpenBlocks
<1> QED
  BY <1>1, <1>2, TailRight

\* Visiting the tail of a last child, and going back to its parent.
LEMMA AscendRight == ASSUME Inv, Ascend PROVE Inv'
<1> DEFINE n == node
<1>1. /\ Proper /\ n \in Nodes /\ phase = "tail" /\ doc' = doc /\ phase' = "tail"
      /\ depth = Cardinality(Above(n)) - 1 /\ depth > 0 /\ NextSiblings(n) = {}
      /\ node' = Parent(n) /\ depth' = depth - 1 /\ conv' = VisitTail(conv, n)
  BY DEF Inv, Walking, Ascend
<1>2. n # 1
  <2>1. n = 1 => Cardinality(Above(n)) = 1
    BY <1>1, AboveParent
  <2> QED
    BY <1>1, <2>1
<1>3. /\ node' \in Nodes /\ Above(n) \ {n} = Above(node')
      /\ Cardinality(Above(n)) = Cardinality(Above(node')) + 1
      /\ Cardinality(Above(node')) \in Nat
  BY <1>1, <1>2, AboveParent
<1>4. depth' = Cardinality(Above(node')) - 1
  BY <1>1, <1>3
<1>5. EndOf(node') = EndOf(n)
  BY <1>1, <1>2, SiblingNext
<1>6. Kind(node') # "text"
  <2>1. n \in Children(node')
    <3>1. n \in 2 .. doc.size
      BY <1>1, <1>2, ProperFacts
    <3> QED
      BY <1>1, <3>1 DEF Children
  <2> QED
    BY <1>1, <1>3, <2>1, LeafIs
<1>7. Good(conv', EndOf(node'), Blocks(Above(node')))
  BY <1>1, <1>3, <1>5, LeftRight
<1> QED
  BY <1>1, <1>3, <1>4, <1>6, <1>7, StepRight

\* Visiting the tail of a node, and going on to its sibling or to the end.
LEMMA LeaveRight == ASSUME Inv, Leave PROVE Inv'
<1> DEFINE n == node
<1>1. /\ Proper /\ n \in Nodes /\ phase = "tail" /\ doc' = doc
      /\ depth = Cardinality(Above(n)) - 1 /\ (NextSiblings(n) # {} \/ depth = 0)
      /\ depth' = depth /\ conv' = VisitTail(conv, n)
  BY DEF Inv, Walking, Leave
<1>2. Good(conv', EndOf(n), Blocks(Above(n) \ {n}))
  BY <1>1, LeftRight
<1>3. CASE n = 1
  <2>1. phase' = "done" /\ node' = n
    BY <1>3 DEF Leave
  <2>2. EndOf(n) = doc.size
    <3>1. Ends(doc.parent, doc.size, 1, EndOf(1)) /\ IsTree(doc.parent, doc.size)
      BY <1>1, <1>3, EndOfIs DEF Proper
    <3> QED
      BY <1>3, <3>1, BodyEnds
  <2>3. Blocks(Above(n) \ {n}) = {}
    BY <1>1, <1>3, AboveParent DEF Blocks
  <2> QED
    BY <1>1, <1>2, <2>1, <2>2, <2>3, StepRight
<1>4. CASE n # 1
  <2>1. NextSiblings(n) # {} /\ phase' = "head" /\ node' = NextSibling(n)
    <3>1. Cardinality(Above(n)) - 1 > 0
      BY <1>1, <1>4, AboveParent
    <3>2. depth # 0
      BY <1>1, <3>1
    <3> QED
      BY <1>1, <1>4, <3>2 DEF Leave
  <2>2. /\ node' = EndOf(n) + 1 /\ node' \in Nodes /\ node' # 1
        /\ Parent(node') = Parent(n)
    BY <1>1, <1>4, <2>1, SiblingNext
  <2>3. node' - 1 = EndOf(n)
    <3>1. EndOf(n) \in n .. doc.size /\ n \in 1 .. doc.size /\ doc.size \in Nat
      BY <1>1, EndOfIs, ProperFacts
    <3> QED
      BY <2>2, <3>1
  <2>4. /\ Above(n) \ {n} = Above(Parent(n))
        /\ Above(node') \ {node'} = Above(Parent(n))
        /\ Cardinality(Above(n)) = Cardinality(Above(node'))
    BY <1>1, <1>4, <2>2, AboveParent
  <2>5. Good(conv', node' - 1, Blocks(Above(node') \ {node'}))
    BY <1>2, <2>3, <2>4
  <2> QED
    BY <1>1, <2>1, <2>2, <2>4, <2>5, StepRight
<1> QED
  BY <1>3, <1>4

\* The invariant speaks of the converter only.
LEMMA StutterRight == ASSUME Inv, UNCHANGED vars PROVE Inv'
<1>1. doc' = doc /\ node' = node /\ depth' = depth /\ phase' = phase /\ conv' = conv
  BY DEF vars
<1> QED
  BY <1>1, StepRight DEF Inv, Walking, Passed, OpenBlocks

-----------------------------------------------------------------------------
(* What the invariant says when the walk is done.                          *)

\* At the end nothing is pending.
LEMMA NothingPending ==
    ASSUME Inv, phase = "done"
    PROVE  /\ Good(conv, doc.size, {}) /\ Segs(conv) = <<>> /\ Pending(conv) = <<>>
           /\ conv \in Converters
<1>1. Good(conv, doc.size, {}) /\ Proper
  BY DEF Inv, Passed, OpenBlocks
<1>2. conv.crumbs = <<>> /\ conv \in Converters /\ PendingRight(conv, doc.size)
  BY <1>1, ProperFacts, InOrderNone DEF Good
<1>3. Segs(conv) = <<>>
  BY <1>2 DEF PendingRight
<1> QED
  BY <1>1, <1>2, <1>3, SegsIn

\* What has been said is all there is to say when nothing is pending.
LEMMA InvNothingLost == ASSUME Inv PROVE NothingLost
<1> SUFFICES ASSUME phase = "done" PROVE AllNodes = InOrder(Texts \union Media)
  BY DEF NothingLost
<1>1. Good(conv, doc.size, {}) /\ Pending(conv) = <<>> /\ conv \in Converters /\ Proper
  BY NothingPending DEF Inv
<1>2. Said(conv.elements) \o Pending(conv) = InOrder(UpTo(Told, doc.size))
  BY <1>1 DEF Good, Kept
<1>3. Said(conv.elements) \o <<>> = Said(conv.elements)
  <2>1. conv.elements \in Seq(Element)
    BY <1>1 DEF Converters
  <2>2. Said(conv.elements) \in Seq(Nat)
    BY <2>1, SaidFacts
  <2> QED
    BY <2>2, ConcatEmptySeq
<1>4. UpTo(Told, doc.size) = Told
  <2>1. \A n \in Told : n <= doc.size
    <3>1. \A n \in 1 .. doc.size : n <= doc.size
      BY <1>1, ProperFacts
    <3>2. Told \subseteq 1 .. doc.size
      BY <1>1, ProperFacts, ToldFacts
    <3> QED
      BY <3>1, <3>2
  <2> QED
    BY <2>1 DEF UpTo
<1>5. AllNodes = Said(conv.elements)
  BY DEF AllNodes, Said
<1> QED
  BY <1>1, <1>2, <1>3, <1>4, <1>5 DEF Told

\* The text elements are runs when the elements are right.
LEMMA InvElementsAreRuns == ASSUME Inv PROVE ElementsAreRuns
<1> SUFFICES ASSUME phase = "done", NEW i \in TextElements
             PROVE  LET e == conv.elements[i]
                        texts == SegmentTexts(e.segments)
                    IN  /\ \A t \in Range(texts) : BlockOf(t) = e.block
                        /\ \A seg \in Range(e.segments) :
                              seg.before = InOrder({t \in Texts : t < seg.texts[1]})
                        /\ \A j \in 1 .. Len(texts) - 1 : ~Separated(texts[j], texts[j + 1])
                        /\ i + 1 \in TextElements =>
                              Separated(Last(texts), SegmentTexts(conv.elements[i + 1].segments)[1])
  BY DEF ElementsAreRuns
<1>1. ElementsRight(conv.elements, doc.size) /\ conv.elements \in Seq(Element)
  BY NothingPending DEF Good, Converters
<1> DEFINE els == conv.elements
           e == els[i]
           texts == SegmentTexts(e.segments)
<1>2. i \in DOMAIN els /\ IsText(e)
  BY DEF TextElements, IsText
<1>3. IsRun(e.segments, e.block)
  BY <1>1, <1>2 DEF ElementsRight
<1>4. \A t \in Range(texts) : BlockOf(t) = e.block
  BY <1>3 DEF IsRun, Range
<1>5. \A seg \in Range(e.segments) : seg.before = InOrder({t \in Texts : t < seg.texts[1]})
  BY <1>3 DEF IsRun, Range
<1>6. \A j \in 1 .. Len(texts) - 1 : ~Separated(texts[j], texts[j + 1])
  BY <1>3 DEF IsRun
<1>7. ASSUME i + 1 \in TextElements
      PROVE  Separated(Last(texts), SegmentTexts(els[i + 1].segments)[1])
  <2>1. i + 1 \in DOMAIN els /\ IsText(els[i + 1])
    BY <1>7 DEF TextElements, IsText
  <2>2. i + 1 > 1 /\ (i + 1) - 1 = i
    BY <1>1, <1>2, LenProperties
  <2>3. Separated(LastText(els[(i + 1) - 1]), FirstText(els[i + 1]))
    BY <1>1, <1>2, <2>1, <2>2 DEF ElementsRight
  <2> QED
    BY <2>2, <2>3 DEF LastText, FirstText
<1> QED
  BY <1>4, <1>5, <1>6, <1>7

\* The elements in front of the start node are the first ones: as many as the split says.
LEMMA InvStartsAtBlock == ASSUME Inv PROVE StartsAtBlock
<1> DEFINE els == conv.elements
           Front1 == {i \in DOMAIN els : ElementNodes(els[i])[1] < doc.start}
<1> SUFFICES ASSUME phase = "done", doc.start # 0, IsBlock(doc.start), Front1 # {}
             PROVE  conv.startIndex = Cardinality(Front1)
  BY DEF StartsAtBlock
<1>1. StartRight(conv, doc.size) /\ els \in Seq(Element) /\ Proper
  BY NothingPending DEF Good, Converters, Inv
<1>2. doc.size >= doc.start
  <2>1. doc.start \in 0 .. doc.size /\ doc.size \in Nat
    BY <1>1, ProperFacts DEF Proper
  <2> QED
    BY <2>1
<1>3. PICK k \in Nat : SplitAt(els, k) /\ (k > 0 => conv.startIndex = k)
  BY <1>1, <1>2 DEF StartRight
<1>4. DOMAIN els = 1 .. Len(els) /\ Len(els) \in Nat
  BY <1>1, LenProperties
<1>5. Front1 = 1 .. k
  <2>1. \A i \in 1 .. Len(els) : i \in Front1 <=> i <= k
    BY <1>3, <1>4 DEF SplitAt
  <2>2. k <= Len(els)
    BY <1>3, <1>4 DEF SplitAt
  <2>3. Front1 \subseteq 1 .. Len(els)
    BY <1>4
  <2> HIDE DEF Front1, els
  <2>4. ASSUME NEW i \in Front1 PROVE i \in 1 .. k
    <3>1. i \in 1 .. Len(els) /\ i <= k
      BY <2>1, <2>3
    <3> QED
      BY <1>4, <3>1
  <2>5. ASSUME NEW i \in 1 .. k PROVE i \in Front1
    <3>1. i \in 1 .. Len(els) /\ i <= k
      BY <1>4, <2>2
    <3> QED
      BY <2>1, <3>1
  <2> QED
    BY <2>4, <2>5
<1>6. k > 0
  <2> HIDE DEF Front1
  <2> QED
    BY <1>3, <1>5
<1>7. Cardinality(1 .. k) = k
  <2>1. Cardinality(1 .. k) = IF 1 > k THEN 0 ELSE k - 1 + 1
    BY <1>3, FS_Interval
  <2> QED
    BY <1>3, <1>6, <2>1
<1> QED
  BY <1>3, <1>5, <1>6, <1>7

-----------------------------------------------------------------------------
(* The converter of a publication.                                         *)

\* A document before it is converted.
Starting ==
    /\ Proper
    /\ node = 1 /\ depth = 0 /\ phase = "head" /\ conv = NewConverter

\* Before its document is walked the converter is right.
LEMMA StartingRight == Starting => Inv
<1> SUFFICES ASSUME Starting PROVE Inv
  OBVIOUS
<1>1. /\ Proper /\ node = 1 /\ depth = 0 /\ phase = "head" /\ conv = NewConverter
      /\ 1 \in Nodes /\ doc.size \in Nat \ {0}
  BY ProperFacts DEF Starting
<1>2. Above(1) \ {1} = {} /\ Cardinality(Above(1)) = 1
  BY <1>1, AboveParent
<1>3. Walking
  BY <1>1, <1>2 DEF Walking
<1>4. Good(NewConverter, 0, {})
  BY <1>1, NothingYet
<1>5. Passed = 0 /\ OpenBlocks = {}
  BY <1>1, <1>2 DEF Passed, OpenBlocks, Blocks
<1> QED
  BY <1>1, <1>3, <1>4, <1>5 DEF Inv

\* The documents that are converted are trees.
LEMMA InitStarting == ASSUME Init PROVE Starting
<1>1. node = 1 /\ depth = 0 /\ phase = "head" /\ conv = NewConverter
  BY DEF Init
<1>2. ASSUME NEW size \in Nat \ {0}, NEW t \in Trees(size),
             doc.size = size, doc.parent = t.parent, doc.kind = t.kind,
             doc.start \in 0 .. size
      PROVE  Proper
  <2>1. /\ t.parent \in [2 .. size -> 1 .. size] /\ t.kind \in [2 .. size -> Kinds]
        /\ \A i \in 2 .. size :
            /\ t.parent[i] < i
            /\ t.parent[i] \in Ancestors(t.parent, i - 1)
            /\ t.parent[i] # 1 => t.kind[t.parent[i]] \in {"block", "inline"}
    BY <1>2 DEF Trees
  <2>2. Rooted(t.parent, size)
    <3>1. \A i \in 2 .. size : t.parent[i] \in 1 .. size /\ i \in Int
      BY <2>1
    <3>2. \A i \in 2 .. size : t.parent[i] \in 1 .. i - 1
      BY <2>1, <3>1
    <3> QED
      BY <3>2 DEF Rooted
  <2>3. IsTree(doc.parent, doc.size)
    BY <1>2, <2>1, <2>2 DEF IsTree
  <2>4. \A n \in 2 .. doc.size : doc.kind[n] \in AllKinds
    BY <1>2, <2>1, HTMLConverterAssumption
  <2>5. \A n \in 2 .. doc.size : Parent(n) # 1 => Kind(Parent(n)) \in {"block", "inline"}
    BY <1>2, <2>1 DEF Parent, Kind
  <2>6. doc.start # 0 => doc.start # 1 /\ Kind(doc.start) # "text"
    BY DEF Init
  <2> QED
    BY <1>2, <2>3, <2>4, <2>5, <2>6 DEF Proper
<1>3. Proper
  <2>1. CASE doc \in UNION Annotated
    <3>1. /\ doc.size \in Nat \ {0} /\ doc.start \in 0 .. doc.size
          /\ [parent |-> doc.parent, kind |-> doc.kind] \in Trees(doc.size)
      BY <2>1, AnnotatedAssumption
    <3> DEFINE t == [parent |-> doc.parent, kind |-> doc.kind]
    <3>2. t.parent = doc.parent /\ t.kind = doc.kind
      OBVIOUS
    <3> QED
      BY <1>2, <3>1, <3>2
  <2>2. CASE \E size \in 1 .. MaxNodes : \E t \in Trees(size) :
                \E mark \in Marks \intersect ((0 .. size) \X (0 .. size)) :
                   doc = [size |-> size, parent |-> t.parent, kind |-> t.kind,
                          start |-> mark[1], tongue |-> mark[2],
                          attr |-> NoAttributes(size)]
    <3>a. PICK size \in 1 .. MaxNodes :
                \E t \in Trees(size) :
                \E mark \in Marks \intersect ((0 .. size) \X (0 .. size)) :
                   doc = [size |-> size, parent |-> t.parent, kind |-> t.kind,
                          start |-> mark[1], tongue |-> mark[2],
                          attr |-> NoAttributes(size)]
      BY <2>2
    <3>b. PICK t \in Trees(size) :
                \E mark \in Marks \intersect ((0 .. size) \X (0 .. size)) :
                   doc = [size |-> size, parent |-> t.parent, kind |-> t.kind,
                          start |-> mark[1], tongue |-> mark[2],
                          attr |-> NoAttributes(size)]
      BY <3>a
    <3>1. PICK mark \in Marks \intersect ((0 .. size) \X (0 .. size)) :
                   doc = [size |-> size, parent |-> t.parent, kind |-> t.kind,
                          start |-> mark[1], tongue |-> mark[2],
                          attr |-> NoAttributes(size)]
      BY <3>b
    <3>2. /\ doc.size = size /\ doc.parent = t.parent /\ doc.kind = t.kind
          /\ doc.start = mark[1] /\ mark[1] \in 0 .. size
      BY <3>1
    <3>3. size \in Nat \ {0}
      BY HTMLConverterAssumption
    <3> QED
      BY <1>2, <3>2, <3>3
  <2> QED
    BY <2>1, <2>2 DEF Init
<1> QED
  BY <1>1, <1>3 DEF Starting

\* The walk keeps the invariant, and what follows a walk starts another one at most.
LEMMA PCStep == Inv /\ [PCNext]_<<vars, found, readVars>> => Inv'
<1>0. Starting' => Inv'
  BY StartingRight, PTL
<1> SUFFICES ASSUME Inv, [PCNext]_<<vars, found, readVars>> PROVE Inv'
  OBVIOUS
<1>1. CASE Convert
  <2>1. Enter \/ Ascend \/ Leave
    BY <1>1 DEF Convert, Next
  <2> QED
    BY <2>1, EnterRight, AscendRight, LeaveRight
<1>2. CASE Result
  <2>1. doc' = NoDocument /\ node' = 1 /\ depth' = 0 /\ phase' = "head" /\ conv' = NewConverter
    BY <1>2 DEF Result
  <2>2. doc'.size = 1 /\ doc'.start = 0
    BY <2>1 DEF NoDocument
  <2>3. \A n : n \notin 2 .. 1
    OBVIOUS
  <2>4. Proper'
    <3>1. IsTree(doc'.parent, doc'.size)
      BY <2>2, <2>3 DEF IsTree, Rooted
    <3> QED
      BY <2>2, <2>3, <3>1 DEF Proper
  <2> QED
    BY <1>0, <2>1, <2>4 DEF Starting
<1>3. CASE UNCHANGED vars
  BY <1>3, StutterRight
<1>4. CASE NoResult \/ OpenPublication \/ Read
  BY <1>4, StutterRight DEF NoResult, OpenPublication, Read
<1> QED
  BY <1>1, <1>2, <1>3, <1>4 DEF PCNext

\* The inductive invariant of the converter, which of every HTML says at each step of
\* traverseNode what the elements made so far and those pending contain.
THEOREM ContentInvariant == PCSpec => []Inv
<1>1. PCInit => Inv
  BY InitStarting, StartingRight DEF PCInit
<1> QED
  BY <1>1, PCStep, PTL DEF PCSpec

\* A converted HTML keeps every text and every image, once and in the order of the
\* document, whatever flushes text and splits elements on the way.
THEOREM NothingIsLost == PCSpec => []NothingLost
<1>1. Inv => NothingLost
  BY InvNothingLost
<1> QED
  BY <1>1, ContentInvariant, PTL

\* Every text element is a run of texts of one block without a break between them,
\* and adjacent ones are different runs.
THEOREM TextsComeInRuns == PCSpec => []ElementsAreRuns
<1>1. Inv => ElementsAreRuns
  BY InvElementsAreRuns
<1> QED
  BY <1>1, ContentInvariant, PTL

\* The start of a locator that names a block is the number of elements in front of it,
\* though the converter sets it when it comes to the block and flushes text later.
THEOREM StartIsFound == PCSpec => []StartsAtBlock
<1>1. Inv => StartsAtBlock
  BY InvStartsAtBlock
<1> QED
  BY <1>1, ContentInvariant, PTL

-----------------------------------------------------------------------------
(* Where the elements of a resource begin among those of a publication.    *)

\* Offset, of publication p.
OffsetOf(p, r) ==
    LET upTo[q \in 1 .. N + 1] ==
            IF q = 1 THEN 0
            ELSE upTo[q - 1] + (IF q - 1 \in p.html THEN p.size[q - 1] ELSE 0)
    IN  upTo[r]

\* The elements of resource r that count.
SizeOf(p, r) == IF r \in p.html THEN p.size[r] ELSE 0

\* The function that Offset computes.
Offsetting(f, p) ==
    f = [q \in 1 .. N + 1 |->
            IF q = 1 THEN 0
            ELSE f[q - 1] + (IF q - 1 \in p.html THEN p.size[q - 1] ELSE 0)]

\* What the publications are.
LEMMA ShapeFacts ==
    /\ N \in Nat \ {0}
    /\ \A p \in Shapes :
          /\ \A r \in 1 .. N : p.size[r] \in Nat /\ SizeOf(p, r) \in Nat
          /\ p.html \subseteq 1 .. N /\ p.flaky \subseteq p.html
          /\ p.start.res \in 1 .. N /\ p.start.index \in 0 .. p.size[p.start.res]
<1>1. /\ N \in Nat \ {0} /\ MaxSize \in Nat
      /\ \A p \in Shapes :
            /\ p.size \in [1 .. N -> 0 .. MaxSize]
            /\ p.html \subseteq 1 .. N /\ p.flaky \subseteq p.html
            /\ p.start.res \in 1 .. N /\ p.start.index \in 0 .. p.size[p.start.res]
  BY PublicationContentAssumption DEF Reading!ContentIteratorAssumption
<1>2. ASSUME NEW p \in Shapes, NEW r \in 1 .. N
      PROVE  p.size[r] \in Nat /\ SizeOf(p, r) \in Nat
  <2>1. p.size[r] \in Nat
    BY <1>1
  <2> QED
    BY <2>1 DEF SizeOf
<1> QED
  BY <1>1, <1>2

\* The sums of the first of some numbers.
LEMMA SumsExist ==
    ASSUME NEW n \in Nat, NEW s, \A r \in 1 .. n : s[r] \in Nat
    PROVE  \E f \in [0 .. n -> Nat] :
               f[0] = 0 /\ \A r \in 1 .. n : f[r] = f[r - 1] + s[r]
<1> DEFINE M == Nat
           e == 0
           step == [r \in 1 .. n |-> [x \in M |-> x + s[r]]]
<1>1. e \in M
  OBVIOUS
<1>2. step \in [1 .. n -> [M -> M]]
  OBVIOUS
<1>3. \A r \in 1 .. n : \A x \in M : step[r][x] = x + s[r]
  OBVIOUS
<1> HIDE DEF M, e, step
<1>4. PICK f \in [0 .. n -> M] : f[0] = e /\ \A r \in 1 .. n : f[r] = step[r][f[r - 1]]
  BY <1>1, <1>2, RecursionOnNat
<1>5. ASSUME NEW r \in 1 .. n PROVE f[r] = f[r - 1] + s[r]
  <2>1. r - 1 \in 0 .. n
    OBVIOUS
  <2>2. f[r - 1] \in M /\ f[r] = step[r][f[r - 1]]
    BY <1>4, <2>1
  <2> QED
    BY <1>3, <2>2
<1> QED
  BY <1>4, <1>5 DEF M, e

\* There is one.
LEMMA OffsettingExists ==
    ASSUME NEW p \in Shapes PROVE \E f : Offsetting(f, p)
<1>1. PICK n \in Nat : n = N
  BY ShapeFacts
<1> DEFINE s == [r \in 1 .. n |-> SizeOf(p, r)]
<1>2. s \in [1 .. n -> Nat] /\ \A r \in 1 .. n : s[r] = SizeOf(p, r)
  BY <1>1, ShapeFacts
<1> HIDE DEF s
<1>3. PICK f \in [0 .. n -> Nat] : f[0] = 0 /\ \A r \in 1 .. n : f[r] = f[r - 1] + s[r]
  BY <1>2, SumsExist
<1> DEFINE g == [q \in 1 .. N + 1 |-> f[q - 1]]
<1>4. ASSUME NEW q \in 1 .. N + 1
      PROVE  g[q] = IF q = 1 THEN 0
                    ELSE g[q - 1] + (IF q - 1 \in p.html THEN p.size[q - 1] ELSE 0)
  <2>1. CASE q = 1
    BY <1>3, <2>1
  <2>2. CASE q # 1
    <3>1. q - 1 \in 1 .. N /\ q - 1 \in 1 .. N + 1 /\ (q - 1) - 1 \in 0 .. N
      BY <2>2, ShapeFacts
    <3>2. g[q] = f[q - 1] /\ g[q - 1] = f[(q - 1) - 1]
      BY <3>1
    <3>5. f[q - 1] = f[(q - 1) - 1] + SizeOf(p, q - 1)
      BY <1>1, <1>2, <1>3, <3>1
    <3> QED
      BY <2>2, <3>2, <3>5 DEF SizeOf
  <2> QED
    BY <2>1, <2>2
<1>5. Offsetting(g, p)
  BY <1>4, Zenon DEF Offsetting
<1> QED
  BY <1>5

\* The offsets grow by the sizes.
LEMMA OffsetFacts ==
    ASSUME NEW p \in Shapes
    PROVE  /\ OffsetOf(p, 1) = 0
           /\ \A r \in 1 .. N + 1 : OffsetOf(p, r) \in Nat
           /\ \A r \in 1 .. N : OffsetOf(p, r + 1) = OffsetOf(p, r) + SizeOf(p, r)
<1> DEFINE g == CHOOSE f : Offsetting(f, p)
<1>1. Offsetting(g, p)
  BY OffsettingExists
<1>2. \A r : OffsetOf(p, r) = g[r]
  BY DEF OffsetOf, Offsetting
<1> HIDE DEF g
<1>3. ASSUME NEW q \in 1 .. N + 1
      PROVE  g[q] = IF q = 1 THEN 0
                    ELSE g[q - 1] + (IF q - 1 \in p.html THEN p.size[q - 1] ELSE 0)
  BY <1>1, Zenon DEF Offsetting
<1>4. g[1] = 0
  BY <1>3, ShapeFacts
<1>5. ASSUME NEW r \in 1 .. N PROVE g[r + 1] = g[r] + SizeOf(p, r)
  <2>1. r + 1 \in 1 .. N + 1 /\ r + 1 # 1 /\ (r + 1) - 1 = r
    BY ShapeFacts
  <2> QED
    BY <1>3, <2>1 DEF SizeOf
<1> DEFINE T == {k \in 0 .. N : g[k + 1] \in Nat}
<1>6. 0 \in T
  BY <1>4, ShapeFacts
<1>7. ASSUME NEW k \in 1 .. N, k - 1 \in T PROVE k \in T
  <2>1. g[(k - 1) + 1] \in Nat /\ (k - 1) + 1 = k /\ k \in 0 .. N
    BY <1>7, ShapeFacts
  <2>2. SizeOf(p, k) \in Nat
    BY ShapeFacts
  <2>3. g[k + 1] \in Nat
    BY <1>5, <2>1, <2>2
  <2> QED
    BY <2>1, <2>3
<1>8. \A r \in 1 .. N + 1 : g[r] \in Nat
  <2>1. 0 .. N \subseteq T
    <3> HIDE DEF T
    <3> QED
      BY <1>6, <1>7, ShapeFacts, InductionUpTo
  <2> TAKE r \in 1 .. N + 1
  <2>2. r - 1 \in 0 .. N /\ (r - 1) + 1 = r
    BY ShapeFacts
  <2> QED
    BY <2>1, <2>2
<1> QED
  BY <1>2, <1>4, <1>5, <1>8

\* Offsets never fall, and stay over resources without elements.
LEMMA OffsetUp ==
    ASSUME NEW p \in Shapes, NEW r \in 1 .. N + 1, NEW s \in 1 .. N + 1, r <= s
    PROVE  /\ OffsetOf(p, r) <= OffsetOf(p, s)
           /\ (\A t \in r .. s - 1 : SizeOf(p, t) = 0) => OffsetOf(p, r) = OffsetOf(p, s)
<1> DEFINE O(t) == OffsetOf(p, t)
           T == {k \in 0 .. s - r :
                    /\ O(r) <= O(r + k)
                    /\ (\A t \in r .. s - 1 : SizeOf(p, t) = 0) => O(r) = O(r + k)}
<1>1. /\ N \in Nat /\ \A t \in 1 .. N + 1 : O(t) \in Nat
      /\ \A t \in 1 .. N : O(t + 1) = O(t) + SizeOf(p, t) /\ SizeOf(p, t) \in Nat
  BY OffsetFacts, ShapeFacts
<1> HIDE DEF O
<1>2. 0 \in T
  BY <1>1
<1>3. ASSUME NEW k \in 1 .. s - r, k - 1 \in T PROVE k \in T
  <2> DEFINE q == r + (k - 1)
  <2>1. q \in 1 .. N /\ q + 1 = r + k /\ q \in r .. s - 1 /\ q \in 1 .. N + 1
        /\ k \in 0 .. s - r /\ q + 1 \in 1 .. N + 1
    BY <1>1
  <2>2. /\ O(r) <= O(q)
        /\ (\A t \in r .. s - 1 : SizeOf(p, t) = 0) => O(r) = O(q)
    BY <1>3
  <2>3. O(q + 1) = O(q) + SizeOf(p, q) /\ SizeOf(p, q) \in Nat /\ O(q) \in Nat /\ O(r) \in Nat
    BY <1>1, <2>1
  <2> HIDE DEF q
  <2>4. O(r) <= O(q + 1)
    BY <2>2, <2>3
  <2>5. (\A t \in r .. s - 1 : SizeOf(p, t) = 0) => O(r) = O(q + 1)
    BY <2>1, <2>2, <2>3
  <2> QED
    BY <2>1, <2>4, <2>5
<1>4. s - r \in Nat /\ s - r \in 0 .. s - r /\ r + (s - r) = s
  BY <1>1
<1>5. s - r \in T
  <2> HIDE DEF T
  <2>1. 0 .. s - r \subseteq T
    BY <1>2, <1>3, <1>4, InductionUpTo
  <2> QED
    BY <1>4, <2>1
<1> QED
  BY <1>4, <1>5 DEF O

-----------------------------------------------------------------------------
(* Where an iterator is.                                                   *)

\* An iterator of an HTML resource, at one of its elements or not yet moved.
Iterators ==
    {i \in [res : pub.html, index : Int, start : Nat, parsed : BOOLEAN] :
        i.start <= pub.size[i.res] /\ i.index \in -1 .. pub.size[i.res] - 1}

Off(r) == OffsetOf(pub, r)

\* The elements in front of the next one, and those up to the one before.
Ahead(i) == Off(i.res) + (IF i.index = -1 THEN i.start ELSE i.index + 1)
Behind(i) == Off(i.res) + (IF i.index = -1 THEN i.start ELSE i.index)

PlaceOf(i) ==
    IF i.index = -1 THEN 2 * (Off(i.res) + i.start) ELSE 2 * (Off(i.res) + i.index) + 1

Length == Off(N + 1)

ReadInv ==
    /\ ~ opened => it = Reading!NoIterator /\ current = Reading!NoElement
    /\ opened => pub \in Shapes /\ (it = Reading!NoIterator \/ it \in Iterators)

\* What an iterator is of.
LEMMA IteratorFacts ==
    ASSUME pub \in Shapes, NEW i \in Iterators
    PROVE  /\ i.res \in 1 .. N /\ i.res \in pub.html /\ i.res \in Nat
           /\ pub.size[i.res] \in Nat /\ SizeOf(pub, i.res) = pub.size[i.res]
           /\ i.start \in 0 .. pub.size[i.res] /\ i.index \in -1 .. pub.size[i.res] - 1
           /\ Off(i.res) \in Nat /\ Length \in Nat
           /\ Off(i.res + 1) = Off(i.res) + pub.size[i.res]
           /\ Off(i.res + 1) <= Length
           /\ i # Reading!NoIterator
<1>1. /\ i.res \in pub.html /\ i.start \in Nat /\ i.index \in Int
      /\ i.start <= pub.size[i.res] /\ i.index \in -1 .. pub.size[i.res] - 1
  BY DEF Iterators
<1>2. i.res \in 1 .. N /\ N \in Nat /\ pub.size[i.res] \in Nat
  BY <1>1, ShapeFacts
<1>3. SizeOf(pub, i.res) = pub.size[i.res]
  BY <1>1 DEF SizeOf
<1>4. Off(i.res) \in Nat /\ Length \in Nat /\ Off(i.res + 1) = Off(i.res) + pub.size[i.res]
  <2>1. i.res \in 1 .. N + 1 /\ N + 1 \in 1 .. N + 1
    BY <1>2
  <2> QED
    BY <1>2, <1>3, <2>1, OffsetFacts DEF Off, Length
<1>5. Off(i.res + 1) <= Length
  <2>1. i.res + 1 \in 1 .. N + 1 /\ N + 1 \in 1 .. N + 1 /\ i.res + 1 <= N + 1
    BY <1>2
  <2> QED
    BY <2>1, OffsetUp DEF Off, Length
<1>6. i # Reading!NoIterator
  <2>1. Reading!NoIterator.res = 0
    BY DEF Reading!NoIterator
  <2>2. i.res # 0
    BY <1>2
  <2> QED
    BY <2>1, <2>2
<1> QED
  BY <1>1, <1>2, <1>3, <1>4, <1>5, <1>6

\* The place of an iterator is the gap in front of its next element, or the element
\* before that.
LEMMA PlaceFacts ==
    ASSUME pub \in Shapes, NEW i \in Iterators
    PROVE  /\ Ahead(i) \in Nat /\ Ahead(i) <= Length
           /\ PlaceOf(i) = 2 * Ahead(i) \/ PlaceOf(i) = 2 * Ahead(i) - 1
           /\ Behind(i) \in Nat
           /\ PlaceOf(i) = 2 * Behind(i) \/ PlaceOf(i) = 2 * Behind(i) + 1
           /\ Behind(i) <= Length
<1>1. PICK o, l, s, t, x :
         /\ o = Off(i.res) /\ l = Length /\ s = pub.size[i.res] /\ t = i.start /\ x = i.index
         /\ o \in Nat /\ l \in Nat /\ s \in Nat /\ t \in 0 .. s /\ x \in -1 .. s - 1
         /\ o + s <= l
  BY IteratorFacts
<1>2. /\ Ahead(i) = o + (IF x = -1 THEN t ELSE x + 1)
      /\ Behind(i) = o + (IF x = -1 THEN t ELSE x)
      /\ PlaceOf(i) = IF x = -1 THEN 2 * (o + t) ELSE 2 * (o + x) + 1
  BY <1>1 DEF Ahead, Behind, PlaceOf
<1> QED
  BY <1>1, <1>2

\* An element in a direction, and where the iterator is then.
LEMMA HasFacts ==
    ASSUME pub \in Shapes, NEW i \in Iterators
    PROVE  /\ Reading!HTMLIndex(i, 1) = Ahead(i) - Off(i.res)
           /\ Reading!HTMLIndex(i, -1) = Behind(i) - Off(i.res) - 1
           /\ Reading!HTMLHas(i, 1) <=> Ahead(i) < Off(i.res) + pub.size[i.res]
           /\ Reading!HTMLHas(i, -1) <=> Behind(i) > Off(i.res)
           /\ ~ Reading!HTMLHas(i, 1) => Ahead(i) = Off(i.res + 1)
           /\ ~ Reading!HTMLHas(i, -1) => Behind(i) = Off(i.res)
<1>1. PICK o, s, t, x :
         /\ o = Off(i.res) /\ s = pub.size[i.res] /\ t = i.start /\ x = i.index
         /\ o \in Nat /\ s \in Nat /\ t \in 0 .. s /\ x \in -1 .. s - 1
         /\ Off(i.res + 1) = o + s
  BY IteratorFacts
<1>2. /\ Ahead(i) = o + (IF x = -1 THEN t ELSE x + 1)
      /\ Behind(i) = o + (IF x = -1 THEN t ELSE x)
  BY <1>1 DEF Ahead, Behind
<1>3. /\ Reading!HTMLIndex(i, 1) = (IF x = -1 THEN t - 1 ELSE x) + 1
      /\ Reading!HTMLIndex(i, -1) = (IF x = -1 THEN t ELSE x) - 1
  BY <1>1 DEF Reading!HTMLIndex, Reading!Fwd
<1>4. /\ Reading!HTMLHas(i, 1) <=> Reading!HTMLIndex(i, 1) \in 0 .. s - 1
      /\ Reading!HTMLHas(i, -1) <=> Reading!HTMLIndex(i, -1) \in 0 .. s - 1
  BY <1>1 DEF Reading!HTMLHas
<1>5. PICK a, b, f, g :
         /\ a = Ahead(i) /\ b = Behind(i)
         /\ f = Reading!HTMLIndex(i, 1) /\ g = Reading!HTMLIndex(i, -1)
  OBVIOUS
<1>6. /\ a \in Nat /\ b \in Nat /\ f \in Int /\ g \in Int
      /\ f = a - o /\ g = b - o - 1
  BY <1>1, <1>2, <1>3, <1>5
<1>7. a >= o /\ a <= o + s /\ b >= o /\ b <= o + s
  BY <1>1, <1>2, <1>5
<1>8. (f \in 0 .. s - 1 <=> a < o + s) /\ (g \in 0 .. s - 1 <=> b > o)
  BY <1>1, <1>6, <1>7
<1> QED
  BY <1>1, <1>4, <1>5, <1>6, <1>7, <1>8

\* An iterator that has moved.
Moved(j, x) == [j EXCEPT !.index = x, !.parsed = TRUE]

\* What its fields are then.
LEMMA IteratorMoved ==
    ASSUME NEW A, NEW x \in Int,
           NEW j \in [res : A, index : Int, start : Nat, parsed : BOOLEAN]
    PROVE  Moved(j, x)
               = [res |-> j.res, index |-> x, start |-> j.start, parsed |-> TRUE]
<1>1. PICK k \in [res : A, index : Int, start : Nat, parsed : BOOLEAN] :
          k = Moved(j, x)
  BY DEF Moved
<1>2. k.res = j.res /\ k.index = x /\ k.start = j.start /\ k.parsed = TRUE
  BY <1>1 DEF Moved
<1>3. k = [res |-> k.res, index |-> k.index, start |-> k.start, parsed |-> k.parsed]
  OBVIOUS
<1> QED
  BY <1>1, <1>2, <1>3, Zenon

\* An iterator whose resource has been parsed is where it was.
LEMMA IteratorParsed ==
    ASSUME NEW A, NEW j \in [res : A, index : Int, start : Nat, parsed : BOOLEAN]
    PROVE  [j EXCEPT !.parsed = TRUE]
               = [res |-> j.res, index |-> j.index, start |-> j.start, parsed |-> TRUE]
<1>1. PICK k \in [res : A, index : Int, start : Nat, parsed : BOOLEAN] :
          k = [j EXCEPT !.parsed = TRUE]
  OBVIOUS
<1>2. k.res = j.res /\ k.index = j.index /\ k.start = j.start /\ k.parsed = TRUE
  BY <1>1
<1>3. k = [res |-> k.res, index |-> k.index, start |-> k.start, parsed |-> k.parsed]
  OBVIOUS
<1> QED
  BY <1>1, <1>2, <1>3, Zenon

\* A resource that is entered at its first element.
LEMMA LoadFacts ==
    ASSUME pub \in Shapes, NEW r \in pub.html, NEW dir
    PROVE  /\ Reading!Load(r, dir) \in Iterators
           /\ Reading!Load(r, dir).res = r /\ Reading!Load(r, dir).parsed = FALSE
           /\ Reading!Load(r, dir).start = 0 /\ Reading!Load(r, dir).index = -1
           /\ [Reading!Load(r, dir) EXCEPT !.parsed = TRUE] \in Iterators
           /\ Ahead(Reading!Load(r, dir)) = Off(r)
           /\ PlaceOf(Reading!Load(r, dir)) = 2 * Off(r)
<1>1. Reading!Load(r, dir) = [res |-> r, index |-> -1, start |-> 0, parsed |-> FALSE]
  BY DEF Reading!Load, Reading!NewHTML, Reading!IndexAtProgression
<1>2. r \in 1 .. N /\ pub.size[r] \in Nat /\ Off(r) \in Nat
  <2>1. r \in 1 .. N /\ N \in Nat /\ pub.size[r] \in Nat
    BY ShapeFacts
  <2>2. r \in 1 .. N + 1
    BY <2>1
  <2> QED
    BY <2>1, <2>2, OffsetFacts DEF Off
<1>3. ASSUME NEW b \in BOOLEAN
      PROVE  [res |-> r, index |-> -1, start |-> 0, parsed |-> b] \in Iterators
  <2>1. 0 <= pub.size[r] /\ -1 \in -1 .. pub.size[r] - 1
    BY <1>2
  <2>2. -1 \in Int /\ 0 \in Nat
    OBVIOUS
  <2> DEFINE i == [res |-> r, index |-> -1, start |-> 0, parsed |-> b]
  <2>3. i \in [res : pub.html, index : Int, start : Nat, parsed : BOOLEAN]
    BY <2>2
  <2>4. i.res = r /\ i.start = 0 /\ i.index = -1
    OBVIOUS
  <2> HIDE DEF i
  <2>5. i \in Iterators
    BY <2>1, <2>3, <2>4 DEF Iterators
  <2> QED
    BY <2>5 DEF i
<1>4. [Reading!Load(r, dir) EXCEPT !.parsed = TRUE]
        = [res |-> r, index |-> -1, start |-> 0, parsed |-> TRUE]
  <2> DEFINE A == {r}
  <2>1. [res |-> r, index |-> -1, start |-> 0, parsed |-> FALSE]
            \in [res : A, index : Int, start : Nat, parsed : BOOLEAN]
    OBVIOUS
  <2> HIDE DEF A
  <2>2. PICK j \in [res : A, index : Int, start : Nat, parsed : BOOLEAN] :
            j = Reading!Load(r, dir)
    BY <1>1, <2>1
  <2>3. [j EXCEPT !.parsed = TRUE]
            = [res |-> j.res, index |-> j.index, start |-> j.start, parsed |-> TRUE]
    BY IteratorParsed
  <2>4. j.res = r /\ j.index = -1 /\ j.start = 0
    BY <1>1, <2>2
  <2> QED
    BY <2>2, <2>3, <2>4, Zenon
<1>5. Reading!Load(r, dir) \in Iterators
      /\ [Reading!Load(r, dir) EXCEPT !.parsed = TRUE] \in Iterators
  <2>1. Reading!Load(r, dir) \in Iterators
    BY <1>1, <1>3
  <2>2. [Reading!Load(r, dir) EXCEPT !.parsed = TRUE] \in Iterators
    BY <1>3, <1>4, Zenon
  <2> QED
    BY <2>1, <2>2, Zenon
<1>6. Ahead(Reading!Load(r, dir)) = Off(r) /\ PlaceOf(Reading!Load(r, dir)) = 2 * Off(r)
  <2>1. Reading!Load(r, dir).res = r /\ Reading!Load(r, dir).index = -1
        /\ Reading!Load(r, dir).start = 0
    BY <1>1
  <2>2. Off(r) + 0 = Off(r)
    BY <1>2
  <2> QED
    BY <2>1, <2>2 DEF Ahead, PlaceOf
<1> QED
  <2>1. Reading!Load(r, dir).res = r /\ Reading!Load(r, dir).parsed = FALSE
        /\ Reading!Load(r, dir).start = 0 /\ Reading!Load(r, dir).index = -1
    BY <1>1
  <2> QED
    BY <1>5, <1>6, <2>1, Zenon

\* The first and the last of some resources.
LEMMA NearestFacts ==
    ASSUME NEW R \in SUBSET (1 .. N), R # {}
    PROVE  /\ Reading!Nearest(R, 1) \in R /\ \A s \in R : Reading!Nearest(R, 1) <= s
           /\ Reading!Farthest(R, 1) \in R /\ \A s \in R : s <= Reading!Farthest(R, 1)
<1>1. N \in Nat /\ \A r \in R : r \in Nat
  BY ShapeFacts
<1>2. PICK a \in R : \A s \in R : a <= s
  <2>1. R \subseteq Nat
    BY <1>1
  <2> QED
    BY <2>1, LeastOf
<1>3. PICK b \in R : \A s \in R : s <= b
  <2>1. PICK n \in Nat : n = N
    BY <1>1
  <2>2. R \in SUBSET (1 .. n)
    BY <2>1
  <2> QED
    BY <2>2, GreatestOf
<1>4. Reading!Nearest(R, 1) = CHOOSE r \in R : \A s \in R : r * 1 <= s * 1
  BY DEF Reading!Nearest
<1>5. Reading!Farthest(R, 1) = CHOOSE r \in R : \A s \in R : r * (-1) <= s * (-1)
  BY DEF Reading!Farthest, Reading!Nearest
<1>6. \A r, s \in R : (r * 1 <= s * 1 <=> r <= s) /\ (r * (-1) <= s * (-1) <=> s <= r)
  BY <1>1
<1>7. \E r \in R : \A s \in R : r * 1 <= s * 1
  BY <1>2, <1>6
<1>8. \E r \in R : \A s \in R : r * (-1) <= s * (-1)
  BY <1>3, <1>6
<1>9. Reading!Nearest(R, 1) \in R /\ \A s \in R : Reading!Nearest(R, 1) * 1 <= s * 1
  BY <1>4, <1>7
<1>10. Reading!Farthest(R, 1) \in R
       /\ \A s \in R : Reading!Farthest(R, 1) * (-1) <= s * (-1)
  BY <1>5, <1>8
<1> QED
  BY <1>6, <1>9, <1>10

\* What is on either side of an iterator depends on where it is, not on what is parsed.
LEMMA SameIterator ==
    ASSUME NEW i, NEW j, j.res = i.res, j.index = i.index, j.start = i.start
    PROVE  /\ Ahead(j) = Ahead(i) /\ Behind(j) = Behind(i) /\ PlaceOf(j) = PlaceOf(i)
           /\ \A dir : Reading!HTMLHas(j, dir) <=> Reading!HTMLHas(i, dir)
<1>1. Ahead(j) = Ahead(i)
  BY Zenon DEF Ahead
<1>2. Behind(j) = Behind(i)
  BY Zenon DEF Behind
<1>3. PlaceOf(j) = PlaceOf(i)
  BY Zenon DEF PlaceOf
<1>4. ASSUME NEW dir PROVE Reading!HTMLHas(j, dir) <=> Reading!HTMLHas(i, dir)
  <2>1. Reading!HTMLIndex(j, dir) = Reading!HTMLIndex(i, dir)
    BY Zenon DEF Reading!HTMLIndex
  <2> QED
    BY <2>1, Zenon DEF Reading!HTMLHas
<1> QED
  BY <1>1, <1>2, <1>3, <1>4, Zenon

\* So it is for an iterator whose resource has just been parsed.
LEMMA ParsedFacts ==
    ASSUME pub \in Shapes, NEW i \in Iterators, NEW j, j = [i EXCEPT !.parsed = TRUE]
    PROVE  /\ j \in Iterators /\ j.res = i.res
           /\ Ahead(j) = Ahead(i) /\ Behind(j) = Behind(i) /\ PlaceOf(j) = PlaceOf(i)
           /\ \A dir : Reading!HTMLHas(j, dir) <=> Reading!HTMLHas(i, dir)
<1> DEFINE A == pub.html
           R == [res : A, index : Int, start : Nat, parsed : BOOLEAN]
<1>1. i \in R /\ i.start <= pub.size[i.res] /\ i.index \in -1 .. pub.size[i.res] - 1
  BY DEF Iterators
<1>2. PICK k \in R : k = j
  BY <1>1
<1>3. j.res = i.res /\ j.index = i.index /\ j.start = i.start
  BY <1>1
<1>4. j \in Iterators
  BY <1>1, <1>2, <1>3 DEF Iterators
<1> QED
  BY <1>3, <1>4, SameIterator, Zenon

\* The HTML resources behind and in front of one.
LEMMA BeyondFacts ==
    ASSUME pub \in Shapes, NEW r \in 1 .. N
    PROVE  /\ Reading!Beyond(r, 1) = {s \in pub.html : s > r}
           /\ Reading!Beyond(r, -1) = {s \in pub.html : s < r}
<1>1. r \in Int /\ \A s \in pub.html : s \in Int
  BY ShapeFacts
<1>2. \A s \in pub.html : (s * 1 > r * 1 <=> s > r) /\ (s * (-1) > r * (-1) <=> s < r)
  BY <1>1
<1> QED
  BY <1>2 DEF Reading!Beyond

\* An HTML resource without elements has nothing in front of an iterator that enters it.
LEMMA EmptyFacts ==
    ASSUME pub \in Shapes, NEW r \in pub.html, ~ Reading!HTMLHas(Reading!Load(r, 1), 1)
    PROVE  SizeOf(pub, r) = 0
<1>1. /\ Reading!Load(r, 1) \in Iterators /\ Reading!Load(r, 1).res = r
      /\ Ahead(Reading!Load(r, 1)) = Off(r)
  BY LoadFacts
<1>2. Off(r) = Off(r + 1)
  BY <1>1, HasFacts
<1>3. SizeOf(pub, r) = pub.size[r] /\ Off(r + 1) = Off(r) + pub.size[r]
      /\ Off(r) \in Nat /\ pub.size[r] \in Nat
  BY <1>1, IteratorFacts
<1> QED
  BY <1>2, <1>3

\* Where the iterator is when the resources have been gone through, forward.
LEMMA ReachedForward ==
    ASSUME pub \in Shapes, NEW i \in Iterators, NEW fails, NEW j,
           j = Reading!Reached(i, 1, fails)
    PROVE  /\ j \in Iterators /\ Ahead(j) = Ahead(i)
           /\ PlaceOf(j) = PlaceOf(i) \/ PlaceOf(j) = 2 * Ahead(i)
           /\ ~ Reading!Breaks(j, fails) /\ ~ Reading!HTMLHas(j, 1) => Ahead(i) = Length
<1> DEFINE stops(x) == Reading!Breaks(x, fails) \/ Reading!HTMLHas(x, 1)
           far == Reading!Beyond(i.res, 1)
           there == {r \in far : stops(Reading!Load(r, 1))}
<1>1. j = IF stops(i) THEN i
          ELSE IF there # {} THEN Reading!Load(Reading!Nearest(there, 1), 1)
          ELSE IF far # {}
               THEN [Reading!Load(Reading!Farthest(far, 1), 1) EXCEPT !.parsed = TRUE]
          ELSE [i EXCEPT !.parsed = TRUE]
  BY Zenon DEF Reading!Reached
<1>2. CASE stops(i)
  <2>1. j = i
    BY <1>1, <1>2, Zenon
  <2> QED
    BY <1>2, <2>1
<1>3. CASE ~ stops(i)
  <2>1. /\ i.res \in 1 .. N /\ N \in Nat /\ far = {s \in pub.html : s > i.res}
        /\ pub.html \subseteq 1 .. N
    BY IteratorFacts, BeyondFacts, ShapeFacts
  <2>2. Ahead(i) = Off(i.res + 1)
    BY <1>3, HasFacts
  <2>3. ASSUME NEW s \in i.res + 1 .. N + 1, \A t \in there : s <= t
        PROVE  Off(s) = Ahead(i)
    <3>1. ASSUME NEW t \in i.res + 1 .. s - 1 PROVE SizeOf(pub, t) = 0
      <4>1. t \in 1 .. N /\ t > i.res /\ t < s /\ t \in Int
        BY <2>1
      <4>2. CASE t \in pub.html
        <5>1. t \in far
          BY <2>1, <4>1, <4>2
        <5>2. t \notin there
          BY <2>1, <2>3, <4>1
        <5>3. ~ Reading!HTMLHas(Reading!Load(t, 1), 1)
          BY <5>1, <5>2, Zenon
        <5> QED
          BY <4>2, <5>3, EmptyFacts
      <4>3. CASE t \notin pub.html
        BY <4>3 DEF SizeOf
      <4> QED
        BY <4>2, <4>3
    <3>2. i.res + 1 \in 1 .. N + 1 /\ s \in 1 .. N + 1 /\ i.res + 1 <= s
      BY <2>1
    <3>3. OffsetOf(pub, i.res + 1) = OffsetOf(pub, s)
      BY <3>1, <3>2, OffsetUp
    <3> QED
      BY <2>2, <3>3 DEF Off
  <2>4. CASE there # {}
    <3> DEFINE n == Reading!Nearest(there, 1)
    <3>1. there \in SUBSET (1 .. N)
      BY <2>1
    <3>2. n \in there /\ \A t \in there : n <= t
      BY <2>4, <3>1, NearestFacts
    <3>3. n \in pub.html /\ n \in i.res + 1 .. N + 1 /\ stops(Reading!Load(n, 1))
      BY <2>1, <3>2
    <3>4. j = Reading!Load(n, 1)
      BY <1>1, <1>3, <2>4, Zenon
    <3> HIDE DEF n, there
    <3>5. Off(n) = Ahead(i)
      BY <2>3, <3>2, <3>3
    <3>6. /\ Reading!Load(n, 1) \in Iterators /\ Ahead(Reading!Load(n, 1)) = Off(n)
          /\ PlaceOf(Reading!Load(n, 1)) = 2 * Off(n)
      BY <3>3, LoadFacts
    <3> QED
      BY <3>3, <3>4, <3>5, <3>6
  <2>5. CASE there = {}
    <3>1. Length = Ahead(i)
      <4>1. N + 1 \in i.res + 1 .. N + 1
        BY <2>1
      <4> QED
        BY <2>3, <2>5, <4>1 DEF Length
    <3>2. CASE far # {}
      <4> DEFINE f == Reading!Farthest(far, 1)
      <4>1. far \in SUBSET (1 .. N)
        BY <2>1
      <4>2. f \in far
        BY <3>2, <4>1, NearestFacts
      <4>3. f \in pub.html /\ f \in i.res + 1 .. N + 1
        BY <2>1, <4>2
      <4>4. j = [Reading!Load(f, 1) EXCEPT !.parsed = TRUE]
        BY <1>1, <1>3, <2>5, <3>2, Zenon
      <4> HIDE DEF f
      <4>5. Off(f) = Ahead(i)
        BY <2>3, <2>5, <4>3
      <4>6. /\ Reading!Load(f, 1) \in Iterators /\ Ahead(Reading!Load(f, 1)) = Off(f)
            /\ PlaceOf(Reading!Load(f, 1)) = 2 * Off(f)
        BY <4>3, LoadFacts
      <4>7. /\ j \in Iterators /\ Ahead(j) = Ahead(Reading!Load(f, 1))
            /\ PlaceOf(j) = PlaceOf(Reading!Load(f, 1))
        BY <4>4, <4>6, ParsedFacts, Zenon
      <4> QED
        BY <3>1, <4>5, <4>6, <4>7
    <3>3. CASE far = {}
      <4>1. j = [i EXCEPT !.parsed = TRUE]
        BY <1>1, <1>3, <2>5, <3>3, Zenon
      <4>2. j \in Iterators /\ Ahead(j) = Ahead(i) /\ PlaceOf(j) = PlaceOf(i)
        BY <4>1, ParsedFacts, Zenon
      <4> QED
        BY <3>1, <4>2
    <3> QED
      BY <3>2, <3>3
  <2> QED
    BY <2>4, <2>5
<1> QED
  BY <1>2, <1>3

-----------------------------------------------------------------------------
(* The calls of a client, as the moves of a cursor.                        *)

\* Where an iteration of publication p is, and the element of its last answer.
StartIn(p) ==
    2 * (OffsetOf(p, p.start.res)
            + (IF p.start.res \in p.html THEN p.start.index ELSE 0))

PlaceIn(p, i) ==
    IF i = Reading!NoIterator THEN StartIn(p)
    ELSE IF i.index = -1 THEN 2 * (OffsetOf(p, i.res) + i.start)
    ELSE 2 * (OffsetOf(p, i.res) + i.index) + 1

AnswerIn(p, c) ==
    IF c = Reading!NoElement THEN 0 ELSE OffsetOf(p, c.el[1]) + c.el[2] + 1

\* Forward and backward, where k elements are in front of what is moved to next, or
\* up to what was before, and what a call that fails may do.
MovesOn(p, p2, a, a2, l) ==
    \E k \in 0 .. l :
        /\ p = 2 * k \/ p = 2 * k - 1
        /\ \/ k < l /\ p2 = 2 * k + 1 /\ a2 = k + 1
           \/ k = l /\ p2 \in {p, 2 * l} /\ a2 = 0
           \/ p2 \in {p, 2 * k} /\ a2 = a

MovesBack(p, p2, a, a2, l) ==
    \E k \in 0 .. l :
        /\ p = 2 * k \/ p = 2 * k + 1
        /\ \/ k > 0 /\ p2 = 2 * k - 1 /\ a2 = k
           \/ k = 0 /\ p2 = p /\ a2 = 0
           \/ p2 = p /\ a2 = a

\* Where an iterator that has been loaded is.
LEMMA PlaceInFacts ==
    ASSUME pub \in Shapes, NEW i \in Iterators
    PROVE  PlaceIn(pub, i) = PlaceOf(i)
<1>1. i # Reading!NoIterator
  BY IteratorFacts
<1> QED
  BY <1>1, Zenon DEF PlaceIn, PlaceOf, Off

\* The iterator of the first call is at the place of the start locator, or there is
\* nothing behind that.
LEMMA CurrentFacts ==
    ASSUME opened, ReadInv, NEW i, i = Reading!CurrentIterator
    PROVE  \/ i \in Iterators /\ PlaceOf(i) = PlaceIn(pub, it)
           \/ /\ i = Reading!NoIterator /\ it = Reading!NoIterator
              /\ PlaceIn(pub, it) = 2 * Length
<1>1. pub \in Shapes /\ (it = Reading!NoIterator \/ it \in Iterators)
  BY DEF ReadInv
<1>2. CASE it # Reading!NoIterator
  <2>1. it \in Iterators
    BY <1>1, <1>2
  <2>2. i = it
    BY <1>2, Zenon DEF Reading!CurrentIterator
  <2>3. PlaceIn(pub, it) = PlaceOf(it)
    BY <1>1, <2>1, PlaceInFacts
  <2> QED
    BY <2>1, <2>2, <2>3
<1>3. CASE it = Reading!NoIterator
  <2> DEFINE r == pub.start.res
             x == pub.start.index
             far == Reading!Beyond(r, 1)
  <2>1. /\ r \in 1 .. N /\ N \in Nat /\ x \in 0 .. pub.size[r] /\ pub.size[r] \in Nat
        /\ pub.html \subseteq 1 .. N /\ far = {s \in pub.html : s > r}
    BY <1>1, ShapeFacts, BeyondFacts
  <2>2. i = IF r \in pub.html THEN Reading!NewHTML(r, x)
            ELSE IF far # {} THEN Reading!Load(Reading!Nearest(far, 1), 1)
            ELSE Reading!NoIterator
    BY <1>3, Zenon DEF Reading!CurrentIterator, Reading!InitialIterator, Reading!Fwd
  <2>3. PlaceIn(pub, it) = 2 * (Off(r) + (IF r \in pub.html THEN x ELSE 0))
    BY <1>3, Zenon DEF PlaceIn, StartIn, Off
  <2>4. Off(r) \in Nat
    <3>1. r \in 1 .. N + 1
      BY <2>1
    <3> QED
      BY <1>1, <3>1, OffsetFacts DEF Off
  <2> HIDE DEF r, x, far
  <2>5. CASE r \in pub.html
    <3>1. i = [res |-> r, index |-> -1, start |-> x, parsed |-> FALSE]
      BY <2>2, <2>5 DEF Reading!NewHTML
    <3>2. i \in [res : pub.html, index : Int, start : Nat, parsed : BOOLEAN]
      BY <2>1, <2>5, <3>1
    <3>3. i.res = r /\ i.index = -1 /\ i.start = x
      BY <3>1
    <3>4. x <= pub.size[r] /\ -1 \in -1 .. pub.size[r] - 1
      BY <2>1
    <3>5. i \in Iterators
      BY <3>2, <3>3, <3>4 DEF Iterators
    <3>6. PlaceOf(i) = 2 * (Off(r) + x)
      BY <3>3 DEF PlaceOf
    <3> QED
      BY <2>3, <2>5, <3>5, <3>6
  <2>6. CASE r \notin pub.html
    <3>1. PlaceIn(pub, it) = 2 * Off(r)
      BY <2>3, <2>4, <2>6
    <3>2. ASSUME NEW s \in r .. N + 1, \A t \in far : s <= t
          PROVE  Off(s) = Off(r)
      <4>1. ASSUME NEW t \in r .. s - 1 PROVE SizeOf(pub, t) = 0
        <5>1. t \in Int /\ t < s /\ (t = r \/ t > r)
          BY <2>1
        <5>2. t \notin pub.html
          BY <2>1, <2>6, <3>2, <5>1
        <5> QED
          BY <5>2 DEF SizeOf
      <4>2. r \in 1 .. N + 1 /\ s \in 1 .. N + 1 /\ r <= s
        BY <2>1
      <4>3. OffsetOf(pub, r) = OffsetOf(pub, s)
        BY <1>1, <4>1, <4>2, OffsetUp
      <4> QED
        BY <4>3 DEF Off
    <3>3. CASE far # {}
      <4> DEFINE n == Reading!Nearest(far, 1)
      <4>1. far \in SUBSET (1 .. N)
        BY <2>1
      <4>2. n \in far /\ \A t \in far : n <= t
        BY <3>3, <4>1, NearestFacts
      <4>3. n \in pub.html /\ n \in r .. N + 1
        BY <2>1, <4>2
      <4>4. i = Reading!Load(n, 1)
        BY <2>2, <2>6, <3>3, Zenon
      <4> HIDE DEF n
      <4>5. Off(n) = Off(r)
        BY <3>2, <4>2, <4>3
      <4>6. i \in Iterators /\ PlaceOf(i) = 2 * Off(n)
        BY <1>1, <4>3, <4>4, LoadFacts
      <4> QED
        BY <3>1, <4>5, <4>6
    <3>4. CASE far = {}
      <4>1. i = Reading!NoIterator
        BY <2>2, <2>6, <3>4
      <4>2. N + 1 \in r .. N + 1
        BY <2>1
      <4>3. Off(N + 1) = Off(r)
        BY <3>2, <3>4, <4>2
      <4> QED
        BY <1>3, <3>1, <4>1, <4>3 DEF Length
    <3> QED
      BY <3>3, <3>4
  <2> QED
    BY <2>5, <2>6
<1> QED
  BY <1>2, <1>3

\* An iterator that finds an element is at it then, and answers with it.
LEMMA FoundFacts ==
    ASSUME pub \in Shapes, NEW j \in Iterators, NEW dir \in {1, -1},
           Reading!HTMLHas(j, dir), Reading!Found(j, dir)
    PROVE  /\ it' \in Iterators
           /\ PlaceOf(it') = 2 * (Off(j.res) + Reading!HTMLIndex(j, dir)) + 1
           /\ AnswerIn(pub, current') = Off(j.res) + Reading!HTMLIndex(j, dir) + 1
           /\ Reading!HTMLIndex(j, dir) \in Nat
<1>1. PICK x : x = Reading!HTMLIndex(j, dir)
  OBVIOUS
<1>2. /\ j.res \in pub.html /\ pub.size[j.res] \in Nat /\ j.start \in Nat
      /\ j.start <= pub.size[j.res]
      /\ j \in [res : pub.html, index : Int, start : Nat, parsed : BOOLEAN]
  BY IteratorFacts DEF Iterators
<1>3. x \in 0 .. pub.size[j.res] - 1 /\ x \in Nat /\ x # -1 /\ x \in Int
  <2>1. x \in 0 .. pub.size[j.res] - 1
    BY <1>1, Zenon DEF Reading!HTMLHas
  <2> QED
    BY <1>2, <2>1
<1>4. it' = [res |-> j.res, index |-> x, start |-> j.start, parsed |-> TRUE]
  <2>1. it' = Moved(j, x)
    BY <1>1, Zenon DEF Reading!Found, Moved
  <2> DEFINE A == pub.html
  <2>2. j \in [res : A, index : Int, start : Nat, parsed : BOOLEAN]
    BY <1>2
  <2> HIDE DEF A
  <2>3. Moved(j, x) = [res |-> j.res, index |-> x, start |-> j.start, parsed |-> TRUE]
    <3>1. x \in Int
      BY <1>3
    <3> QED
      BY <2>2, <3>1, IteratorMoved, Zenon
  <2> QED
    BY <2>1, <2>3, Zenon
<1>5. it'.res = j.res /\ it'.index = x /\ it'.start = j.start
  BY <1>4
<1>6. it' \in Iterators
  <2>1. it' \in [res : pub.html, index : Int, start : Nat, parsed : BOOLEAN]
    BY <1>2, <1>3, <1>4
  <2>2. x \in -1 .. pub.size[j.res] - 1
    BY <1>2, <1>3
  <2> QED
    BY <1>2, <1>5, <2>1, <2>2 DEF Iterators
<1>7. PlaceOf(it') = 2 * (Off(j.res) + x) + 1
  BY <1>3, <1>5 DEF PlaceOf
<1>8. AnswerIn(pub, current') = Off(j.res) + x + 1
  <2>1. current' = [el |-> <<j.res, x>>, dir |-> dir]
    BY <1>1, Zenon DEF Reading!Found
  <2>2. current'.el[1] = j.res /\ current'.el[2] = x /\ current'.dir = dir
    BY <2>1
  <2>3. current' # Reading!NoElement
    BY <2>2 DEF Reading!NoElement
  <2> QED
    BY <2>2, <2>3, Zenon DEF AnswerIn, Off
<1> QED
  BY <1>1, <1>3, <1>6, <1>7, <1>8

\* HasNext is a move forward, or a failure in front of the next element.
LEMMA HasNextMoves ==
    ASSUME opened, ReadInv, Reading!HasNext
    PROVE  /\ pub' = pub
           /\ it' = Reading!NoIterator \/ it' \in Iterators
           /\ MovesOn(PlaceIn(pub, it), PlaceIn(pub, it'),
                      AnswerIn(pub, current), AnswerIn(pub, current'), Length)
<1>0. pub \in Shapes /\ pub' = pub
  BY Zenon DEF ReadInv, Reading!HasNext, Reading!Has
<1> DEFINE i == Reading!CurrentIterator
           P == PlaceIn(pub, it)
           Q == PlaceIn(pub, it')
           a == AnswerIn(pub, current)
           b == AnswerIn(pub, current')
<1>1. PICK fails : LET j == Reading!Reached(i, 1, fails)
                   IN  IF i = Reading!NoIterator THEN Reading!NotFound(i)
                       ELSE IF Reading!Breaks(j, fails) THEN Reading!Fail(j, 1)
                       ELSE IF Reading!HTMLHas(j, 1) THEN Reading!Found(j, 1)
                       ELSE Reading!NotFound(j)
  BY Zenon DEF Reading!HasNext, Reading!Has, Reading!Fwd
<1> DEFINE j == Reading!Reached(i, 1, fails)
<1>2. \/ i \in Iterators /\ PlaceOf(i) = P
      \/ i = Reading!NoIterator /\ it = Reading!NoIterator /\ P = 2 * Length
  BY CurrentFacts
<1>3. Reading!NoElement = Reading!NoElement /\ AnswerIn(pub, Reading!NoElement) = 0
  BY Zenon DEF AnswerIn
<1>4. CASE i = Reading!NoIterator
  <2>1. it' = i /\ current' = Reading!NoElement
    BY <1>1, <1>4, Zenon DEF Reading!NotFound
  <2>2. i \notin Iterators
    BY <1>0, <1>4, IteratorFacts
  <2>3. P = 2 * Length /\ Q = P /\ b = 0
    BY <1>2, <1>3, <1>4, <2>1, <2>2
  <2>4. Length \in Nat
    <3>1. N + 1 \in 1 .. N + 1
      BY ShapeFacts
    <3> QED
      BY <1>0, <3>1, OffsetFacts DEF Length, Off
  <2> HIDE DEF P, Q, a, b, i
  <2>5. MovesOn(P, Q, a, b, Length)
    <3>1. Length \in 0 .. Length /\ Q \in {P, 2 * Length}
      BY <2>3, <2>4
    <3> QED
      BY <2>3, <3>1, Zenon DEF MovesOn
  <2> QED
    BY <1>0, <1>4, <2>1, <2>5 DEF P, Q, a, b
<1>5. CASE i # Reading!NoIterator
  <2>1. i \in Iterators /\ PlaceOf(i) = P
    BY <1>2, <1>5
  <2> HIDE DEF i
  <2>2. /\ j \in Iterators /\ Ahead(j) = Ahead(i)
        /\ PlaceOf(j) = P \/ PlaceOf(j) = 2 * Ahead(i)
        /\ ~ Reading!Breaks(j, fails) /\ ~ Reading!HTMLHas(j, 1) => Ahead(i) = Length
    BY <1>0, <2>1, ReachedForward
  <2>3. PICK k, l :
           /\ k = Ahead(i) /\ l = Length /\ k \in Nat /\ l \in Nat /\ k \in 0 .. l
           /\ P = 2 * k \/ P = 2 * k - 1
    <3>1. Ahead(i) \in Nat /\ Ahead(i) <= Length /\ Length \in Nat
          /\ (P = 2 * Ahead(i) \/ P = 2 * Ahead(i) - 1)
      BY <1>0, <2>1, PlaceFacts, IteratorFacts
    <3>2. Ahead(i) \in 0 .. Length
      BY <3>1
    <3> QED
      BY <3>1, <3>2
  <2>4. \/ Reading!Breaks(j, fails) /\ Reading!Fail(j, 1)
        \/ ~ Reading!Breaks(j, fails) /\ Reading!HTMLHas(j, 1) /\ Reading!Found(j, 1)
        \/ ~ Reading!Breaks(j, fails) /\ ~ Reading!HTMLHas(j, 1) /\ Reading!NotFound(j)
    BY <1>1, <1>5, Zenon DEF i
  <2> HIDE DEF j
  <2>5. PlaceIn(pub, j) = PlaceOf(j)
    BY <1>0, <2>2, PlaceInFacts
  <2>6. CASE Reading!Breaks(j, fails) /\ Reading!Fail(j, 1)
    <3>1. it' = j /\ current' = current
      BY <2>6, Zenon DEF Reading!Fail
    <3>2. Q \in {P, 2 * k} /\ b = a
      BY <2>2, <2>3, <2>5, <3>1
    <3> HIDE DEF P, Q, a, b
    <3>3. MovesOn(P, Q, a, b, l)
      BY <2>3, <3>2, Zenon DEF MovesOn
    <3> QED
      BY <1>0, <2>2, <2>3, <3>1, <3>3 DEF P, Q, a, b
  <2>7. CASE Reading!HTMLHas(j, 1) /\ Reading!Found(j, 1)
    <3>1. /\ it' \in Iterators
          /\ PlaceOf(it') = 2 * (Off(j.res) + Reading!HTMLIndex(j, 1)) + 1
          /\ AnswerIn(pub, current') = Off(j.res) + Reading!HTMLIndex(j, 1) + 1
      BY <1>0, <2>2, <2>7, FoundFacts
    <3>2. PICK o, s, x : /\ o = Off(j.res) /\ s = pub.size[j.res] /\ x = Reading!HTMLIndex(j, 1)
                         /\ o \in Nat /\ s \in Nat /\ x \in Nat /\ o + s <= l
      <4>1. Reading!HTMLIndex(j, 1) \in Nat
        BY <1>0, <2>2, <2>7, FoundFacts
      <4> QED
        BY <1>0, <2>2, <2>3, <4>1, IteratorFacts
    <3>3. x = k - o /\ k < o + s
      BY <1>0, <2>2, <2>3, <2>7, <3>2, HasFacts
    <3>4. PlaceIn(pub, it') = PlaceOf(it')
      BY <1>0, <3>1, PlaceInFacts
    <3>5. Q = 2 * k + 1 /\ b = k + 1 /\ k < l
      BY <2>3, <3>1, <3>2, <3>3, <3>4
    <3> HIDE DEF P, Q, a, b
    <3>6. MovesOn(P, Q, a, b, l)
      BY <2>3, <3>5, Zenon DEF MovesOn
    <3> QED
      BY <1>0, <2>3, <3>1, <3>6 DEF P, Q, a, b
  <2>8. CASE /\ ~ Reading!Breaks(j, fails) /\ ~ Reading!HTMLHas(j, 1)
             /\ Reading!NotFound(j)
    <3>1. it' = j /\ current' = Reading!NoElement
      BY <2>8, Zenon DEF Reading!NotFound
    <3>2. k = l
      BY <2>2, <2>3, <2>8
    <3>3. Q \in {P, 2 * l} /\ b = 0
      BY <1>3, <2>2, <2>3, <2>5, <3>1, <3>2
    <3> HIDE DEF P, Q, a, b
    <3>4. MovesOn(P, Q, a, b, l)
      BY <2>3, <3>2, <3>3, Zenon DEF MovesOn
    <3> QED
      BY <1>0, <2>2, <2>3, <3>1, <3>4 DEF P, Q, a, b
  <2> QED
    BY <2>4, <2>6, <2>7, <2>8
<1> QED
  BY <1>4, <1>5

\* A single HTML resource has none in front of it.
LEMMA OnlyOne ==
    ASSUME pub \in Shapes, Cardinality(pub.html) = 1, NEW i \in Iterators
    PROVE  Reading!Beyond(i.res, -1) = {} /\ Off(i.res) = 0
<1>1. i.res \in pub.html /\ i.res \in 1 .. N /\ N \in Nat /\ pub.html \subseteq 1 .. N
  BY IteratorFacts, ShapeFacts
<1>2. IsFiniteSet(pub.html)
  <2>1. PICK n \in Int : n = N
    BY <1>1
  <2>2. IsFiniteSet(1 .. n)
    BY FS_Interval
  <2> QED
    BY <1>1, <2>1, <2>2, FS_Subset
<1>3. \A s \in pub.html : s = i.res
  <2>1. PICK h : pub.html = {h}
    BY <1>2, FS_Singleton
  <2> QED
    BY <1>1, <2>1
<1>4. Reading!Beyond(i.res, -1) = {}
  BY <1>1, <1>3, BeyondFacts
<1>5. Off(i.res) = 0
  <2>1. ASSUME NEW t \in 1 .. i.res - 1 PROVE SizeOf(pub, t) = 0
    <3>1. t \notin pub.html
      BY <1>1, <1>3
    <3> QED
      BY <3>1 DEF SizeOf
  <2>2. 1 \in 1 .. N + 1 /\ i.res \in 1 .. N + 1 /\ 1 <= i.res
    BY <1>1
  <2>3. OffsetOf(pub, 1) = OffsetOf(pub, i.res)
    BY <2>1, <2>2, OffsetUp
  <2> QED
    BY <2>3, OffsetFacts DEF Off
<1> QED
  BY <1>4, <1>5

\* HasPrevious, over a single resource, is a move backward or a failure where it is.
\* Without a resource to start in it answers as HasNext does, there being no element.
LEMMA HasPreviousMoves ==
    ASSUME opened, ReadInv, Cardinality(pub.html) = 1, Reading!HasPrevious
    PROVE  /\ pub' = pub
           /\ it' = Reading!NoIterator \/ it' \in Iterators
           /\ \/ MovesOn(PlaceIn(pub, it), PlaceIn(pub, it'),
                         AnswerIn(pub, current), AnswerIn(pub, current'), Length)
              \/ MovesBack(PlaceIn(pub, it), PlaceIn(pub, it'),
                           AnswerIn(pub, current), AnswerIn(pub, current'), Length)
<1>0. pub \in Shapes /\ pub' = pub
  BY Zenon DEF ReadInv, Reading!HasPrevious, Reading!Has
<1> DEFINE i == Reading!CurrentIterator
           P == PlaceIn(pub, it)
           Q == PlaceIn(pub, it')
           a == AnswerIn(pub, current)
           b == AnswerIn(pub, current')
<1>1. PICK fails : LET j == Reading!Reached(i, -1, fails)
                   IN  IF i = Reading!NoIterator THEN Reading!NotFound(i)
                       ELSE IF Reading!Breaks(j, fails) THEN Reading!Fail(j, -1)
                       ELSE IF Reading!HTMLHas(j, -1) THEN Reading!Found(j, -1)
                       ELSE Reading!NotFound(j)
  BY Zenon DEF Reading!HasPrevious, Reading!Has, Reading!Bwd
<1> DEFINE j == Reading!Reached(i, -1, fails)
<1>2. \/ i \in Iterators /\ PlaceOf(i) = P
      \/ i = Reading!NoIterator /\ it = Reading!NoIterator /\ P = 2 * Length
  BY CurrentFacts
<1>3. AnswerIn(pub, Reading!NoElement) = 0
  BY Zenon DEF AnswerIn
<1>4. CASE i = Reading!NoIterator
  <2>1. it' = i /\ current' = Reading!NoElement
    BY <1>1, <1>4, Zenon DEF Reading!NotFound
  <2>2. i \notin Iterators
    BY <1>0, <1>4, IteratorFacts
  <2>3. P = 2 * Length /\ Q = P /\ b = 0
    BY <1>2, <1>3, <1>4, <2>1, <2>2
  <2>4. Length \in Nat
    <3>1. N + 1 \in 1 .. N + 1
      BY ShapeFacts
    <3> QED
      BY <1>0, <3>1, OffsetFacts DEF Length, Off
  <2> HIDE DEF P, Q, a, b, i
  <2>5. MovesOn(P, Q, a, b, Length)
    <3>1. Length \in 0 .. Length /\ Q \in {P, 2 * Length}
      BY <2>3, <2>4
    <3> QED
      BY <2>3, <3>1, Zenon DEF MovesOn
  <2> QED
    BY <1>0, <1>4, <2>1, <2>5 DEF P, Q, a, b
<1>5. CASE i # Reading!NoIterator
  <2>1. i \in Iterators /\ PlaceOf(i) = P
    BY <1>2, <1>5
  <2> HIDE DEF i
  <2>2. /\ j \in Iterators /\ j.res = i.res /\ Behind(j) = Behind(i) /\ PlaceOf(j) = P
        /\ ~ Reading!Breaks(j, fails) /\ ~ Reading!HTMLHas(j, -1) => ~ Reading!HTMLHas(i, -1)
    <3>1. Reading!Beyond(i.res, -1) = {}
      BY <1>0, <2>1, OnlyOne
    <3>2. j = i \/ j = [i EXCEPT !.parsed = TRUE]
      <4> DEFINE there(stops) == {r \in Reading!Beyond(i.res, -1) : stops[r]}
      <4> QED
        BY <3>1, Zenon DEF Reading!Reached
    <3>3. CASE j = i
      BY <2>1, <3>3
    <3>4. CASE j = [i EXCEPT !.parsed = TRUE]
      <4>1. /\ j \in Iterators /\ j.res = i.res /\ Behind(j) = Behind(i)
            /\ PlaceOf(j) = PlaceOf(i)
            /\ \A dir : Reading!HTMLHas(j, dir) <=> Reading!HTMLHas(i, dir)
        <5> HIDE DEF j
        <5> QED
          BY <1>0, <2>1, <3>4, ParsedFacts, Zenon
      <4> QED
        BY <2>1, <4>1, Zenon
    <3> QED
      BY <3>2, <3>3, <3>4
  <2>3. PICK k, l :
           /\ k = Behind(i) /\ l = Length /\ k \in Nat /\ l \in Nat /\ k \in 0 .. l
           /\ P = 2 * k \/ P = 2 * k + 1
    <3>1. Behind(i) \in Nat /\ Behind(i) <= Length /\ Length \in Nat
          /\ (P = 2 * Behind(i) \/ P = 2 * Behind(i) + 1)
      BY <1>0, <2>1, PlaceFacts, IteratorFacts
    <3>2. Behind(i) \in 0 .. Length
      BY <3>1
    <3> QED
      BY <3>1, <3>2
  <2>4. \/ Reading!Breaks(j, fails) /\ Reading!Fail(j, -1)
        \/ ~ Reading!Breaks(j, fails) /\ Reading!HTMLHas(j, -1) /\ Reading!Found(j, -1)
        \/ ~ Reading!Breaks(j, fails) /\ ~ Reading!HTMLHas(j, -1) /\ Reading!NotFound(j)
    BY <1>1, <1>5, Zenon DEF i
  <2> HIDE DEF j
  <2>5. PlaceIn(pub, j) = PlaceOf(j)
    BY <1>0, <2>2, PlaceInFacts
  <2>6. CASE Reading!Fail(j, -1)
    <3>1. it' = j /\ current' = current
      BY <2>6, Zenon DEF Reading!Fail
    <3>2. Q = P /\ b = a
      BY <2>2, <2>5, <3>1
    <3> HIDE DEF P, Q, a, b
    <3>3. MovesBack(P, Q, a, b, l)
      BY <2>3, <3>2, Zenon DEF MovesBack
    <3> QED
      BY <1>0, <2>2, <2>3, <3>1, <3>3 DEF P, Q, a, b
  <2>7. CASE Reading!HTMLHas(j, -1) /\ Reading!Found(j, -1)
    <3>1. /\ it' \in Iterators
          /\ PlaceOf(it') = 2 * (Off(j.res) + Reading!HTMLIndex(j, -1)) + 1
          /\ AnswerIn(pub, current') = Off(j.res) + Reading!HTMLIndex(j, -1) + 1
          /\ Reading!HTMLIndex(j, -1) \in Nat
      BY <1>0, <2>2, <2>7, FoundFacts
    <3>2. PICK o, x : /\ o = Off(j.res) /\ x = Reading!HTMLIndex(j, -1)
                      /\ o \in Nat /\ x \in Nat
      BY <1>0, <2>2, <3>1, IteratorFacts
    <3>3. x = k - o - 1
      BY <1>0, <2>2, <2>3, <3>2, HasFacts
    <3>4. PlaceIn(pub, it') = PlaceOf(it')
      BY <1>0, <3>1, PlaceInFacts
    <3>5. Q = 2 * k - 1 /\ b = k /\ k > 0
      BY <2>3, <3>1, <3>2, <3>3, <3>4
    <3> HIDE DEF P, Q, a, b
    <3>6. MovesBack(P, Q, a, b, l)
      BY <2>3, <3>5, Zenon DEF MovesBack
    <3> QED
      BY <1>0, <2>3, <3>1, <3>6 DEF P, Q, a, b
  <2>8. CASE /\ ~ Reading!Breaks(j, fails) /\ ~ Reading!HTMLHas(j, -1)
             /\ Reading!NotFound(j)
    <3>1. it' = j /\ current' = Reading!NoElement
      BY <2>8, Zenon DEF Reading!NotFound
    <3>2. k = 0
      <4>1. Behind(i) = Off(i.res)
        BY <1>0, <2>1, <2>2, <2>8, HasFacts
      <4> QED
        BY <1>0, <2>1, <2>3, <4>1, OnlyOne
    <3>3. Q = P /\ b = 0
      BY <1>3, <2>2, <2>5, <3>1
    <3> HIDE DEF P, Q, a, b
    <3>4. MovesBack(P, Q, a, b, l)
      BY <2>3, <3>2, <3>3, Zenon DEF MovesBack
    <3> QED
      BY <1>0, <2>2, <2>3, <3>1, <3>4 DEF P, Q, a, b
  <2> QED
    BY <2>4, <2>6, <2>7, <2>8
<1> QED
  BY <1>4, <1>5

-----------------------------------------------------------------------------
(* The iterator implements the cursor.                                     *)

\* What the cursor's variables stand for.
LEMMA Views ==
    /\ Reading!Offset(N + 1) = OffsetOf(pub, N + 1)
    /\ Reading!Offset(N + 1)' = OffsetOf(pub', N + 1)
    /\ Reading!Place = PlaceIn(pub, it)
    /\ Reading!Place' = PlaceIn(pub', it')
    /\ (IF current = Reading!NoElement THEN 0
        ELSE Reading!Offset(current.el[1]) + current.el[2] + 1) = AnswerIn(pub, current)
    /\ (IF current = Reading!NoElement THEN 0
        ELSE Reading!Offset(current.el[1]) + current.el[2] + 1)' = AnswerIn(pub', current')
<1>1. /\ Reading!Offset(N + 1) = OffsetOf(pub, N + 1)
      /\ Reading!Offset(N + 1)' = OffsetOf(pub', N + 1)
  BY Zenon DEF Reading!Offset, OffsetOf
<1>2. Reading!Place = PlaceIn(pub, it)
  BY Zenon DEF Reading!Offset, OffsetOf, Reading!Place, Reading!StartPlace, PlaceIn, StartIn
<1>3. Reading!Place' = PlaceIn(pub', it')
  BY Zenon DEF Reading!Offset, OffsetOf, Reading!Place, Reading!StartPlace, PlaceIn, StartIn,
               Reading!NoIterator
<1>4. (IF current = Reading!NoElement THEN 0
       ELSE Reading!Offset(current.el[1]) + current.el[2] + 1) = AnswerIn(pub, current)
  BY Zenon DEF Reading!Offset, OffsetOf, AnswerIn
<1>5. (IF current = Reading!NoElement THEN 0
       ELSE Reading!Offset(current.el[1]) + current.el[2] + 1)' = AnswerIn(pub', current')
  BY Zenon DEF Reading!Offset, OffsetOf, AnswerIn, Reading!NoElement
<1> QED
  BY <1>1, <1>2, <1>3, <1>4, <1>5

\* A move forward to the next element, to the end, or a failure, as Cursor has them.
LEMMA OnFacts ==
    ASSUME NEW l \in Nat, NEW p, NEW p2, NEW a, NEW a2, MovesOn(p, p2, a, a2, l)
    PROVE  \/ \E k \in {m \in 1 .. l : 2 * m - 1 > p} :
                 /\ \A m \in {n \in 1 .. l : 2 * n - 1 > p} : k <= m
                 /\ p2 = 2 * k - 1 /\ a2 = k
           \/ {m \in 1 .. l : 2 * m - 1 > p} = {} /\ p2 \in {p, 2 * l} /\ a2 = 0
           \/ p2 \in {p} \union {q \in {p - 1, p + 1} : q % 2 = 0} /\ a2 = a
<1>1. PICK k \in 0 .. l :
         /\ p = 2 * k \/ p = 2 * k - 1
         /\ \/ k < l /\ p2 = 2 * k + 1 /\ a2 = k + 1
            \/ k = l /\ p2 \in {p, 2 * l} /\ a2 = 0
            \/ p2 \in {p, 2 * k} /\ a2 = a
  BY DEF MovesOn
<1>2. CASE k < l /\ p2 = 2 * k + 1 /\ a2 = k + 1
  <2>1. k + 1 \in {m \in 1 .. l : 2 * m - 1 > p}
    BY <1>1, <1>2
  <2>2. \A m \in {n \in 1 .. l : 2 * n - 1 > p} : k + 1 <= m
    BY <1>1, <1>2
  <2>3. p2 = 2 * (k + 1) - 1
    BY <1>2
  <2> QED
    BY <1>2, <2>1, <2>2, <2>3
<1>3. CASE k = l /\ p2 \in {p, 2 * l} /\ a2 = 0
  <2>1. {m \in 1 .. l : 2 * m - 1 > p} = {}
    BY <1>1, <1>3
  <2> QED
    BY <1>3, <2>1
<1>4. CASE p2 \in {p, 2 * k} /\ a2 = a
  <2>1. (2 * k) % 2 = 0
    OBVIOUS
  <2>2. p2 \in {p} \union {q \in {p - 1, p + 1} : q % 2 = 0}
    BY <1>1, <1>4, <2>1
  <2> QED
    BY <1>4, <2>2
<1> QED
  BY <1>1, <1>2, <1>3, <1>4

\* A move backward.
LEMMA BackFacts ==
    ASSUME NEW l \in Nat, NEW p, NEW p2, NEW a, NEW a2, MovesBack(p, p2, a, a2, l)
    PROVE  \/ \E k \in {m \in 1 .. l : 2 * m - 1 < p} :
                 /\ \A m \in {n \in 1 .. l : 2 * n - 1 < p} : m <= k
                 /\ p2 = 2 * k - 1 /\ a2 = k
           \/ {m \in 1 .. l : 2 * m - 1 < p} = {} /\ p2 \in {p, 0} /\ a2 = 0
           \/ p2 \in {p} \union {q \in {p - 1, p + 1} : q % 2 = 0} /\ a2 = a
<1>1. PICK k \in 0 .. l :
         /\ p = 2 * k \/ p = 2 * k + 1
         /\ \/ k > 0 /\ p2 = 2 * k - 1 /\ a2 = k
            \/ k = 0 /\ p2 = p /\ a2 = 0
            \/ p2 = p /\ a2 = a
  BY DEF MovesBack
<1>2. CASE k > 0 /\ p2 = 2 * k - 1 /\ a2 = k
  <2>1. k \in {m \in 1 .. l : 2 * m - 1 < p}
    BY <1>1, <1>2
  <2>2. \A m \in {n \in 1 .. l : 2 * n - 1 < p} : m <= k
    BY <1>1, <1>2
  <2> QED
    BY <1>2, <2>1, <2>2
<1>3. CASE k = 0 /\ p2 = p /\ a2 = 0
  <2>1. {m \in 1 .. l : 2 * m - 1 < p} = {}
    BY <1>1, <1>3
  <2> QED
    BY <1>3, <2>1
<1>4. CASE p2 = p /\ a2 = a
  BY <1>4
<1> QED
  BY <1>1, <1>2, <1>3, <1>4

\* Such a move is a step of the cursor.
LEMMA CursorMoves ==
    ASSUME opened, opened', pub' = pub, Length \in Nat,
           \/ MovesOn(PlaceIn(pub, it), PlaceIn(pub, it'),
                      AnswerIn(pub, current), AnswerIn(pub, current'), Length)
           \/ MovesBack(PlaceIn(pub, it), PlaceIn(pub, it'),
                        AnswerIn(pub, current), AnswerIn(pub, current'), Length)
    PROVE  C!Next
<1>1. PICK l, p, p2, a, a2 :
         /\ l = Length /\ l \in Nat /\ p = PlaceIn(pub, it) /\ p2 = PlaceIn(pub, it')
         /\ a = AnswerIn(pub, current) /\ a2 = AnswerIn(pub, current')
  OBVIOUS
<1>2. /\ l = OffsetOf(pub, N + 1) /\ l = OffsetOf(pub', N + 1)
      /\ p = PlaceIn(pub, it) /\ p2 = PlaceIn(pub', it')
      /\ a = AnswerIn(pub, current) /\ a2 = AnswerIn(pub', current')
  BY <1>1 DEF Length, Off
<1> DEFINE len == IF opened THEN Reading!Offset(N + 1) ELSE -1
           pl == IF opened THEN Reading!Place ELSE 0
           an == IF current = Reading!NoElement THEN 0
                 ELSE Reading!Offset(current.el[1]) + current.el[2] + 1
<1>3. len = l /\ len' = l /\ l \in Nat
  BY <1>1, <1>2, Views
<1>4. pl = p /\ pl' = p2
  BY <1>2, Views
<1>5. an = a /\ an' = a2
  BY <1>2, Views
<1>6. C!Forward <=>
            \/ \E k \in {m \in 1 .. len : 2 * m - 1 > pl} :
                 /\ \A m \in {n \in 1 .. len : 2 * n - 1 > pl} : k <= m
                 /\ pl' = 2 * k - 1 /\ an' = k
            \/ {m \in 1 .. len : 2 * m - 1 > pl} = {} /\ pl' \in {pl, 2 * len} /\ an' = 0
  BY DEF C!Forward, C!After, C!Elements
<1>7. C!Backward <=>
            \/ \E k \in {m \in 1 .. len : 2 * m - 1 < pl} :
                 /\ \A m \in {n \in 1 .. len : 2 * n - 1 < pl} : m <= k
                 /\ pl' = 2 * k - 1 /\ an' = k
            \/ {m \in 1 .. len : 2 * m - 1 < pl} = {} /\ pl' \in {pl, 0} /\ an' = 0
  BY DEF C!Backward, C!Before, C!Elements
<1>8. C!Fail <=>
        pl' \in {pl} \union {q \in {pl - 1, pl + 1} : q % 2 = 0} /\ an' = an
  BY DEF C!Fail
<1>9. C!Next <=> \/ C!Open
                 \/ len >= 0 /\ (C!Forward \/ C!Backward \/ C!Fail) /\ len' = len
  BY DEF C!Next
<1> HIDE DEF len, pl, an
<1>10. CASE MovesOn(p, p2, a, a2, l)
  <2>1. C!Forward \/ C!Fail
    BY <1>3, <1>4, <1>5, <1>6, <1>8, <1>10, OnFacts
  <2> QED
    BY <1>3, <1>9, <2>1
<1>11. CASE MovesBack(p, p2, a, a2, l)
  <2>1. C!Backward \/ C!Fail
    BY <1>3, <1>4, <1>5, <1>7, <1>8, <1>11, BackFacts
  <2> QED
    BY <1>3, <1>9, <2>1
<1> QED
  BY <1>1, <1>10, <1>11

\* Nothing moves while the iterator stays.
LEMMA CursorStays ==
    ASSUME pub' = pub, it' = it, current' = current
    PROVE  UNCHANGED C!vars
<1>1. opened' <=> opened
  BY DEF opened
<1> QED
  BY <1>1, Views DEF C!vars

\* Opening a publication opens the cursor, in the gap the start locator says.
LEMMA OpenFacts ==
    ASSUME ReadInv, OpenPublication
    PROVE  ReadInv' /\ (C!Next \/ UNCHANGED C!vars)
<1>1. /\ ~ opened /\ pub' \in Shapes /\ it' = it /\ current' = current
      /\ it = Reading!NoIterator /\ current = Reading!NoElement
  BY Zenon DEF OpenPublication, ReadInv
<1>2. ReadInv'
  <2>1. it' = Reading!NoIterator' /\ current' = Reading!NoElement'
    BY <1>1 DEF Reading!NoIterator, Reading!NoElement
  <2> QED
    BY <1>1, <2>1 DEF ReadInv
<1>3. CASE pub' = NoPublication
  <2>1. pub' = pub
    BY <1>1, <1>3 DEF opened
  <2> QED
    BY <1>1, <1>2, <2>1, CursorStays
<1>4. CASE pub' # NoPublication
  <2>1. opened'
    BY <1>4 DEF opened, NoPublication
  <2> DEFINE r == pub'.start.res
             x == IF r \in pub'.html THEN pub'.start.index ELSE 0
             l == OffsetOf(pub', N + 1)
             o == OffsetOf(pub', r)
  <2>2. PlaceIn(pub', it') = 2 * (o + x)
    BY <1>1, Zenon DEF PlaceIn, StartIn
  <2>3. /\ r \in 1 .. N /\ N \in Nat /\ pub'.size[r] \in Nat
        /\ pub'.start.index \in 0 .. pub'.size[r] /\ SizeOf(pub', r) \in Nat
    BY <1>1, ShapeFacts
  <2>4. r \in 1 .. N + 1 /\ r + 1 \in 1 .. N + 1 /\ N + 1 \in 1 .. N + 1 /\ r + 1 <= N + 1
    BY <2>3
  <2>5. /\ o \in Nat /\ l \in Nat
        /\ OffsetOf(pub', r + 1) = o + SizeOf(pub', r) /\ OffsetOf(pub', r + 1) <= l
    BY <1>1, <2>3, <2>4, OffsetFacts, OffsetUp
  <2>6. x \in Nat /\ x <= SizeOf(pub', r)
    BY <2>3 DEF SizeOf
  <2>7. o + x \in 0 .. l
    <3> HIDE DEF o, x, l, r
    <3> QED
      BY <2>3, <2>5, <2>6
  <2>8. AnswerIn(pub, current) = 0 /\ AnswerIn(pub', current') = 0
    BY <1>1, Zenon DEF AnswerIn
  <2> DEFINE len == IF opened THEN Reading!Offset(N + 1) ELSE -1
             pl == IF opened THEN Reading!Place ELSE 0
             an == IF current = Reading!NoElement THEN 0
                   ELSE Reading!Offset(current.el[1]) + current.el[2] + 1
  <2>9. len = -1 /\ len' = l
    BY <1>1, <2>1, Views
  <2>10. pl' = 2 * (o + x)
    BY <2>1, <2>2, Views
  <2>11. an' = an
    BY <2>8, Views
  <2>12. C!Open <=> /\ len = -1 /\ len' \in Nat
                    /\ \E k \in 0 .. len' : pl' = 2 * k
                    /\ an' = an
    BY DEF C!Open
  <2> HIDE DEF len, pl, an, l, o, x
  <2>13. C!Open
    BY <2>5, <2>7, <2>9, <2>10, <2>11, <2>12
  <2> QED
    BY <1>2, <2>13 DEF C!Next
<1> QED
  BY <1>3, <1>4

\* The calls of a client keep what is known of the iterator, and are the cursor's.
LEMMA ReadFacts ==
    ASSUME ReadInv, Read
    PROVE  ReadInv' /\ (C!Next \/ UNCHANGED C!vars)
<1>1. opened /\ pub \in Shapes /\ (it = Reading!NoIterator \/ it \in Iterators)
  BY Zenon DEF Read, ReadInv
<1>2. ASSUME pub' = pub, it' = Reading!NoIterator \/ it' \in Iterators
      PROVE  ReadInv' /\ opened'
  <2>1. opened'
    BY <1>1, <1>2 DEF opened, NoPublication
  <2>2. Iterators' = Iterators /\ Reading!NoIterator' = Reading!NoIterator
    BY <1>2 DEF Iterators, Reading!NoIterator
  <2> QED
    BY <1>1, <1>2, <2>1, <2>2 DEF ReadInv
<1>3. Length \in Nat
  <2>1. N + 1 \in 1 .. N + 1
    BY ShapeFacts
  <2> QED
    BY <1>1, <2>1, OffsetFacts DEF Length, Off
<1>4. CASE Reading!HasNext
  BY <1>1, <1>2, <1>3, <1>4, HasNextMoves, CursorMoves
<1>5. CASE Reading!Retrieve
  <2>1. pub' = pub /\ it' = it /\ current' = current
    BY <1>5, Zenon DEF Reading!Retrieve
  <2> QED
    BY <1>1, <1>2, <2>1, CursorStays
<1>6. CASE Cardinality(pub.html) = 1 /\ Reading!HasPrevious
  BY <1>1, <1>2, <1>3, <1>6, HasPreviousMoves, CursorMoves
<1>7. \/ Reading!HasNext
      \/ Reading!Retrieve
      \/ Cardinality(pub.html) = 1 /\ Reading!HasPrevious
  <2>1. Reading!Cardinality(pub.html) = Cardinality(pub.html)
    BY DEF Reading!Cardinality, Cardinality
  <2> QED
    BY <2>1 DEF Read, Reading!ReadNext
<1> QED
  BY <1>4, <1>5, <1>6, <1>7

\* Every step does.
LEMMA CursorStep ==
    ASSUME ReadInv, [PCNext]_<<vars, found, readVars>>
    PROVE  ReadInv' /\ [C!Next]_(C!vars)
<1>1. CASE UNCHANGED readVars
  <2>1. pub' = pub /\ it' = it /\ current' = current
    BY <1>1 DEF readVars
  <2>2. ReadInv'
    <3>1. opened' <=> opened
      BY <2>1 DEF opened, NoPublication
    <3>2. Iterators' = Iterators
      BY <2>1 DEF Iterators
    <3> QED
      BY <2>1, <3>1, <3>2 DEF ReadInv, Reading!NoIterator, Reading!NoElement
  <2> QED
    BY <2>1, <2>2, CursorStays
<1>2. CASE OpenPublication
  BY <1>2, OpenFacts
<1>3. CASE Read
  BY <1>3, ReadFacts
<1>4. \/ UNCHANGED readVars
      \/ OpenPublication
      \/ Read
  <2>1. CASE Convert \/ Result \/ NoResult
    BY <2>1, Zenon DEF Convert, Result, NoResult
  <2>2. CASE UNCHANGED <<vars, found, readVars>>
    BY <2>2
  <2> QED
    BY <2>1, <2>2, Zenon DEF PCNext
<1> QED
  BY <1>1, <1>2, <1>3, <1>4

\* Before a publication is opened the cursor has no elements.
LEMMA CursorInit ==
    ASSUME PCInit
    PROVE  ReadInv /\ C!Init
<1>1. ~ opened /\ it = Reading!NoIterator /\ current = Reading!NoElement
  BY Zenon DEF PCInit, opened
<1>2. ReadInv
  BY <1>1 DEF ReadInv
<1>3. C!Init
  BY <1>1 DEF C!Init
<1> QED
  BY <1>2, <1>3

\* The iterator of a publication implements Cursor.
THEOREM IteratorIsCursor == PCSpec => ImplementsCursor
<1>1. PCInit => ReadInv /\ C!Init
  BY CursorInit
<1>2. ReadInv /\ [PCNext]_<<vars, found, readVars>> => ReadInv' /\ [C!Next]_(C!vars)
  BY CursorStep
<1> QED
  BY <1>1, <1>2, PTL DEF PCSpec, ImplementsCursor, C!Spec
=============================================================================
