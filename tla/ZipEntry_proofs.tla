---------------------------- MODULE ZipEntry_proofs ----------------------------
(***************************************************************************)
(* Proofs about ZipEntry, for any number of readers, any size and any      *)
(* distance of the points.                                                 *)
(*                                                                         *)
(* The heart is Loaded: the point a reader has loaded the data from is in  *)
(* the index when the reader comes back with the data, since the index     *)
(* only grows (Owned: who works on the index holds the mutex and works on  *)
(* all of it), so the decompressor finds that point or a better one and    *)
(* never reads what was not loaded (Delivered).                            *)
(***************************************************************************)
EXTENDS ZipEntry, WellFoundedInduction, TLAPS

Less == {q \in Nat \X Nat : q[1] < q[2]}

\* The order of the naturals is well-founded.
LEMMA LessWellFounded == IsWellFoundedOn(Less, Nat)
<1>1. Less = OpToRel(<, Nat)
  BY DEF OpToRel, Less
<1> QED
  BY <1>1, NatLessThanWellFounded

\* A set of naturals that is not empty has a least element.
LEMMA LeastExists ==
    ASSUME NEW S \in SUBSET Nat, S # {}
    PROVE  \E m \in S : \A n \in S : m <= n
<1>1. \E x \in S : \A y \in S : ~ (<<y, x>> \in Less)
  BY LessWellFounded, WFMin
<1>2. \A x, y \in Nat : <<y, x>> \in Less <=> y < x
  BY DEF Less
<1>3. PICK x \in S : \A y \in S : ~ (y < x)
  BY <1>1, <1>2
<1> QED
  BY <1>3

\* Greatest is the greatest element, if the set is bounded.
LEMMA GreatestIs ==
    ASSUME NEW S \in SUBSET Nat, S # {}, NEW b \in Nat, \A s \in S : s <= b
    PROVE  Greatest(S) \in S /\ \A n \in S : n <= Greatest(S)
<1> DEFINE T == {b - s : s \in S}
<1>1. PICK m \in T : \A n \in T : m <= n
  <2>1. \A t \in T : t \in Nat
    OBVIOUS
  <2>2. T # {}
    OBVIOUS
  <2> HIDE DEF T
  <2> QED
    BY <2>1, <2>2, LeastExists
<1>2. PICK s \in S : m = b - s
  OBVIOUS
<1>3. \A n \in S : n <= s
  <2>1. \A n \in S : b - n \in T
    OBVIOUS
  <2>2. \A n \in S : b - s <= b - n
    BY <1>1, <1>2, <2>1
  <2> HIDE DEF T
  <2> QED
    BY <2>2
<1> QED
  BY <1>3 DEF Greatest
-----------------------------------------------------------------------------
(* The inductive invariant.                                                *)

Holding == {"inflate", "unlock"}

Labels == {"idle", "load", "lock", "copy"} \union Holding

Errors == {"none", "ok", "range", "eof", "failed"}

Answers == [n : Int, err : Errors]

Typed ==
    /\ gi \subseteq Points
    /\ gm \in Readers \union {None}
    /\ pc \in [Readers -> Labels]
    /\ req \in [Readers -> Nat \X Nat]
    /\ from \in [Readers -> Nat]
    /\ index \in [Readers -> SUBSET Points]
    /\ at \in [Readers -> Nat]
    /\ out \in [Readers -> Seq(Int)]
    /\ ans \in [Readers -> Answers]

\* The index has one user, who works on all of it.
Owned ==
    \A r \in Readers :
        /\ pc[r] \in Holding <=> gm = r
        /\ pc[r] \in Holding => gi \subseteq index[r]

\* The point a reader has loaded the data from is known, and in front of its
\* range.
Loaded ==
    \A r \in Readers :
        /\ pc[r] \in {"load", "lock", "inflate"} => from[r] <= First(req[r])
        /\ pc[r] \in {"load", "lock"} => from[r] \in {0} \union gi
        /\ pc[r] = "inflate" => from[r] \in {0} \union index[r]

\* How many bytes a range asks for.
Count(q) == IF First(q) > Last(q) THEN 0 ELSE Last(q) - First(q) + 1

\* What was delivered is the beginning of the range; after a success, all of it.
DeliveredTo(r) ==
    /\ out[r] = Bytes(First(req[r]), Len(out[r]))
    /\ Len(out[r]) <= Count(req[r])
    /\ pc[r] = "copy" => at[r] = First(req[r]) + Len(out[r])
    /\ pc[r] \in {"idle", "unlock"} /\ ans[r].err = "ok" =>
          Len(out[r]) = Count(req[r]) /\ ans[r].n = Len(out[r])

Delivered == \A r \in Readers : DeliveredTo(r)

IInv == Typed /\ Owned /\ Loaded /\ Delivered

-----------------------------------------------------------------------------
(* Lemmas about the operators.                                             *)

\* The points are numbers behind 0 and in front of the size.
LEMMA PointsAre == Points \in SUBSET Nat /\ \A p \in Points : p <= Size
  BY ZipEntryAssumption DEF ZipEntryAssumption, Points, Offsets

\* The starting point is known, and in front of the range.
LEMMA StartingPointIs ==
    ASSUME gi \subseteq Points, NEW start \in Nat
    PROVE  /\ StartingPoint(start) \in {0} \union gi
           /\ StartingPoint(start) <= start
           /\ StartingPoint(start) \in Nat
<1> DEFINE S == {0} \union {p \in gi : p <= start}
<1>0. \A p \in gi : p \in Nat
  BY PointsAre
<1>1. S \in SUBSET Nat /\ S # {} /\ \A s \in S : s <= start
  BY <1>0
<1>2. Greatest(S) \in S
  <2> HIDE DEF S
  <2> QED
    BY <1>1, GreatestIs
<1> QED
  BY <1>1, <1>2 DEF StartingPoint

\* The decompressor is taken up at the point that was loaded, or behind it.
LEMMA TakenUpBehind ==
    ASSUME Typed, Loaded, NEW r \in Readers, pc[r] = "inflate"
    PROVE  TakenUpAt(r) >= from[r]
<1> DEFINE S == {0} \union {p \in index[r] : p <= First(req[r])}
<1>0. First(req[r]) \in Nat /\ index[r] \subseteq Points
  BY DEF Typed, First
<1>1. S \in SUBSET Nat /\ S # {} /\ \A s \in S : s <= First(req[r])
  BY <1>0, PointsAre
<1>2. \A n \in S : n <= Greatest(S)
  <2> HIDE DEF S
  <2> QED
    BY <1>0, <1>1, GreatestIs
<1>3. from[r] \in S
  BY DEF Loaded
<1> QED
  BY <1>2, <1>3 DEF TakenUpAt

\* First and last byte of a range.
LEMMA BoundsType ==
    ASSUME NEW q \in Nat \X Nat
    PROVE  First(q) \in Nat /\ Last(q) \in Int /\ Count(q) \in Nat
  BY ZipEntryAssumption DEF ZipEntryAssumption, First, Last, Lesser, Count

\* Bytes is a sequence of the length asked for.
LEMMA BytesAre ==
    ASSUME NEW a \in Nat, NEW n \in Nat
    PROVE  Bytes(a, n) \in Seq(Int) /\ Len(Bytes(a, n)) = n
  BY DEF Bytes

\* The content of a range is Count bytes from its start on.
LEMMA ContentIs ==
    ASSUME NEW q \in Nat \X Nat
    PROVE  Content(q) = Bytes(First(q), Count(q))
<1>1. Bytes(First(q), 0) = <<>>
  BY DEF Bytes
<1> QED
  BY <1>1, BoundsType DEF Content, Count

\* A chunk is put behind what is there.
LEMMA BytesJoin ==
    ASSUME NEW a \in Nat, NEW n \in Nat, NEW k \in Nat
    PROVE  Bytes(a, n) \o Bytes(a + n, k) = Bytes(a, n + k)
  BY DEF Bytes
-----------------------------------------------------------------------------
(* The invariant is inductive.                                             *)

\* It holds at the start.
LEMMA InitHolds == Init => IInv
<1> SUFFICES ASSUME Init PROVE IInv
  OBVIOUS
<1>1. Typed
  <2>1. Answer(0, "none") \in Answers
    BY DEF Answer, Answers, Errors
  <2>2. <<>> \in Seq(Int)
    OBVIOUS
  <2> QED
    BY <2>1, <2>2 DEF Init, Typed, Labels, Holding
<1>2. Owned
  BY ZipEntryAssumption DEF ZipEntryAssumption, Init, Owned, Holding
<1>3. Loaded
  BY DEF Init, Loaded, First
<1>4. Delivered
  <2>1. Bytes(0, 0) = <<>>
    BY DEF Bytes
  <2>2. Count(<<0, 0>>) \in Nat
    BY BoundsType
  <2>3. Count(<<0, 0>>) >= 0 /\ Len(<<>>) = 0
    BY <2>2
  <2>4. First(<<0, 0>>) = 0
    BY DEF First
  <2>5. \A r \in Readers : out[r] = <<>> /\ req[r] = <<0, 0>> /\ pc[r] = "idle" /\ ans[r].err = "none"
    BY DEF Init, Answer
  <2> QED
    BY <2>1, <2>3, <2>4, <2>5 DEF Delivered, DeliveredTo
<1> QED
  BY <1>1, <1>2, <1>3, <1>4 DEF IInv

\* What a call says is an answer.
LEMMA AnswerType == \A n \in Int : \A e \in Errors : Answer(n, e) \in Answers
  BY DEF Answer, Answers

\* A function that is changed at one reader keeps its type.
LEMMA UpdateType ==
    ASSUME NEW S, NEW f \in [Readers -> S], NEW r \in Readers, NEW v \in S
    PROVE  [f EXCEPT ![r] = v] \in [Readers -> S]
  OBVIOUS

\* A step of one reader leaves what the others were delivered as it is.
LEMMA OthersDelivered ==
    ASSUME Delivered, NEW r \in Readers, DeliveredTo(r)',
           \A t \in Readers \ {r} :
              /\ out'[t] = out[t] /\ at'[t] = at[t] /\ pc'[t] = pc[t] /\ ans'[t] = ans[t]
              /\ req'[t] = req[t]
    PROVE  Delivered'
<1>1. \A t \in Readers \ {r} : DeliveredTo(t)'
  BY DEF Delivered, DeliveredTo
<1> QED
  BY <1>1 DEF Delivered

\* Types are kept.
LEMMA TypedStep == IInv /\ [Next]_vars => Typed'
<1> SUFFICES ASSUME IInv, [Next]_vars PROVE Typed'
  OBVIOUS
<1> USE DEF IInv, Typed, Labels, Holding
<1>a. \A n \in Int : {Answer(n, "ok"), Answer(n, "range"), Answer(n, "eof"), Answer(n, "failed")} \subseteq Answers
  BY AnswerType DEF Errors
<1>q. \A q \in Requests : q \in Nat \X Nat /\ q[1] \in Nat
  BY ZipEntryAssumption DEF ZipEntryAssumption
<1>1. ASSUME NEW r \in Readers, NEW q \in Requests, Read(r, q) PROVE Typed'
  <2> USE <1>1, <1>q DEF Read, ReadPlain, ReadIndexed, Goto, Deliver, Say, Return
  <2>1. gi' \subseteq Points /\ gm' \in Readers \union {None} /\ index' \in [Readers -> SUBSET Points] /\ at' \in [Readers -> Nat]
    OBVIOUS
  <2>2. pc' \in [Readers -> Labels] /\ req' \in [Readers -> Nat \X Nat] 
    OBVIOUS
  <2>6. ans' \in [Readers -> Answers]
    <3>1. Len(Content(q)) \in Nat
      BY ContentIs, BytesAre, BoundsType
    <3>2. Answer(Len(Content(q)), "ok") \in Answers /\ Answer(0, "range") \in Answers /\ Answer(0, "eof") \in Answers /\ Answer(0, "failed") \in Answers
      BY <1>a, <3>1
    <3>3. \E a \in Answers : ans' \in {ans, [ans EXCEPT ![r] = a]}
      BY <3>2
    <3> QED
      BY <3>3, UpdateType
  <2>3. from' \in [Readers -> Nat]
    <3>1. StartingPoint(q[1]) \in Nat
      BY StartingPointIs
    <3>2. \E n \in Nat : from' \in {from, [from EXCEPT ![r] = n]}
      BY <3>1
    <3> QED
      BY <3>2, UpdateType
  <2>4. out' \in [Readers -> Seq(Int)]
    <3>1. Content(q) \in Seq(Int) /\ <<>> \in Seq(Int)
      BY ContentIs, BytesAre, BoundsType
    <3>2. out' = [out EXCEPT ![r] = Content(q)] \/ out' = [out EXCEPT ![r] = <<>>]
      OBVIOUS
    <3> QED
      BY <3>1, <3>2
  <2> QED
    BY <2>1, <2>2, <2>3, <2>4, <2>6
<1>2. ASSUME NEW r \in Readers, NEW q \in Requests, Stream(r, q) PROVE Typed'
  <2>1. out' \in [Readers -> Seq(Int)]
    <3>1. <<>> \in Seq(Int)
      OBVIOUS
    <3> QED
      BY <1>2, <3>1 DEF Stream, Deliver
  <2>2. ans' \in [Readers -> Answers]
    <3>1. Answer(-1, "range") \in Answers /\ Answer(-1, "failed") \in Answers
      BY <1>a
    <3>2. \A n \in 0 .. Lesser(q[1], Size) : Answer(n, "eof") \in Answers /\ Answer(n, "failed") \in Answers
      BY <1>a
    <3>3. \E a \in Answers : ans' \in {ans, [ans EXCEPT ![r] = a]}
      BY <1>2, <3>1, <3>2 DEF Stream, Say, Return
    <3> QED
      BY <3>3, UpdateType
  <2> QED
    BY <1>2, <1>q, <2>1, <2>2 DEF Stream, Goto, Return
<1>3. ASSUME NEW r \in Readers, Load(r) PROVE Typed'
  <2>1. Answer(0, "failed") \in Answers
    BY <1>a
  <2>2. ans' \in [Readers -> Answers]
    BY <1>3, <2>1 DEF Load, Say, Return
  <2>3. pc' \in [Readers -> Labels]
    BY <1>3 DEF Load, Goto, Return
  <2>4. from' \in [Readers -> Nat]
    BY <1>3 DEF Load
  <2> QED
    BY <1>3, <2>2, <2>3, <2>4 DEF Load
<1>4. ASSUME NEW r \in Readers, Lock(r) PROVE Typed'
  BY <1>4 DEF Lock, Goto
<1>5. ASSUME NEW r \in Readers, Inflate(r) PROVE Typed'
  <2>1. \A last : Extended(r, last) \subseteq Points
    BY DEF Extended
  <2>2. Content(req[r]) \in Seq(Int)
    BY ContentIs, BytesAre, BoundsType
  <2>3. Garbage(req[r]) \in Seq(Int)
    <3>1. DOMAIN Content(req[r]) = 1 .. Len(Content(req[r])) /\ Len(Content(req[r])) \in Nat
      BY <2>2
    <3> QED
      BY <3>1 DEF Garbage
  <2>4. out' \in [Readers -> Seq(Int)]
    BY <1>5, <2>2, <2>3 DEF Inflate, Deliver
  <2>5. ans' \in [Readers -> Answers]
    <3>1. Len(Content(req[r])) \in Int
      BY <2>2
    <3>2. Answer(Len(Content(req[r])), "ok") \in Answers /\ Answer(0, "failed") \in Answers
      BY <1>a, <3>1
    <3> QED
      BY <1>5, <3>2 DEF Inflate, Say
  <2>6. pc' \in [Readers -> Labels]
    BY <1>5 DEF Inflate, Goto
  <2>7. index' \in [Readers -> SUBSET Points]
    <3>1. PICK last : index' = [index EXCEPT ![r] = Extended(r, last)]
      BY <1>5 DEF Inflate
    <3> QED
      BY <2>1, <3>1
  <2> QED
    BY <1>5, <2>4, <2>5, <2>6, <2>7 DEF Inflate
<1>6. ASSUME NEW r \in Readers, Unlock(r) PROVE Typed'
  BY <1>6 DEF Unlock, Goto
<1>7. ASSUME NEW r \in Readers, Copy(r) PROVE Typed'
  <2>1. Lesser(Chunk, Left(r)) \in Nat
    BY <1>7, BoundsType, ZipEntryAssumption DEF ZipEntryAssumption, Copy, Left, Lesser
  <2>2. \A n \in Nat : out[r] \o Bytes(at[r], n) \in Seq(Int)
    BY BytesAre
  <2>3. \A n \in 0 .. Lesser(Chunk, Left(r)) : n \in Nat
    BY <2>1
  <2>4. out' \in [Readers -> Seq(Int)]
    <3>1. out[r] \o Bytes(at[r], Lesser(Chunk, Left(r))) \in Seq(Int)
      BY <2>1, <2>2
    <3>2. \A n \in 0 .. Lesser(Chunk, Left(r)) : out[r] \o Bytes(at[r], n) \in Seq(Int)
      BY <2>2, <2>3
    <3>3. \E d \in Seq(Int) : out' = [out EXCEPT ![r] = d]
      BY <1>7, <3>1, <3>2 DEF Copy, Deliver
    <3> QED
      BY <3>3, UpdateType
  <2>5. ans' \in [Readers -> Answers]
    <3>1. Len(out[r]) \in Int
      OBVIOUS
    <3>2. \A n \in 0 .. Lesser(Chunk, Left(r)) : Answer(Len(out[r]) + n, "failed") \in Answers
      BY <1>a, <3>1
    <3>3. \E a \in Answers : ans' \in {ans, [ans EXCEPT ![r] = a]}
      BY <1>7, <3>2 DEF Copy, Say, Return
    <3> QED
      BY <3>3, UpdateType
  <2>6. at' \in [Readers -> Nat]
    <3>1. at[r] + Lesser(Chunk, Left(r)) \in Nat
      BY <2>1
    <3>2. \E n \in Nat : at' = [at EXCEPT ![r] = n]
      BY <1>7, <3>1 DEF Copy
    <3> QED
      BY <3>2, UpdateType
  <2>7. pc' \in [Readers -> Labels]
    BY <1>7 DEF Copy, Goto, Return
  <2> QED
    BY <1>7, <2>4, <2>5, <2>6, <2>7 DEF Copy
<1>8. ASSUME NEW r \in Readers, CopyDone(r) PROVE Typed'
  <2>1. Answer(Len(out[r]), "ok") \in Answers /\ Answer(Len(out[r]), "eof") \in Answers
    BY <1>a
  <2> QED
    BY <1>8, <2>1 DEF CopyDone, Goto, Say, Return
<1>9. CASE UNCHANGED vars
  BY <1>9 DEF vars
<1> QED
  BY <1>1, <1>2, <1>3, <1>4, <1>5, <1>6, <1>7, <1>8, <1>9 DEF Next, Step

\* The index keeps its one user.
LEMMA OwnedStep == IInv /\ [Next]_vars => Owned'
<1> SUFFICES ASSUME IInv, [Next]_vars PROVE Owned'
  OBVIOUS
<1> USE ZipEntryAssumption DEF ZipEntryAssumption, IInv, Typed, Labels, Holding, Owned, Goto, Say, Return
<1>1. ASSUME NEW r \in Readers, NEW q \in Requests, Read(r, q) PROVE Owned'
  BY <1>1 DEF Read, ReadPlain, ReadIndexed
<1>2. ASSUME NEW r \in Readers, NEW q \in Requests, Stream(r, q) PROVE Owned'
  BY <1>2 DEF Stream
<1>3. ASSUME NEW r \in Readers, Load(r) PROVE Owned'
  BY <1>3 DEF Load
<1>4. ASSUME NEW r \in Readers, Lock(r) PROVE Owned'
  BY <1>4 DEF Lock
<1>5. ASSUME NEW r \in Readers, Inflate(r) PROVE Owned'
  BY <1>5 DEF Inflate, Extended
<1>6. ASSUME NEW r \in Readers, Unlock(r) PROVE Owned'
  BY <1>6 DEF Unlock
<1>7. ASSUME NEW r \in Readers, Copy(r) PROVE Owned'
  BY <1>7 DEF Copy
<1>8. ASSUME NEW r \in Readers, CopyDone(r) PROVE Owned'
  BY <1>8 DEF CopyDone
<1>9. CASE UNCHANGED vars
  BY <1>9 DEF vars
<1> QED
  BY <1>1, <1>2, <1>3, <1>4, <1>5, <1>6, <1>7, <1>8, <1>9 DEF Next, Step

\* The points looked up stay known.
LEMMA LoadedStep == IInv /\ [Next]_vars => Loaded'
<1> SUFFICES ASSUME IInv, [Next]_vars PROVE Loaded'
  OBVIOUS
<1> USE DEF IInv, Typed, Labels, Loaded, Goto, Say, Return, First
<1>1. ASSUME NEW r \in Readers, NEW q \in Requests, Read(r, q) PROVE Loaded'
  <2>1. q \in Nat \X Nat /\ q[1] \in Nat
    BY ZipEntryAssumption DEF ZipEntryAssumption
  <2>2. CASE ReadPlain(r, q)
    BY <1>1, <2>1, <2>2 DEF Read, ReadPlain
  <2>3. CASE ReadIndexed(r, q)
    BY <1>1, <2>1, <2>3, StartingPointIs DEF Read, ReadIndexed
  <2> QED
    BY <1>1, <2>2, <2>3 DEF Read
<1>2. ASSUME NEW r \in Readers, NEW q \in Requests, Stream(r, q) PROVE Loaded'
  BY <1>2 DEF Stream
<1>3. ASSUME NEW r \in Readers, Load(r) PROVE Loaded'
  BY <1>3 DEF Load
<1>4. ASSUME NEW r \in Readers, Lock(r) PROVE Loaded'
  BY <1>4 DEF Lock
<1>5. ASSUME NEW r \in Readers, Inflate(r) PROVE Loaded'
  BY <1>5 DEF Inflate
<1>6. ASSUME NEW r \in Readers, Unlock(r) PROVE Loaded'
  BY <1>6 DEF Unlock, Owned, Holding
<1>7. ASSUME NEW r \in Readers, Copy(r) PROVE Loaded'
  BY <1>7 DEF Copy
<1>8. ASSUME NEW r \in Readers, CopyDone(r) PROVE Loaded'
  BY <1>8 DEF CopyDone
<1>9. CASE UNCHANGED vars
  BY <1>9 DEF vars
<1> QED
  BY <1>1, <1>2, <1>3, <1>4, <1>5, <1>6, <1>7, <1>8, <1>9 DEF Next, Step

\* What is delivered stays the beginning of the range.
LEMMA DeliveredStep == IInv /\ [Next]_vars => Delivered'
<1> SUFFICES ASSUME IInv, [Next]_vars PROVE Delivered'
  OBVIOUS
<1> USE DEF IInv, Typed
<1>1. ASSUME NEW r \in Readers, NEW q \in Requests, Read(r, q) PROVE Delivered'
  <2>1. q \in Nat \X Nat /\ First(q) \in Nat /\ Count(q) \in Nat
    BY ZipEntryAssumption, BoundsType DEF ZipEntryAssumption
  <2>2. Content(q) = Bytes(First(q), Len(Content(q))) /\ Len(Content(q)) = Count(q)
    BY <2>1, ContentIs, BytesAre
  <2>3. <<>> = Bytes(First(q), 0) /\ Len(<<>>) = 0
    BY DEF Bytes
  <2>4. req' = [req EXCEPT ![r] = q] /\ at' = at
    BY <1>1 DEF Read
  <2>5. CASE ReadIndexed(r, q)
    <3>1. out' = [out EXCEPT ![r] = <<>>] /\ pc' = [pc EXCEPT ![r] = "load"] /\ ans' = ans
      BY <2>5 DEF ReadIndexed, Deliver, Goto
    <3>2. DeliveredTo(r)'
      BY <2>1, <2>3, <2>4, <3>1 DEF DeliveredTo
    <3>3. \A t \in Readers \ {r} :
             /\ out'[t] = out[t] /\ at'[t] = at[t] /\ pc'[t] = pc[t] /\ ans'[t] = ans[t]
             /\ req'[t] = req[t]
      BY <2>4, <3>1
    <3> QED
      BY <3>2, <3>3, OthersDelivered
  <2>6. ASSUME NEW e, e # "ok",
               out' = [out EXCEPT ![r] = <<>>], pc' = [pc EXCEPT ![r] = "idle"],
               ans' = [ans EXCEPT ![r] = Answer(0, e)]
        PROVE  Delivered'
    <3>1. ans'[r].err # "ok" /\ \A t \in Readers \ {r} : ans'[t] = ans[t]
      BY <2>6 DEF Answer
    <3>2. /\ out'[r] = Bytes(First(req'[r]), Len(out'[r]))
          /\ Len(out'[r]) <= Count(req'[r])
      BY <2>1, <2>3, <2>4, <2>6
    <3>3. pc'[r] = "idle"
      BY <2>6
    <3>4. \A t \in Readers \ {r} :
             /\ out'[t] = out[t] /\ at'[t] = at[t] /\ pc'[t] = pc[t] /\ ans'[t] = ans[t]
             /\ req'[t] = req[t]
      BY <2>1, <2>3, <2>4, <2>6, <3>1
    <3>5. DeliveredTo(r)'
      BY <3>1, <3>2, <3>3 DEF DeliveredTo
    <3> QED
      BY <3>4, <3>5, OthersDelivered
  <2>7. CASE /\ out' = [out EXCEPT ![r] = Content(q)] /\ pc' = [pc EXCEPT ![r] = "idle"]
             /\ ans' = [ans EXCEPT ![r] = Answer(Len(Content(q)), "ok")]
    <3>1. ans'[r].n = Len(Content(q)) /\ \A t \in Readers \ {r} : ans'[t] = ans[t]
      BY <2>7 DEF Answer
    <3>2. /\ out'[r] = Bytes(First(req'[r]), Len(out'[r]))
          /\ Len(out'[r]) = Count(req'[r])
      BY <2>1, <2>2, <2>4, <2>7
    <3>3. pc'[r] = "idle" /\ ans'[r].n = Len(out'[r])
      BY <2>7, <3>1
    <3>4. \A t \in Readers \ {r} :
             /\ out'[t] = out[t] /\ at'[t] = at[t] /\ pc'[t] = pc[t] /\ ans'[t] = ans[t]
             /\ req'[t] = req[t]
      BY <2>1, <2>2, <2>4, <2>7, <3>1
    <3>5. Len(out'[r]) <= Count(req'[r])
      BY <2>1, <2>4, <3>2
    <3>6. DeliveredTo(r)'
      BY <3>2, <3>3, <3>5 DEF DeliveredTo
    <3> QED
      BY <3>4, <3>6, OthersDelivered
  <2> QED
    BY <1>1, <2>5, <2>6, <2>7 DEF Read, ReadPlain, Deliver, Goto, Say, Return
<1>2. ASSUME NEW r \in Readers, NEW q \in Requests, Stream(r, q) PROVE Delivered'
  <2>1. q \in Nat \X Nat /\ First(q) \in Nat /\ Count(q) \in Nat
    BY ZipEntryAssumption, BoundsType DEF ZipEntryAssumption
  <2>2. <<>> = Bytes(First(q), 0) /\ Len(<<>>) = 0
    BY DEF Bytes
  <2>3. req' = [req EXCEPT ![r] = q] /\ out' = [out EXCEPT ![r] = <<>>]
    BY <1>2 DEF Stream, Deliver
  <2>4. ASSUME NEW e, NEW n, e # "ok", at' = at, pc' = [pc EXCEPT ![r] = "idle"],
               ans' = [ans EXCEPT ![r] = Answer(n, e)]
        PROVE  Delivered'
    <3>1. ans'[r].err # "ok" /\ \A t \in Readers \ {r} : ans'[t] = ans[t]
      BY <2>4 DEF Answer
    <3>2. /\ out'[r] = Bytes(First(req'[r]), Len(out'[r]))
          /\ Len(out'[r]) <= Count(req'[r])
      BY <2>1, <2>2, <2>3, <2>4
    <3>3. pc'[r] = "idle"
      BY <2>4
    <3>4. \A t \in Readers \ {r} :
             /\ out'[t] = out[t] /\ at'[t] = at[t] /\ pc'[t] = pc[t] /\ ans'[t] = ans[t]
             /\ req'[t] = req[t]
      BY <2>1, <2>2, <2>3, <2>4, <3>1
    <3>5. DeliveredTo(r)'
      BY <3>1, <3>2, <3>3 DEF DeliveredTo
    <3> QED
      BY <3>4, <3>5, OthersDelivered
  <2>5. CASE at' = [at EXCEPT ![r] = q[1]] /\ pc' = [pc EXCEPT ![r] = "copy"] /\ ans' = ans
    BY <2>1, <2>2, <2>3, <2>5 DEF Delivered, DeliveredTo, First
  <2> QED
    BY <1>2, <2>4, <2>5 DEF Stream, Goto, Say, Return
<1>3. ASSUME NEW r \in Readers, Load(r) PROVE Delivered'
  <2>1. UNCHANGED <<req, at, out>>
    BY <1>3 DEF Load
  <2>2. CASE pc' = [pc EXCEPT ![r] = "lock"] /\ ans' = ans
    BY <2>1, <2>2 DEF Delivered, DeliveredTo
  <2>3. CASE pc' = [pc EXCEPT ![r] = "idle"] /\ ans' = [ans EXCEPT ![r] = Answer(0, "failed")]
    BY <2>1, <2>3 DEF Delivered, DeliveredTo, Answer
  <2> QED
    BY <1>3, <2>2, <2>3 DEF Load, Goto, Say, Return
<1>4. ASSUME NEW r \in Readers, Lock(r) PROVE Delivered'
  BY <1>4 DEF Lock, Goto, Delivered, DeliveredTo
<1>5. ASSUME NEW r \in Readers, Inflate(r) PROVE Delivered'
  <2>1. TakenUpAt(r) >= from[r]
    BY <1>5, TakenUpBehind DEF Inflate
  <2>2. First(req[r]) \in Nat /\ Count(req[r]) \in Nat
    BY BoundsType
  <2>3. Content(req[r]) = Bytes(First(req[r]), Len(Content(req[r]))) /\ Len(Content(req[r])) = Count(req[r])
    BY <2>2, ContentIs, BytesAre
  <2>4. req' = req /\ at' = at /\ pc' = [pc EXCEPT ![r] = "unlock"]
    BY <1>5 DEF Inflate, Goto
  <2>5. CASE /\ out' = [out EXCEPT ![r] = Content(req[r])]
             /\ ans' = [ans EXCEPT ![r] = Answer(Len(Content(req[r])), "ok")]
    <3>1. ans'[r].n = Len(Content(req[r])) /\ out'[r] = Content(req[r])
      BY <2>5 DEF Answer
    <3>2. pc'[r] = "unlock" /\ req'[r] = req[r]
      BY <2>4
    <3>3. DeliveredTo(r)'
      BY <2>2, <2>3, <3>1, <3>2 DEF DeliveredTo
    <3>4. \A t \in Readers \ {r} :
             /\ out'[t] = out[t] /\ at'[t] = at[t] /\ pc'[t] = pc[t] /\ ans'[t] = ans[t]
             /\ req'[t] = req[t]
      BY <2>4, <2>5
    <3> QED
      BY <3>3, <3>4, OthersDelivered
  <2>6. CASE out' = out /\ ans' = [ans EXCEPT ![r] = Answer(0, "failed")]
    BY <2>4, <2>6 DEF Delivered, DeliveredTo, Answer
  <2> QED
    BY <1>5, <2>1, <2>5, <2>6 DEF Inflate, Deliver, Say
<1>6. ASSUME NEW r \in Readers, Unlock(r) PROVE Delivered'
  BY <1>6 DEF Unlock, Goto, Delivered, DeliveredTo
<1>7. ASSUME NEW r \in Readers, Copy(r) PROVE Delivered'
  <2> DEFINE chunk == Lesser(Chunk, Left(r))
  <2>1. First(req[r]) \in Nat /\ Last(req[r]) \in Int /\ Count(req[r]) \in Nat /\ Len(out[r]) \in Nat
    BY BoundsType
  <2>2. chunk \in Nat /\ Len(out[r]) + chunk <= Count(req[r])
    <3>1. Left(r) > 0 /\ Left(r) \in Int
      BY <1>7, <2>1 DEF Copy, Left
    <3>2. chunk \in Nat /\ chunk <= Left(r)
      BY <3>1, ZipEntryAssumption DEF ZipEntryAssumption, Lesser
    <3>3. Len(out[r]) + Left(r) = Count(req[r])
      BY <2>1, <3>1 DEF Left, Count
    <3> HIDE DEF chunk
    <3> QED
      BY <2>1, <3>1, <3>2, <3>3
  <2>3. at[r] = First(req[r]) + Len(out[r]) /\ out[r] = Bytes(First(req[r]), Len(out[r]))
    BY <1>7 DEF Copy, Delivered, DeliveredTo
  <2> HIDE DEF chunk
  <2>4. \A n \in 0 .. chunk :
           /\ out[r] \o Bytes(at[r], n) = Bytes(First(req[r]), Len(out[r]) + n)
           /\ Len(out[r] \o Bytes(at[r], n)) = Len(out[r]) + n
    <3> SUFFICES ASSUME NEW n \in 0 .. chunk
                 PROVE  /\ out[r] \o Bytes(at[r], n) = Bytes(First(req[r]), Len(out[r]) + n)
                        /\ Len(out[r] \o Bytes(at[r], n)) = Len(out[r]) + n
      OBVIOUS
    <3>1. n \in Nat
      BY <2>2
    <3>2. Bytes(First(req[r]), Len(out[r])) \o Bytes(First(req[r]) + Len(out[r]), n)
             = Bytes(First(req[r]), Len(out[r]) + n)
      BY <2>1, <3>1, BytesJoin
    <3>3. out[r] \o Bytes(at[r], n) = Bytes(First(req[r]), Len(out[r]) + n)
      BY <2>3, <3>2
    <3>4. Len(Bytes(First(req[r]), Len(out[r]) + n)) = Len(out[r]) + n
      <4>1. Len(out[r]) + n \in Nat
        BY <2>1, <3>1
      <4> QED
        BY <2>1, <4>1, BytesAre
    <3> QED
      BY <3>3, <3>4
  <2>5. req' = req
    BY <1>7 DEF Copy
  <2>6. CASE /\ out' = [out EXCEPT ![r] = out[r] \o Bytes(at[r], chunk)]
             /\ at' = [at EXCEPT ![r] = at[r] + chunk]
             /\ pc' = pc /\ ans' = ans
    <3>1. pc[r] = "copy" /\ chunk \in 0 .. chunk
      BY <1>7, <2>2 DEF Copy
    <3>2. /\ out'[r] = Bytes(First(req[r]), Len(out[r]) + chunk)
          /\ Len(out'[r]) = Len(out[r]) + chunk
      BY <2>4, <2>6, <3>1
    <3>3. \A t \in Readers \ {r} : out'[t] = out[t] /\ at'[t] = at[t]
      BY <2>6
    <3>4. at'[r] = First(req[r]) + Len(out'[r])
      BY <2>1, <2>2, <2>3, <2>6, <3>2
    <3> QED
      BY <2>2, <2>5, <2>6, <3>1, <3>2, <3>3, <3>4 DEF Delivered, DeliveredTo
  <2>7. ASSUME NEW n \in 0 .. chunk,
               out' = [out EXCEPT ![r] = out[r] \o Bytes(at[r], n)],
               at' = [at EXCEPT ![r] = 0],
               pc' = [pc EXCEPT ![r] = "idle"],
               ans' = [ans EXCEPT ![r] = Answer(Len(out[r]) + n, "failed")]
        PROVE  Delivered'
    <3>1. /\ out'[r] = Bytes(First(req[r]), Len(out[r]) + n)
          /\ Len(out'[r]) = Len(out[r]) + n
      BY <2>4, <2>7
    <3>2. \A t \in Readers \ {r} :
             out'[t] = out[t] /\ at'[t] = at[t] /\ pc'[t] = pc[t] /\ ans'[t] = ans[t]
      BY <2>7
    <3>3. Len(out[r]) + n <= Count(req[r])
      BY <2>1, <2>2
    <3>4. ans'[r].err = "failed" /\ pc'[r] = "idle"
      BY <2>7 DEF Answer
    <3>5. DeliveredTo(r)'
      BY <2>5, <3>1, <3>3, <3>4 DEF DeliveredTo
    <3>6. \A t \in Readers \ {r} :
             /\ out'[t] = out[t] /\ at'[t] = at[t] /\ pc'[t] = pc[t] /\ ans'[t] = ans[t]
             /\ req'[t] = req[t]
      BY <2>5, <3>2
    <3> QED
      BY <3>5, <3>6, OthersDelivered
  <2> QED
    BY <1>7, <2>6, <2>7 DEF Copy, Deliver, Goto, Say, Return, chunk
<1>8. ASSUME NEW r \in Readers, CopyDone(r) PROVE Delivered'
  <2>1. First(req[r]) \in Nat /\ Last(req[r]) \in Int /\ Len(out[r]) \in Nat
    BY BoundsType
  <2>2. Len(out[r]) = Count(req[r])
    <3>1. Left(r) <= 0 /\ Len(out[r]) <= Count(req[r])
      BY <1>8 DEF CopyDone, Delivered, DeliveredTo
    <3> QED
      BY <2>1, <3>1 DEF Left, Count
  <2> QED
    BY <1>8, <2>2 DEF CopyDone, Goto, Say, Return, Answer, Delivered, DeliveredTo
<1>9. CASE UNCHANGED vars
  BY <1>9 DEF vars, Delivered, DeliveredTo
<1> QED
  BY <1>1, <1>2, <1>3, <1>4, <1>5, <1>6, <1>7, <1>8, <1>9 DEF Next, Step

-----------------------------------------------------------------------------
(* The theorems.                                                           *)

\* Whatever the readers do, the invariant holds.
THEOREM Invariance == Spec => []IInv
<1>1. Init => IInv
  BY InitHolds
<1>2. IInv /\ [Next]_vars => IInv'
  BY TypedStep, OwnedStep, LoadedStep, DeliveredStep DEF IInv
<1> QED
  BY <1>1, <1>2, PTL DEF Spec

\* One decompressor at a time works on the index of an entry, and on all of it.
THEOREM IndexHasOneUser == Spec => []IndexOwned
<1>1. IInv => IndexOwned
  BY DEF IInv, Owned, IndexOwned, Holding
<1> QED
  BY <1>1, Invariance, PTL

\* A call delivers the beginning of its range and never data that was not
\* loaded; a call that succeeds delivers all of it.
THEOREM DeliversExactly == Spec => []ReadsExact
<1>1. IInv => ReadsExact
  <2> SUFFICES ASSUME IInv, NEW r \in Readers
               PROVE  /\ out[r] = SubSeq(Content(req[r]), 1, Len(out[r]))
                      /\ ans[r].err = "ok" /\ pc[r] = "idle" =>
                            out[r] = Content(req[r]) /\ ans[r].n = Len(out[r])
    BY DEF ReadsExact
  <2>1. First(req[r]) \in Nat /\ Count(req[r]) \in Nat /\ Len(out[r]) \in Nat
    BY BoundsType DEF IInv, Typed
  <2>2. Content(req[r]) = Bytes(First(req[r]), Count(req[r]))
    BY ContentIs DEF IInv, Typed
  <2>3. out[r] = Bytes(First(req[r]), Len(out[r])) /\ Len(out[r]) <= Count(req[r])
    BY DEF IInv, Delivered, DeliveredTo
  <2>4. \A a, k, n \in Nat : k <= n => SubSeq(Bytes(a, n), 1, k) = Bytes(a, k)
    BY DEF Bytes
  <2>5. out[r] = SubSeq(Content(req[r]), 1, Len(out[r]))
    BY <2>1, <2>2, <2>3, <2>4
  <2> QED
    BY <2>2, <2>3, <2>5 DEF IInv, Delivered, DeliveredTo
<1> QED
  BY <1>1, Invariance, PTL

\* The index only grows.
THEOREM GrowingIndex == Spec => IndexGrows
<1>1. IInv /\ [Next]_vars => [gi \subseteq gi']_vars
  <2> SUFFICES ASSUME IInv, Next PROVE gi \subseteq gi'
    OBVIOUS
  <2>1. ASSUME NEW r \in Readers, Unlock(r) PROVE gi \subseteq gi'
    BY <2>1 DEF IInv, Owned, Holding, Unlock
  <2> QED
    BY <2>1 DEF Next, Step, Read, Stream, Load, Lock, Inflate, Copy, CopyDone
<1> QED
  BY <1>1, Invariance, PTL DEF Spec, IndexGrows
=============================================================================
