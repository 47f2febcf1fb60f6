-------------------------- MODULE FileFetcher_proofs --------------------------
(***************************************************************************)
(* For any number of resources and goroutines: after shutdown no reachable *)
(* resource has an open handle, and the weak list stays bounded.           *)
(***************************************************************************)
EXTENDS FileFetcher, FiniteSetTheorems, TLAPS

\* Handles and flags go together: a closed resource has no open handle, a
\* handle that was opened has a cleanup until it is closed by it, and what the
\* client or the fetcher holds is reachable.
HandleInv ==
    /\ \A r \in rclosed : file[r] # "open"
    /\ \A r \in Res : obj[r] = "live" /\ file[r] = "closed" => r \in rclosed
    /\ \A r \in Res : obj[r] = "live" /\ file[r] # "none" => r \in cleanup
    /\ \A r \in Res : obj[r] = "free" => file[r] = "none" /\ r \notin rclosed
    /\ \A r \in Res : Pinned(r) \/ r \in held => obj[r] = "live"

\* What the fetcher points to is reachable.  It is needed for the bound: a
\* collected resource is counted once, as a nil pointer.
PointerInv == tracked \union closing \subseteq {r \in Res : obj[r] = "live"}

Inv ==
    /\ TypeOK
    /\ AllTracked
    /\ HandleInv
    /\ PointerInv
    /\ WeakListBounded

LEMMA InitInv == Init => Inv
  <1> SUFFICES ASSUME Init PROVE Inv
    OBVIOUS
  <1>1. Cardinality({}) = 0 /\ Cardinality(Res) \in Nat
    BY FS_EmptySet, FS_CardinalityType, FileFetcherAssumption
  <1>2. TypeOK
    <2>1. arg \in [Threads -> Res]
      BY DEF Init
    <2>2. nilRefs \in 0 .. Cardinality(Res)
      BY <1>1, SMT DEF Init
    <2> QED
      BY <2>1, <2>2 DEF Init, TypeOK
  <1>3. AllTracked /\ HandleInv /\ PointerInv
    BY DEF Init, AllTracked, HandleInv, PointerInv, Pinned
  <1>4. WeakListBounded
    BY <1>1, SMT DEF Init, WeakListBounded
  <1> QED
    BY <1>2, <1>3, <1>4 DEF Inv

\* The weak list only shrinks between two Gets.
LEMMA ListFacts ==
    ASSUME TypeOK, NEW T \in SUBSET Res
    PROVE  /\ Cardinality(T) \in Nat
           /\ Cardinality(T) <= Cardinality(Res)
           /\ \A r \in T : Cardinality(T \ {r}) = Cardinality(T) - 1
           /\ \A r : r \notin T => T \ {r} = T
  BY FS_Subset, FS_CardinalityType, FS_RemoveElement, FileFetcherAssumption

-----------------------------------------------------------------------------
(* One lemma per action that changes the tracking; the others are simple.   *)

LEMMA GetInv ==
    ASSUME Inv, NEW t \in Threads, Get(t)
    PROVE  Inv'
  <1>1. CASE closed /\ result' = [result EXCEPT ![t] = "failure"]
             /\ UNCHANGED <<tracked, nilRefs, obj, held>>
    <2>1. UNCHANGED <<closed, tracked, nilRefs, obj, held, closing, rclosed, file,
                      cleanup, pc, arg>>
      BY <1>1 DEF Get
    <2> QED
      BY <1>1, <2>1
      DEF Inv, TypeOK, AllTracked, HandleInv, PointerInv, WeakListBounded, Pinned
  <1>2. CASE ~closed
    <2>1. PICK r \in Res :
            /\ obj[r] = "free"
            /\ obj' = [obj EXCEPT ![r] = "live"]
            /\ held' = held \union {r}
            /\ tracked' = (tracked \ rclosed) \union {r}
            /\ nilRefs' = 0
            /\ result' = [result EXCEPT ![t] = "ok"]
      BY <1>2 DEF Get
    <2>2. UNCHANGED <<closed, closing, rclosed, file, cleanup, pc, arg>>
      BY DEF Get
    <2>3. tracked' \in SUBSET Res
      BY <2>1 DEF Inv, TypeOK
    <2>4. Cardinality(tracked') \in Nat /\ Cardinality(tracked') <= Cardinality(Res)
          /\ Cardinality(Res) \in Nat
      BY <2>3, ListFacts, FS_CardinalityType, FileFetcherAssumption DEF Inv
    <2>5. TypeOK'
      <3>1. nilRefs' \in 0 .. Cardinality(Res)
        BY <2>1, <2>4, SMT
      <3> QED
        BY <2>1, <2>2, <2>3, <3>1 DEF Inv, TypeOK
    <2>6. AllTracked'
      BY <1>2, <2>1, <2>2 DEF Inv, TypeOK, AllTracked
    <2>7. HandleInv'
      BY <2>1, <2>2 DEF Inv, TypeOK, HandleInv, Pinned
    <2>8. PointerInv'
      BY <2>1, <2>2 DEF Inv, TypeOK, PointerInv
    <2>9. WeakListBounded'
      BY <2>1, <2>4, SMT DEF WeakListBounded
    <2> QED
      BY <2>5, <2>6, <2>7, <2>8, <2>9 DEF Inv
  <1> QED
    BY <1>1, <1>2 DEF Get

LEMMA DetachInv ==
    ASSUME Inv, Detach
    PROVE  Inv'
  <1>1. Cardinality({}) = 0 /\ Cardinality(Res) \in Nat
    BY FS_EmptySet, FS_CardinalityType, FileFetcherAssumption
  <1>2. TypeOK'
    <2>1. nilRefs' \in 0 .. Cardinality(Res)
      BY <1>1, SMT DEF Detach
    <2> QED
      BY <2>1 DEF Inv, TypeOK, Detach
  <1>3. AllTracked'
    BY DEF Inv, TypeOK, AllTracked, Detach
  <1>4. HandleInv' /\ PointerInv'
    BY DEF Inv, HandleInv, PointerInv, Pinned, Detach
  <1>5. WeakListBounded'
    BY <1>1, SMT DEF WeakListBounded, Detach
  <1> QED
    BY <1>2, <1>3, <1>4, <1>5 DEF Inv

LEMMA CollectInv ==
    ASSUME Inv, NEW r \in Res, Collect(r)
    PROVE  Inv'
  <1>1. /\ tracked \in SUBSET Res /\ nilRefs \in Nat
        /\ nilRefs + Cardinality(tracked) <= Cardinality(Res)
        /\ Cardinality(Res) \in Nat
    BY FS_CardinalityType, FileFetcherAssumption, SMT
    DEF Inv, TypeOK, WeakListBounded
  <1>2. /\ Cardinality(tracked) \in Nat
        /\ r \in tracked => Cardinality(tracked \ {r}) = Cardinality(tracked) - 1
        /\ r \notin tracked => Cardinality(tracked \ {r}) = Cardinality(tracked)
    BY <1>1, ListFacts DEF Inv
  <1>3. nilRefs' + Cardinality(tracked') = nilRefs + Cardinality(tracked)
    <2>1. CASE r \in tracked
      BY <1>1, <1>2, <2>1, SMT DEF Collect
    <2>2. CASE r \notin tracked
      BY <1>1, <1>2, <2>2, SMT DEF Collect
    <2> QED
      BY <2>1, <2>2
  <1>4. tracked' \in SUBSET Res /\ Cardinality(tracked') \in Nat
    BY <1>1, ListFacts DEF Inv, Collect
  <1>5. TypeOK'
    <2>1. nilRefs' \in Nat
      BY <1>1, SMT DEF Collect
    <2>2. nilRefs' \in 0 .. Cardinality(Res)
      BY <1>1, <1>2, <1>3, <1>4, <2>1, SMT
    <2> QED
      BY <1>4, <2>2 DEF Inv, TypeOK, Collect
  <1>6. AllTracked'
    BY DEF Inv, TypeOK, AllTracked, Collect
  <1>7. HandleInv' /\ PointerInv'
    BY DEF Inv, TypeOK, HandleInv, PointerInv, Pinned, Collect
  <1>8. WeakListBounded'
    BY <1>1, <1>3 DEF WeakListBounded
  <1> QED
    BY <1>5, <1>6, <1>7, <1>8 DEF Inv

-----------------------------------------------------------------------------
(* The actions that leave the weak list alone.                             *)

LEMMA CloseDetachedInv ==
    ASSUME Inv, NEW r \in Res, CloseDetached(r)
    PROVE  Inv'
  <1>1. TypeOK' /\ WeakListBounded'
    BY DEF Inv, TypeOK, WeakListBounded, CloseDetached, CloseHandle
  <1>2. AllTracked' /\ PointerInv'
    BY DEF Inv, TypeOK, AllTracked, PointerInv, CloseDetached, CloseHandle
  <1>3. HandleInv'
    BY DEF Inv, TypeOK, HandleInv, PointerInv, Pinned, CloseDetached, CloseHandle
  <1> QED
    BY <1>1, <1>2, <1>3 DEF Inv

LEMMA CloseResourceInv ==
    ASSUME Inv, NEW r \in Res, CloseResource(r)
    PROVE  Inv'
  <1>1. TypeOK' /\ WeakListBounded'
    BY DEF Inv, TypeOK, WeakListBounded, CloseResource, CloseHandle
  <1>2. AllTracked' /\ PointerInv'
    BY DEF Inv, TypeOK, AllTracked, PointerInv, CloseResource, CloseHandle
  <1>3. HandleInv'
    BY DEF Inv, TypeOK, HandleInv, Pinned, CloseResource, CloseHandle
  <1> QED
    BY <1>1, <1>2, <1>3 DEF Inv

LEMMA DropInv ==
    ASSUME Inv, NEW r \in Res, Drop(r)
    PROVE  Inv'
  <1>1. TypeOK' /\ WeakListBounded'
    BY DEF Inv, TypeOK, WeakListBounded, Drop
  <1>2. AllTracked' /\ PointerInv'
    BY DEF Inv, TypeOK, AllTracked, PointerInv, Drop
  <1>3. HandleInv'
    BY DEF Inv, TypeOK, HandleInv, Pinned, Drop
  <1> QED
    BY <1>1, <1>2, <1>3 DEF Inv

LEMMA CallInv ==
    ASSUME Inv, NEW t \in Threads, NEW r \in Res, NEW op \in {"open", "stream"},
           Call(t, r, op)
    PROVE  Inv'
  <1>1. TypeOK' /\ WeakListBounded'
    BY DEF Inv, TypeOK, WeakListBounded, Call
  <1>2. AllTracked' /\ PointerInv'
    BY DEF Inv, TypeOK, AllTracked, PointerInv, Call
  <1>3. HandleInv'
    BY DEF Inv, TypeOK, HandleInv, Pinned, Call
  <1> QED
    BY <1>1, <1>2, <1>3 DEF Inv

LEMMA OpenInv ==
    ASSUME Inv, NEW t \in Threads, Open(t)
    PROVE  Inv'
  <1>1. TypeOK' /\ WeakListBounded'
    BY DEF Inv, TypeOK, WeakListBounded, Open, Finish
  <1>2. AllTracked' /\ PointerInv'
    BY DEF Inv, TypeOK, AllTracked, PointerInv, Open, Finish
  <1>3. HandleInv'
    BY DEF Inv, TypeOK, HandleInv, Pinned, Open, Finish
  <1> QED
    BY <1>1, <1>2, <1>3 DEF Inv

LEMMA InOutInv ==
    ASSUME Inv, NEW t \in Threads, InOut(t)
    PROVE  Inv'
  <1>1. TypeOK' /\ WeakListBounded'
    BY DEF Inv, TypeOK, WeakListBounded, InOut, Finish
  <1>2. AllTracked' /\ PointerInv'
    BY DEF Inv, TypeOK, AllTracked, PointerInv, InOut, Finish
  <1>3. HandleInv'
    BY DEF Inv, TypeOK, HandleInv, Pinned, InOut, Finish
  <1> QED
    BY <1>1, <1>2, <1>3 DEF Inv

LEMMA StreamInv ==
    ASSUME Inv, NEW t \in Threads, Stream(t)
    PROVE  Inv'
  <1>1. TypeOK' /\ WeakListBounded'
    BY DEF Inv, TypeOK, WeakListBounded, Stream, Finish
  <1>2. AllTracked' /\ PointerInv'
    BY DEF Inv, TypeOK, AllTracked, PointerInv, Stream, Finish
  <1>3. HandleInv'
    BY DEF Inv, TypeOK, HandleInv, Pinned, Stream, Finish
  <1> QED
    BY <1>1, <1>2, <1>3 DEF Inv

LEMMA RunCleanupInv ==
    ASSUME Inv, NEW r \in Res, RunCleanup(r)
    PROVE  Inv'
  <1>1. TypeOK' /\ WeakListBounded'
    BY DEF Inv, TypeOK, WeakListBounded, RunCleanup, CloseHandle
  <1>2. AllTracked' /\ PointerInv'
    BY DEF Inv, TypeOK, AllTracked, PointerInv, RunCleanup, CloseHandle
  <1>3. HandleInv'
    BY DEF Inv, TypeOK, HandleInv, Pinned, RunCleanup, CloseHandle
  <1> QED
    BY <1>1, <1>2, <1>3 DEF Inv

LEMMA ReuseInv ==
    ASSUME Inv, NEW r \in Res, Reuse(r)
    PROVE  Inv'
  <1>1. TypeOK' /\ WeakListBounded'
    BY DEF Inv, TypeOK, WeakListBounded, Reuse
  <1>2. AllTracked' /\ PointerInv'
    BY DEF Inv, TypeOK, AllTracked, PointerInv, Reuse
  <1>3. HandleInv'
    BY DEF Inv, TypeOK, HandleInv, Pinned, Reuse
  <1> QED
    BY <1>1, <1>2, <1>3 DEF Inv

LEMMA NextInv ==
    ASSUME Inv, [Next]_vars
    PROVE  Inv'
  <1>1. CASE UNCHANGED vars
    BY <1>1 DEF Inv, vars, TypeOK, AllTracked, HandleInv, PointerInv, Pinned,
                WeakListBounded
  <1>2. CASE Detach
    BY <1>2, DetachInv
  <1>3. ASSUME NEW t \in Threads,
               \/ Get(t) \/ Work(t)
               \/ \E r \in Res, op \in {"open", "stream"} : Call(t, r, op)
        PROVE  Inv'
    BY <1>3, GetInv, OpenInv, InOutInv, StreamInv, CallInv DEF Work
  <1>4. ASSUME NEW r \in Res,
               \/ CloseDetached(r) \/ CloseResource(r) \/ Drop(r)
               \/ Collect(r) \/ RunCleanup(r) \/ Reuse(r)
        PROVE  Inv'
    BY <1>4, CloseDetachedInv, CloseResourceInv, DropInv, CollectInv, RunCleanupInv,
       ReuseInv
  <1> QED
    BY <1>1, <1>2, <1>3, <1>4 DEF Next

THEOREM Invariance == Spec => []Inv
  <1>1. Init => Inv
    BY InitInv
  <1>2. Inv /\ [Next]_vars => Inv'
    BY NextInv
  <1> QED
    BY <1>1, <1>2, PTL DEF Spec

-----------------------------------------------------------------------------
(* What follows from it.                                                   *)

\* The variables of the fetcher keep their types.
THEOREM TypeCorrect == Spec => []TypeOK
  <1>1. Inv => TypeOK
    BY DEF Inv
  <1> QED
    BY <1>1, Invariance, PTL

\* Publication shutdown (FileFetcher.Close) leaves no reachable resource with an
\* open handle, whatever ran concurrently with it.
THEOREM ShutdownReleases == Spec => []ReleasedAfterClose
  <1>1. Inv => ReleasedAfterClose
    BY DEF Inv, AllTracked, HandleInv, ReleasedAfterClose
  <1> QED
    BY <1>1, Invariance, PTL

\* The weak pointers of FileFetcher reach every resource that may need closing.
THEOREM TrackingComplete == Spec => []AllTracked
  <1>1. Inv => AllTracked
    BY DEF Inv
  <1> QED
    BY <1>1, Invariance, PTL

\* The weak list of FileFetcher.Get does not grow with the number of requests.
THEOREM WeakListStaysBounded == Spec => []WeakListBounded
  <1>1. Inv => WeakListBounded
    BY DEF Inv
  <1> QED
    BY <1>1, Invariance, PTL

\* A read under way keeps its handle open unless somebody closed the resource:
\* the KeepAlive of Read and Length is what makes it so.
THEOREM ReadsKeepHandle == Spec => []ReadsSurviveCollection
  <1>1. Inv => ReadsSurviveCollection
    BY DEF Inv, TypeOK, HandleInv, Pinned, ReadsSurviveCollection
  <1> QED
    BY <1>1, Invariance, PTL
=============================================================================
