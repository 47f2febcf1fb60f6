----------------------------- MODULE FileFetcher -----------------------------
(***************************************************************************)
(* Who closes the file handles: FileFetcher and FileResource of            *)
(* pkg/fetcher/fetcher_file.go.                                            *)
(*                                                                         *)
(* A FileResource opens its file on first use.  Three parties may close    *)
(* that handle: the client (FileResource.Close), the fetcher when the      *)
(* publication shuts down (FileFetcher.Close, through weak pointers), and  *)
(* the runtime, once the resource is unreachable (runtime.AddCleanup).     *)
(* They run concurrently with reads, which use the handle outside the      *)
(* resource's lock.                                                        *)
(*                                                                         *)
(* A critical section of f.mu or r.mu is one action.  Res is the pool of   *)
(* FileResource objects: one that was collected and cleaned up stands for  *)
(* the next object allocated.                                              *)
(***************************************************************************)
EXTENDS Naturals, FiniteSets

CONSTANTS
    Res,      \* FileResource objects
    Threads   \* goroutines serving requests

ASSUME FileFetcherAssumption == IsFiniteSet(Res) /\ Res # {}

VARIABLES
    closed,     \* FileFetcher.closed
    tracked,    \* the reachable resources FileFetcher.resources points to
    nilRefs,    \* how many of its weak pointers have become nil
    closing,    \* what a running FileFetcher.Close has detached, not yet closed
    obj,        \* obj[r]: "free", "live", or "dead" (collected, cleanup due)
    held,       \* the resources the client keeps a reference to
    rclosed,    \* the resources with FileResource.closed set
    file,       \* file[r]: the handle of r: "none", "open" or "closed"
    cleanup,    \* the resources with a cleanup registered for their handle
    pc,         \* pc[t]: "idle", "open", "io" or "stream"
    arg,        \* arg[t]: the resource t works on
    result      \* result[t]: how the last operation of t ended

vars == <<closed, tracked, nilRefs, closing, obj, held, rclosed, file, cleanup,
          pc, arg, result>>

Init ==
    /\ closed = FALSE
    /\ tracked = {}
    /\ nilRefs = 0
    /\ closing = {}
    /\ obj = [r \in Res |-> "free"]
    /\ held = {}
    /\ rclosed = {}
    /\ file = [r \in Res |-> "none"]
    /\ cleanup = {}
    /\ pc = [t \in Threads |-> "idle"]
    /\ arg \in {[t \in Threads |-> r] : r \in Res}
    /\ result = [t \in Threads |-> "none"]

-----------------------------------------------------------------------------
(* The fetcher.                                                            *)

\* Mutant: resources are handed out, and tracked, after Close as well.
GetIgnoringClosed(t) ==
    /\ pc[t] = "idle"
    /\ \E r \in Res :
          /\ obj[r] = "free"
          /\ obj' = [obj EXCEPT ![r] = "live"]
          /\ held' = held \union {r}
          /\ tracked' = (tracked \ rclosed) \union {r}
    /\ nilRefs' = 0
    /\ result' = [result EXCEPT ![t] = "ok"]
    /\ UNCHANGED <<closed, closing, rclosed, file, cleanup, pc, arg>>

\* Mutant: the weak list is not pruned.
GetUnpruned(t) ==
    /\ pc[t] = "idle"
    /\ ~closed
    /\ \E r \in Res :
          /\ obj[r] = "free"
          /\ obj' = [obj EXCEPT ![r] = "live"]
          /\ held' = held \union {r}
          /\ tracked' = tracked \union {r}
    /\ result' = [result EXCEPT ![t] = "ok"]
    /\ UNCHANGED <<closed, nilRefs, closing, rclosed, file, cleanup, pc, arg>>

\* Get: a failure after Close, else a new resource, tracked by a weak pointer;
\* the pointers to dead and closed resources are dropped on the way.
Get(t) ==
    /\ pc[t] = "idle"
    /\ \/ /\ closed
          /\ result' = [result EXCEPT ![t] = "failure"]
          /\ UNCHANGED <<tracked, nilRefs, obj, held>>
       \/ /\ ~closed
          /\ \E r \in Res :
                /\ obj[r] = "free"
                /\ obj' = [obj EXCEPT ![r] = "live"]
                /\ held' = held \union {r}
                /\ tracked' = (tracked \ rclosed) \union {r}
          /\ nilRefs' = 0
          /\ result' = [result EXCEPT ![t] = "ok"]
    /\ UNCHANGED <<closed, closing, rclosed, file, cleanup, pc, arg>>

\* The critical section of FileFetcher.Close.
Detach ==
    /\ closing' = closing \union tracked
    /\ tracked' = {}
    /\ nilRefs' = 0
    /\ closed' = TRUE
    /\ UNCHANGED <<obj, held, rclosed, file, cleanup, pc, arg, result>>

CloseHandle(r) ==
    file' = [file EXCEPT ![r] = IF file[r] = "open" THEN "closed" ELSE file[r]]

\* One iteration of the loop of FileFetcher.Close: the weak pointer still has a
\* value, and the resource is closed.
CloseDetached(r) ==
    /\ r \in closing
    /\ closing' = closing \ {r}
    /\ rclosed' = rclosed \union {r}
    /\ CloseHandle(r)
    /\ UNCHANGED <<closed, tracked, nilRefs, obj, held, cleanup, pc, arg, result>>

-----------------------------------------------------------------------------
(* The client and its resources.                                           *)

\* FileResource.Close.
CloseResource(r) ==
    /\ r \in held
    /\ rclosed' = rclosed \union {r}
    /\ CloseHandle(r)
    /\ UNCHANGED <<closed, tracked, nilRefs, closing, obj, held, cleanup, pc, arg, result>>

\* The client forgets a resource, closed or not.
Drop(r) ==
    /\ r \in held
    /\ held' = held \ {r}
    /\ UNCHANGED <<closed, tracked, nilRefs, closing, obj, rclosed, file, cleanup, pc, arg, result>>

\* Read, Length (op = "open") or Stream (op = "stream") is called.
Call(t, r, op) ==
    /\ pc[t] = "idle"
    /\ r \in held
    /\ pc' = [pc EXCEPT ![t] = op]
    /\ arg' = [arg EXCEPT ![t] = r]
    /\ result' = [result EXCEPT ![t] = "none"]
    /\ UNCHANGED <<closed, tracked, nilRefs, closing, obj, held, rclosed, file, cleanup>>

Finish(t, how) ==
    /\ pc' = [pc EXCEPT ![t] = "idle"]
    /\ result' = [result EXCEPT ![t] = how]

\* Mutant: the new handle gets no cleanup.
OpenNoCleanup(t) ==
    /\ pc[t] = "open"
    /\ \/ arg[t] \in rclosed /\ Finish(t, "closed") /\ UNCHANGED file
       \/ /\ arg[t] \notin rclosed
          /\ file' = [file EXCEPT ![arg[t]] = "open"]
          /\ pc' = [pc EXCEPT ![t] = "io"]
          /\ UNCHANGED result
    /\ UNCHANGED <<closed, tracked, nilRefs, closing, obj, held, rclosed, cleanup, arg>>

\* open, under r.mu: refuse, reuse the handle, or open the file, which may fail.
Open(t) ==
    LET r == arg[t]
    IN  /\ pc[t] = "open"
        /\ \/ /\ r \in rclosed
              /\ Finish(t, "closed")
              /\ UNCHANGED <<file, cleanup>>
           \/ /\ r \notin rclosed
              /\ file[r] # "none"
              /\ pc' = [pc EXCEPT ![t] = "io"]
              /\ UNCHANGED <<file, cleanup, result>>
           \/ /\ r \notin rclosed
              /\ file[r] = "none"
              /\ file' = [file EXCEPT ![r] = "open"]
              /\ cleanup' = cleanup \union {r}
              /\ pc' = [pc EXCEPT ![t] = "io"]
              /\ UNCHANGED result
           \/ /\ r \notin rclosed
              /\ file[r] = "none"
              /\ Finish(t, "failure")
              /\ UNCHANGED <<file, cleanup>>
        /\ UNCHANGED <<closed, tracked, nilRefs, closing, obj, held, rclosed, arg>>

\* ReadAt or Stat on the handle, outside the lock.
InOut(t) ==
    /\ pc[t] = "io"
    /\ Finish(t, IF file[arg[t]] = "open" THEN "ok" ELSE "closed")
    /\ UNCHANGED <<closed, tracked, nilRefs, closing, obj, held, rclosed, file, cleanup, arg>>

\* Stream reads through a handle of its own, closed when it returns.
Stream(t) ==
    /\ pc[t] = "stream"
    /\ \E how \in {"ok", "failure"} : Finish(t, how)
    /\ UNCHANGED <<closed, tracked, nilRefs, closing, obj, held, rclosed, file, cleanup, arg>>

-----------------------------------------------------------------------------
(* The runtime.                                                            *)

\* Mutant: no KeepAlive, the resource is dead once open has returned.
PinnedByLock(r) == \E t \in Threads : pc[t] \in {"open", "stream"} /\ arg[t] = r

\* A running operation keeps its resource reachable (KeepAlive).
Pinned(r) == \E t \in Threads : pc[t] # "idle" /\ arg[t] = r

\* The collector finds r unreachable: weak pointers to it become nil.
Collect(r) ==
    /\ obj[r] = "live"
    /\ r \notin held
    /\ ~Pinned(r)
    /\ obj' = [obj EXCEPT ![r] = "dead"]
    /\ tracked' = tracked \ {r}
    /\ nilRefs' = IF r \in tracked THEN nilRefs + 1 ELSE nilRefs
    /\ closing' = closing \ {r}
    /\ UNCHANGED <<closed, held, rclosed, file, cleanup, pc, arg, result>>

\* The cleanup of a dead resource closes the handle it was registered for.
RunCleanup(r) ==
    /\ obj[r] = "dead"
    /\ r \in cleanup
    /\ CloseHandle(r)
    /\ cleanup' = cleanup \ {r}
    /\ UNCHANGED <<closed, tracked, nilRefs, closing, obj, held, rclosed, pc, arg, result>>

\* The memory of a dead object without open handle is used again.
Reuse(r) ==
    /\ obj[r] = "dead"
    /\ r \notin cleanup
    /\ file[r] # "open"
    /\ obj' = [obj EXCEPT ![r] = "free"]
    /\ rclosed' = rclosed \ {r}
    /\ file' = [file EXCEPT ![r] = "none"]
    /\ UNCHANGED <<closed, tracked, nilRefs, closing, held, cleanup, pc, arg, result>>

-----------------------------------------------------------------------------
Work(t) == Open(t) \/ InOut(t) \/ Stream(t)

Next ==
    \/ Detach
    \/ \E t \in Threads :
          \/ Get(t)
          \/ Work(t)
          \/ \E r \in Res, op \in {"open", "stream"} : Call(t, r, op)
    \/ \E r \in Res :
          \/ CloseDetached(r)
          \/ CloseResource(r)
          \/ Drop(r)
          \/ Collect(r)
          \/ RunCleanup(r)
          \/ Reuse(r)

Spec == Init /\ [][Next]_vars

\* FileFetcher.Close runs its loop to the end, operations return, and the
\* runtime runs the cleanups of what it has collected.
FairSpec ==
    /\ Spec
    /\ \A r \in Res : WF_vars(CloseDetached(r)) /\ WF_vars(RunCleanup(r))
    /\ \A t \in Threads : WF_vars(Work(t))

-----------------------------------------------------------------------------
(* Properties.                                                             *)

\* Every variable has its type.
TypeOK ==
    /\ closed \in BOOLEAN
    /\ tracked \subseteq Res
    /\ nilRefs \in 0 .. Cardinality(Res)
    /\ closing \subseteq Res
    /\ obj \in [Res -> {"free", "live", "dead"}]
    /\ held \subseteq Res
    /\ rclosed \subseteq Res
    /\ file \in [Res -> {"none", "open", "closed"}]
    /\ cleanup \subseteq Res
    /\ pc \in [Threads -> {"idle", "open", "io", "stream"}]
    /\ arg \in [Threads -> Res]
    /\ result \in [Threads -> {"none", "ok", "closed", "failure"}]

\* Once FileFetcher.Close is through its loop, no reachable resource has an open
\* handle, and none can open one again: not one handed out concurrently, nor one
\* whose first read was still under way ("Get cannot register new resources
\* after publication shutdown").
ReleasedAfterClose ==
    closed /\ closing = {} =>
        \A r \in Res : obj[r] = "live" => r \in rclosed /\ file[r] # "open"

\* "Safety mechanism to cleanup any os.File handles still open": until shutdown
\* the weak list reaches every reachable resource that is not closed.
AllTracked ==
    \A r \in Res :
        obj[r] = "live" /\ r \notin rclosed =>
            IF closed THEN r \in closing ELSE r \in tracked

\* "Repeated requests must not grow a ten-minute publication's weak list": dead
\* and closed resources included, it is never longer than the number of resources
\* that exist at a time.
WeakListBounded == nilRefs + Cardinality(tracked) <= Cardinality(Res)

\* The runtime never closes a handle under a running read: an operation finds
\* its handle closed only when somebody closed the resource.
ReadsSurviveCollection ==
    \A t \in Threads : pc[t] = "io" /\ file[arg[t]] = "closed" => arg[t] \in rclosed

\* The handle of a resource that was dropped without Close is closed after the
\* resource was collected.
DroppedHandleCloses ==
    \A r \in Res : obj[r] = "dead" /\ file[r] = "open" ~> file[r] # "open"

=============================================================================
