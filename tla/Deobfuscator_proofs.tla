-------------------------- MODULE Deobfuscator_proofs --------------------------
(***************************************************************************)
(* Proofs about Deobfuscator, for any font, range, head and chunk.         *)
(*                                                                         *)
(* No byte is lost on the way (Conserved): those the caller has read, the  *)
(* ones in the pipe and the ones not written yet are the range, as long as *)
(* the goroutine has met no error.  That a call which returns at the end   *)
(* of the portion has then delivered everything depends on the comparison  *)
(* of AtEnd, which is off by one: OffByOne names the case where it is      *)
(* wrong, and CompleteExceptOffByOne shows that there is no other.         *)
(***************************************************************************)
EXTENDS Deobfuscator, TLAPS

Phases == {"idle", "head", "decide", "tail", "done"}

Writers == {"none", "run", "blocked", "exit"}

Typed ==
    /\ length \in Lengths
    /\ keyValid \in BOOLEAN
    /\ phase \in Phases
    /\ req \in Nat \X Nat
    /\ writer \in Writers
    /\ left \in Nat
    /\ pending \in Nat
    /\ pipe \in {"open", "eof", "error"}
    /\ readClosed \in BOOLEAN
    /\ on \in Nat
    /\ delivered \in Nat
    /\ cleared \in Nat

\* A call was made with one of the requests; a piped one touches the head, and
\* keeps its read end open until it returns.
Asked ==
    /\ phase = "idle" => req = <<0, 0>> /\ writer = "none" /\ ~readClosed
    /\ phase # "idle" => req \in Requests
    /\ phase \in {"head", "decide", "tail"} => req[1] < V /\ writer # "none" /\ ~readClosed

\* The pipe holds bytes while a write waits, and ends when all are through.
Piped ==
    /\ writer = "blocked" <=> pending > 0
    /\ pipe = "eof" => left = 0 /\ writer = "exit" /\ ~Inverted(req)

\* What the caller has read.
Passed == IF phase = "tail" THEN delivered ELSE on

\* No byte is lost.
Conserved == phase \in {"head", "decide", "tail"} => Passed + pending + left = Due(req)

\* How far the caller is.
Reached ==
    /\ phase \in {"idle", "head"} => on < V
    /\ phase = "idle" => on = 0 /\ pending = 0 /\ pipe = "open"
    /\ phase \in {"idle", "head", "decide"} => delivered = 0 /\ cleared = 0
    /\ phase = "decide" => on = V \/ (on < V /\ pipe = "eof")
    /\ phase = "tail" => on = V /\ delivered >= V

\* The range ends with the first byte behind the portion, and the font has it.
OffByOne(q, n) == q[1] < V /\ q[2] = q[1] + V /\ n > q[2]

NoOffByOne == \A q \in Requests, n \in Lengths : ~OffByOne(q, n)

Completed == NoOffByOne => CompleteOnSuccess

IInv == Typed /\ Asked /\ Piped /\ Conserved /\ Reached /\ ClearedExactly /\ Completed

\* The bytes of a range.
LEMMA DueIs ==
    ASSUME NEW q \in Nat \X Nat, length \in Nat
    PROVE  /\ Due(q) \in Nat
           /\ q[2] = 0 => Due(q) = length \/ Inverted(q)
           /\ \A v \in Nat : q[2] # 0 /\ q[2] < q[1] + v => Due(q) <= v
           /\ \A v \in Nat : q[2] # 0 /\ length <= q[1] + v => Due(q) <= v
BY DEF Due, Inverted, MinOf, MaxOf

\* The bytes to be cleared are counted exactly.
LEMMA ObfuscatedIs ==
    ASSUME NEW q \in Nat \X Nat, NEW n \in Nat
    PROVE  /\ Obfuscated(q, n) \in Nat
           /\ Obfuscated(q, n) = IF q[1] >= V THEN 0 ELSE MinOf(V - q[1], n)
           /\ Obfuscated(q, 0) = 0
BY DeobfuscatorAssumption DEF DeobfuscatorAssumption, Obfuscated, MinOf

\* The invariant holds at the start.
LEMMA InitHolds == Init => IInv
<1> SUFFICES ASSUME Init PROVE IInv
  OBVIOUS
<1> USE DeobfuscatorAssumption DEF DeobfuscatorAssumption, Init
<1>1. Typed
  BY DEF Typed, Phases, Writers
<1>2. Asked /\ Piped /\ Conserved /\ Reached
  BY DEF Asked, Piped, Conserved, Reached
<1>3. ClearedExactly
  BY DEF ClearedExactly, MinOf
<1>4. Completed
  BY DEF Completed, CompleteOnSuccess
<1> QED
  BY <1>1, <1>2, <1>3, <1>4 DEF IInv

\* A call that returns at once.
LEMMA DirectHolds ==
    ASSUME IInv, NEW q \in Requests, Read(q) \/ StreamProxied(q)
    PROVE  IInv'
<1>0. q \in Nat \X Nat /\ length \in Nat /\ length' = length
  BY DeobfuscatorAssumption DEF DeobfuscatorAssumption, IInv, Typed, Read, StreamProxied
<1>1. /\ phase = "idle" /\ phase' = "done" /\ req' = q
      /\ UNCHANGED <<length, keyValid, writer, left, pending, pipe, readClosed, on>>
  BY DEF Read, StreamProxied, Return
<1>2. Due(q) \in Nat /\ Due(q)' = Due(q)
  BY <1>0, DueIs DEF Due
<1>3. delivered' \in Nat /\ cleared' \in Nat
  BY <1>0, <1>2, ObfuscatedIs DEF Read, StreamProxied
<1>4. Typed'
  BY <1>0, <1>1, <1>3 DEF IInv, Typed, Phases
<1>5. Asked' /\ Piped' /\ Conserved' /\ Reached'
  BY <1>1 DEF IInv, Asked, Piped, Conserved, Reached
<1>6. ClearedExactly'
  <2>1. cleared' = Obfuscated(q, delivered')
    <3>1. CASE Read(q)
      BY <1>0, <1>2, <3>1, ObfuscatedIs DEF Read
    <3>2. CASE StreamProxied(q)
      BY <1>0, <1>2, <1>3, <3>2, ObfuscatedIs DEF StreamProxied
    <3> QED
      BY <3>1, <3>2
  <2> QED
    BY <1>0, <1>1, <1>3, <2>1, ObfuscatedIs DEF ClearedExactly
<1>7. CompleteOnSuccess'
  <2>1. ret' = "ok" => delivered' = Due(q) /\ count' = Due(q)
    BY DEF Read, StreamProxied, Return
  <2> QED
    BY <1>1, <1>2, <2>1 DEF CompleteOnSuccess
<1> QED
  BY <1>4, <1>5, <1>6, <1>7 DEF IInv, Completed

\* The goroutine is started.
LEMMA PipedHolds == ASSUME IInv, NEW q \in Requests, StreamPiped(q) PROVE IInv'
<1>0. q \in Nat \X Nat /\ length \in Nat
  BY DeobfuscatorAssumption DEF DeobfuscatorAssumption, IInv, Typed
<1>1. Due(q) \in Nat /\ Due(q)' = Due(q)
  BY <1>0, DueIs DEF Due, StreamPiped
<1>2. Typed'
  BY <1>0, <1>1 DEF IInv, Typed, Phases, Writers, StreamPiped
<1>3. Asked' /\ Piped'
  BY <1>0 DEF IInv, Typed, Asked, Piped, Reached, StreamPiped, Inverted
<1>4. Conserved'
  BY <1>1 DEF IInv, Typed, Reached, Conserved, Passed, StreamPiped
<1>5. Reached'
  BY DEF IInv, Reached, StreamPiped
<1>6. ClearedExactly'
  BY <1>0, ObfuscatedIs DEF IInv, Reached, ClearedExactly, StreamPiped, Obfuscated
<1>7. Completed'
  BY DEF Completed, CompleteOnSuccess, StreamPiped
<1> QED
  BY <1>2, <1>3, <1>4, <1>5, <1>6, <1>7 DEF IInv

\* The goroutine works.
LEMMA WriterHolds == ASSUME IInv, Writer PROVE IInv'
<1>0. UNCHANGED <<length, keyValid, phase, req, readClosed, on, delivered, cleared, ret, count>>
  BY DEF Writer
<1>1. Due(req)' = Due(req) /\ Due(req) \in Nat
  BY <1>0, DueIs, DeobfuscatorAssumption
  DEF DeobfuscatorAssumption, Due, IInv, Typed
<1>2. ClearedExactly' /\ Completed'
  BY <1>0, <1>1 DEF IInv, ClearedExactly, Completed, CompleteOnSuccess
<1> DEFINE Rest == Typed' /\ Asked' /\ Piped' /\ Conserved' /\ Reached'
<1>3. CASE PipeWrite
  <2>1. PICK n \in 1 .. MinOf(left, Chunk) : pending' = n /\ left' = left - n
    BY <1>3 DEF PipeWrite
  <2>2. n \in Nat /\ n > 0 /\ left - n \in Nat
    BY <2>1, DeobfuscatorAssumption DEF DeobfuscatorAssumption, IInv, Typed, MinOf
  <2>3. pending = 0
    BY <1>3 DEF IInv, Typed, Piped, PipeWrite
  <2>4. Typed'
    BY <1>0, <1>3, <2>1, <2>2 DEF IInv, Typed, Writers, PipeWrite
  <2>5. Asked' /\ Piped' /\ Reached'
    BY <1>0, <1>3, <2>1, <2>2 DEF IInv, Asked, Piped, Reached, PipeWrite, Inverted
  <2>6. Conserved'
    BY <1>0, <1>1, <2>1, <2>2, <2>3 DEF IInv, Typed, Conserved, Passed
  <2> QED
    BY <1>2, <2>4, <2>5, <2>6 DEF IInv
<1>4. CASE PipeEnd \/ PipeFail
  <2>1. UNCHANGED <<left, pending>> /\ writer = "run" /\ writer' = "exit"
    BY <1>4 DEF PipeEnd, PipeFail
  <2>2. Typed'
    BY <1>0, <1>4, <2>1 DEF IInv, Typed, Writers, PipeEnd, PipeFail
  <2>3. Asked' /\ Piped' /\ Reached'
    BY <1>0, <1>4, <2>1 DEF IInv, Typed, Asked, Piped, Reached, PipeEnd, PipeFail, Inverted
  <2>4. Conserved'
    BY <1>0, <1>1, <2>1 DEF IInv, Conserved, Passed
  <2> QED
    BY <1>2, <2>2, <2>3, <2>4 DEF IInv
<1>5. CASE PipeBroken
  <2>1. phase \notin {"idle", "head", "decide", "tail"}
    BY <1>5 DEF PipeBroken, IInv, Asked
  <2>2. Typed'
    BY <1>0, <1>5 DEF IInv, Typed, Writers, PipeBroken
  <2>3. Asked' /\ Piped' /\ Reached' /\ Conserved'
    BY <1>0, <1>5, <2>1 DEF IInv, Typed, Asked, Piped, Reached, Conserved, PipeBroken, Inverted
  <2> QED
    BY <1>2, <2>2, <2>3 DEF IInv
<1> QED
  BY <1>3, <1>4, <1>5 DEF Writer

\* The caller reads from the pipe.
LEMMA ReadHeadHolds == ASSUME IInv, ReadHead PROVE IInv'
<1> DEFINE k == MinOf(V - on, pending)
<1>0. /\ k \in Nat /\ k > 0 /\ k <= pending /\ on + k <= V /\ pending - k \in Nat
      /\ on + k \in Nat
  BY DeobfuscatorAssumption
  DEF DeobfuscatorAssumption, IInv, Typed, Reached, ReadHead, MinOf
<1>1. /\ phase = "head" /\ on' = on + k /\ pending' = pending - k
      /\ phase' = IF on + k = V THEN "decide" ELSE "head"
      /\ writer' = IF pending = k THEN "run" ELSE writer
      /\ UNCHANGED <<length, keyValid, req, readClosed, delivered, cleared, ret, count,
                     left, pipe>>
  BY DEF ReadHead, Take
<1> HIDE DEF k
<1>2. Typed'
  BY <1>0, <1>1 DEF IInv, Typed, Phases, Writers
<1>3. Asked' /\ Piped'
  BY <1>0, <1>1 DEF IInv, Typed, Asked, Piped, Inverted
<1>4. Conserved'
  BY <1>0, <1>1 DEF IInv, Typed, Conserved, Passed, Due
<1>5. Reached'
  BY <1>0, <1>1, DeobfuscatorAssumption DEF DeobfuscatorAssumption, IInv, Typed, Reached
<1>6. ClearedExactly' /\ Completed'
  BY <1>1 DEF IInv, ClearedExactly, Completed, CompleteOnSuccess
<1> QED
  BY <1>2, <1>3, <1>4, <1>5, <1>6 DEF IInv

\* The pipe ends before the portion is full.
LEMMA HeadEndsHolds == ASSUME IInv, HeadEnds PROVE IInv'
<1>1. /\ phase = "head" /\ phase' \in {"done", "decide"}
      /\ phase' = "decide" => pipe = "eof"
      /\ phase' = "done" => ret' = "error"
      /\ UNCHANGED <<length, keyValid, req, writer, left, pending, pipe, readClosed, on,
                   delivered, cleared>>
  BY DEF HeadEnds, Return, IInv, Typed
<1>2. Typed'
  BY <1>1 DEF IInv, Typed, Phases
<1>3. Asked' /\ Piped' /\ Reached'
  BY <1>1 DEF IInv, Asked, Piped, Reached, Inverted
<1>4. Conserved'
  BY <1>1 DEF IInv, Conserved, Passed, Due
<1>5. ClearedExactly' /\ Completed'
  BY <1>1 DEF IInv, ClearedExactly, Completed, CompleteOnSuccess
<1> QED
  BY <1>2, <1>3, <1>4, <1>5 DEF IInv

\* A portion that is taken for the end of the range is the end of it.
LEMMA EndComplete ==
    ASSUME IInv, phase = "decide", AtEnd, NoOffByOne
    PROVE  on = Due(req)
<1>1. req \in Nat \X Nat /\ length \in Nat /\ V \in Nat /\ on \in Nat
  BY DeobfuscatorAssumption DEF DeobfuscatorAssumption, IInv, Typed
<1>2. on + pending + left = Due(req) /\ on <= Due(req)
  BY DEF IInv, Typed, Conserved, Passed
<1>3. CASE on < V
  BY <1>2, <1>3 DEF IInv, Typed, Reached, Piped
<1>4. CASE on = V /\ req[2] # 0 /\ req[2] <= req[1] + V
  <2>1. ~OffByOne(req, length) /\ req[1] < V
    BY DEF NoOffByOne, IInv, Typed, Asked
  <2>2. CASE req[2] < req[1] + V
    BY <1>1, <1>2, <1>4, <2>2, DueIs
  <2>3. CASE length <= req[1] + V
    BY <1>1, <1>2, <1>4, <2>3, DueIs
  <2> QED
    BY <1>1, <1>4, <2>1, <2>2, <2>3 DEF OffByOne
<1> QED
  BY <1>3, <1>4, DeobfuscatorAssumption
  DEF DeobfuscatorAssumption, AtEnd, IInv, Reached

\* The portion is cleared and written.
LEMMA WriteHeadHolds == ASSUME IInv, WriteHead PROVE IInv'
<1>0. /\ req \in Nat \X Nat /\ length \in Nat /\ V \in Nat /\ on \in Nat
      /\ phase = "decide" /\ phase' \in {"done", "tail"}
      /\ UNCHANGED <<length, keyValid, req, writer, left, pending, pipe, on>>
      /\ delivered = 0 /\ cleared = 0
  BY DeobfuscatorAssumption
  DEF DeobfuscatorAssumption, IInv, Typed, Reached, WriteHead, Return
<1>1. delivered' \in 0 .. on /\ cleared' = Obfuscated(req, delivered') /\ readClosed' \in BOOLEAN
  <2>1. Obfuscated(req, 0) = 0
    BY <1>0, ObfuscatedIs
  <2>2. AtEnd \in BOOLEAN /\ readClosed \in BOOLEAN
    BY DEF AtEnd, IInv, Typed
  <2>3. CASE UNCHANGED <<delivered, cleared>> /\ readClosed' = (readClosed \/ AtEnd)
    BY <1>0, <2>1, <2>2, <2>3
  <2>4. CASE delivered' \in 0 .. on /\ cleared' = Obfuscated(req, delivered') /\ readClosed'
    BY <2>4 DEF WriteHead
  <2>5. CASE delivered' = on /\ cleared' = Obfuscated(req, on) /\ readClosed' = AtEnd
    BY <1>0, <2>2, <2>5
  <2> QED
    BY <2>3, <2>4, <2>5 DEF WriteHead
<1>2. phase' = "tail" => ~AtEnd /\ delivered' = on /\ readClosed' = FALSE /\ on = V
  BY <1>0 DEF WriteHead, Return, AtEnd, IInv, Typed, Reached
<1>3. phase' = "done" /\ ret' = "ok" => AtEnd /\ delivered' = on /\ count' = on
  BY <1>0 DEF WriteHead, Return
<1>4. Typed'
  <2>1. cleared' \in Nat
    BY <1>0, <1>1, ObfuscatedIs
  <2> QED
    BY <1>0, <1>1, <2>1 DEF IInv, Typed, Phases
<1>5. Asked' /\ Piped'
  BY <1>0, <1>2 DEF IInv, Asked, Piped, Inverted
<1>6. Conserved'
  BY <1>0, <1>2 DEF IInv, Conserved, Passed, Due
<1>7. Reached'
  BY <1>0, <1>2 DEF IInv, Reached
<1>8. ClearedExactly'
  <2>1. delivered' \in Nat
    BY <1>0, <1>1
  <2> QED
    BY <1>0, <1>1, <2>1, ObfuscatedIs DEF ClearedExactly
<1>9. Completed'
  <2>1. Due(req)' = Due(req)
    BY <1>0 DEF Due
  <2>2. NoOffByOne' = NoOffByOne
    BY DEF NoOffByOne, OffByOne
  <2> QED
    BY <1>0, <1>3, <2>1, <2>2, EndComplete DEF Completed, CompleteOnSuccess
<1> QED
  BY <1>4, <1>5, <1>6, <1>7, <1>8, <1>9 DEF IInv

\* The rest is copied.
LEMMA CopyTailHolds == ASSUME IInv, CopyTail PROVE IInv'
<1>0. /\ req \in Nat \X Nat /\ V \in Nat /\ pending \in Nat /\ delivered \in Nat
      /\ phase = "tail" /\ on = V /\ delivered >= V /\ req[1] < V
      /\ pending' = 0 /\ writer' = "run" /\ phase' \in {"tail", "done"}
      /\ UNCHANGED <<length, keyValid, req, on, cleared, left, pipe>>
  BY DeobfuscatorAssumption
  DEF DeobfuscatorAssumption, IInv, Typed, Asked, Reached, CopyTail, Take, Return
<1>1. /\ delivered' \in Nat /\ delivered' >= V /\ readClosed' \in BOOLEAN
      /\ phase' = "tail" => delivered' = delivered + pending /\ readClosed' = readClosed
      /\ phase' = "done" => ret' = "error"
  <2>1. readClosed \in BOOLEAN
    BY DEF IInv, Typed
  <2>2. CASE delivered' = delivered + pending /\ UNCHANGED <<phase, readClosed, ret, count>>
    BY <1>0, <2>1, <2>2
  <2>3. CASE /\ delivered' \in delivered .. delivered + pending - 1
             /\ readClosed' = TRUE
             /\ Return("error", 0)
    BY <1>0, <2>3 DEF Return
  <2> QED
    BY <2>2, <2>3 DEF CopyTail
<1>2. Typed'
  BY <1>0, <1>1 DEF IInv, Typed, Phases, Writers
<1>3. Asked' /\ Piped' /\ Reached'
  BY <1>0, <1>1 DEF IInv, Typed, Asked, Piped, Reached, Inverted, CopyTail
<1>4. Conserved'
  BY <1>0, <1>1 DEF IInv, Typed, Conserved, Passed, Due
<1>5. ClearedExactly'
  BY <1>0, <1>1 DEF IInv, ClearedExactly, MinOf
<1>6. Completed'
  BY <1>0, <1>1 DEF Completed, CompleteOnSuccess
<1> QED
  BY <1>2, <1>3, <1>4, <1>5, <1>6 DEF IInv

\* The pipe ends.
LEMMA TailEndsHolds == ASSUME IInv, TailEnds PROVE IInv'
<1>0. /\ phase = "tail" /\ phase' = "done" /\ readClosed' = TRUE /\ pending = 0
      /\ UNCHANGED <<length, keyValid, req, writer, left, pending, pipe, on, delivered, cleared>>
      /\ ret' = "ok" => pipe = "eof" /\ count' = delivered
  BY DEF TailEnds, Return
<1>1. Typed' /\ Asked' /\ Piped' /\ Conserved' /\ Reached'
  BY <1>0 DEF IInv, Typed, Phases, Asked, Piped, Conserved, Reached, Inverted
<1>2. ClearedExactly'
  BY <1>0 DEF IInv, ClearedExactly
<1>3. CompleteOnSuccess'
  <2>1. ret' = "ok" => delivered = Due(req)
    BY <1>0 DEF IInv, Typed, Piped, Conserved, Passed
  <2>2. Due(req)' = Due(req)
    BY <1>0 DEF Due
  <2> QED
    BY <1>0, <2>1, <2>2 DEF CompleteOnSuccess
<1> QED
  BY <1>1, <1>2, <1>3 DEF IInv, Completed

\* No step breaks it.
LEMMA StepHolds == IInv /\ [Next]_vars => IInv'
<1> SUFFICES ASSUME IInv, [Next]_vars PROVE IInv'
  OBVIOUS
<1>1. CASE UNCHANGED vars
  BY <1>1 DEF vars, IInv, Typed, Asked, Piped, Inverted, Conserved, Passed, Due, Reached,
              ClearedExactly, Completed, NoOffByOne, OffByOne, CompleteOnSuccess
<1> QED
  BY <1>1, DirectHolds, PipedHolds, WriterHolds, ReadHeadHolds, HeadEndsHolds,
     WriteHeadHolds, CopyTailHolds, TailEndsHolds DEF Next, Caller

\* The invariant holds throughout.
THEOREM Invariance == Spec => []IInv
  BY InitHolds, StepHolds, PTL DEF Spec

\* Every obfuscated byte that reaches the client was cleared, and no other byte
\* was touched, whatever the range, however the pipe cuts it, and also when the
\* client is gone in the middle.
THEOREM NothingScrambled == Spec => []ClearedExactly
<1>1. IInv => ClearedExactly
  BY DEF IInv
<1> QED
  BY <1>1, Invariance, PTL

\* A range that does not end with the first byte behind the portion is delivered
\* whole by every call that succeeds: the comparison of AtEnd is wrong in that
\* case only.
THEOREM CompleteExceptOffByOne == ASSUME NoOffByOne PROVE Spec => []CompleteOnSuccess
<1>1. IInv => CompleteOnSuccess
  BY DEF IInv, Completed
<1> QED
  BY <1>1, Invariance, PTL
================================================================================
