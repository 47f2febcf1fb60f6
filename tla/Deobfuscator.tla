----------------------------- MODULE Deobfuscator -----------------------------
(***************************************************************************)
(* Fonts are served through a pipe: DeobfuscatingResource.Read and Stream  *)
(* of pkg/parser/epub/deobfuscator.go.                                     *)
(*                                                                         *)
(* Stream starts a goroutine that streams the obfuscated resource into an  *)
(* io.Pipe, reads the first V bytes from it, clears those that lie in the  *)
(* obfuscated head of the font, and copies the rest.  A write to the pipe  *)
(* blocks until all of it was read or the read end is closed.  Each call   *)
(* has its own pipe, so a behaviour is one call, from start to end.        *)
(*                                                                         *)
(* Bytes travel in order, so what reached the client is a count of bytes   *)
(* from the start of the range, and a count of the bytes cleared.          *)
(***************************************************************************)
EXTENDS Integers

CONSTANTS
    V,          \* obfuscated bytes at the start of the font (1040 or 1024)
    Lengths,    \* possible lengths of the font
    Requests,   \* the inclusive ranges asked for
    Chunk       \* most bytes the resource below writes at once

ASSUME DeobfuscatorAssumption ==
    /\ V \in Nat \ {0}
    /\ Chunk \in Nat \ {0}
    /\ Lengths \subseteq Nat
    /\ Requests \subseteq Nat \X Nat

VARIABLES
    length,     \* length of the font
    keyValid,   \* does the identifier yield a key? (getHashKeyAdobe)
    phase,      \* where Stream is: "idle", "head", "decide", "tail", "done"
    req,        \* the range asked for
    writer,     \* the piping goroutine: "none", "run", "blocked", "exit"
    left,       \* bytes the resource below has still to write
    pending,    \* bytes of the current pipe write that were not read yet
    pipe,       \* the write end: "open", "eof" or "error"
    readClosed, \* is the read end closed?
    on,         \* bytes read into obfuscatedPortion
    delivered,  \* bytes written to the client
    cleared,    \* how many of them were deobfuscated
    ret,        \* how the call returned: "none", "ok", "error" or "panic"
    count       \* the byte count it returned

vars == <<length, keyValid, phase, req, writer, left, pending, pipe, readClosed, on,
          delivered, cleared, ret, count>>

writerVars == <<writer, left, pending, pipe>>

MinOf(a, b) == IF a < b THEN a ELSE b
MaxOf(a, b) == IF a > b THEN a ELSE b

\* The bytes the resource below has for the range.
Due(q) ==
    IF q[1] = 0 /\ q[2] = 0
    THEN length
    ELSE MaxOf(0, MinOf(q[2] + 1, length) - MinOf(q[1], length))

Inverted(q) == q[2] < q[1]

\* Mutant: the offset of the range is forgotten.
ObfuscatedFromZero(q, n) == MinOf(V, n)

\* deobfuscateFont: how many of the first n bytes of the range are obfuscated.
Obfuscated(q, n) == IF q[1] >= V THEN 0 ELSE MinOf(V - q[1], n)

Init ==
    /\ length \in Lengths
    /\ keyValid \in BOOLEAN
    /\ phase = "idle"
    /\ req = <<0, 0>>
    /\ writer = "none"
    /\ left = 0
    /\ pending = 0
    /\ pipe = "open"
    /\ readClosed = FALSE
    /\ on = 0
    /\ delivered = 0
    /\ cleared = 0
    /\ ret = "none"
    /\ count = 0

Return(how, n) ==
    /\ phase' = "done"
    /\ ret' = how
    /\ count' = n

\* A call of Read: one read of the resource below, cleared in place.
Read(q) ==
    /\ phase = "idle"
    /\ req' = q
    /\ \/ /\ ~Inverted(q)
          /\ keyValid \/ q[1] >= V \/ Due(q) = 0
          /\ delivered' = Due(q)
          /\ cleared' = Obfuscated(q, Due(q))
          /\ Return("ok", Due(q))
       \/ /\ ~Inverted(q)
          /\ ~keyValid /\ q[1] < V /\ Due(q) > 0     \* x % 0
          /\ delivered' = 0
          /\ cleared' = 0
          /\ Return("panic", 0)
       \/ /\ delivered' = 0
          /\ cleared' = 0
          /\ Return("error", 0)
    /\ UNCHANGED <<length, keyValid, writer, left, pending, pipe, readClosed, on>>

\* A call of Stream past the obfuscated head is passed on.
StreamProxied(q) ==
    /\ phase = "idle"
    /\ q[1] >= V
    /\ req' = q
    /\ cleared' = 0
    /\ \/ ~Inverted(q) /\ delivered' = Due(q) /\ Return("ok", Due(q))
       \/ delivered' \in 0 .. Due(q) /\ Return("error", 0)
    /\ UNCHANGED <<length, keyValid, writer, left, pending, pipe, readClosed, on>>

\* A call of Stream that touches the head: the goroutine is started.
StreamPiped(q) ==
    /\ phase = "idle"
    /\ q[1] < V
    /\ req' = q
    /\ phase' = "head"
    /\ writer' = "run"
    /\ left' = Due(q)
    /\ UNCHANGED <<length, keyValid, pending, pipe, readClosed, on, delivered, cleared, ret, count>>

-----------------------------------------------------------------------------
(* The piping goroutine.                                                   *)

PipeWrite ==
    /\ writer = "run"
    /\ ~Inverted(req)
    /\ left > 0
    /\ \E n \in 1 .. MinOf(left, Chunk) :
          pending' = n /\ left' = left - n
    /\ writer' = "blocked"
    /\ UNCHANGED pipe

PipeEnd ==
    /\ writer = "run"
    /\ ~Inverted(req)
    /\ left = 0
    /\ pipe' = "eof"
    /\ writer' = "exit"
    /\ UNCHANGED <<left, pending>>

\* The resource below fails, at once or after some bytes.
PipeFail ==
    /\ writer = "run"
    /\ pipe' = "error"
    /\ writer' = "exit"
    /\ UNCHANGED <<left, pending>>

\* The read end was closed under a write.
PipeBroken ==
    /\ writer = "blocked"
    /\ readClosed
    /\ pipe' = "error"
    /\ writer' = "exit"
    /\ pending' = 0
    /\ UNCHANGED left

Writer ==
    /\ PipeWrite \/ PipeEnd \/ PipeFail \/ PipeBroken
    /\ UNCHANGED <<length, keyValid, phase, req, readClosed, on, delivered, cleared, ret, count>>

-----------------------------------------------------------------------------
(* The caller.                                                             *)

\* The pipe hands over k bytes; a write that was read to its end returns.
Take(k) ==
    /\ pending' = pending - k
    /\ writer' = IF pending = k THEN "run" ELSE writer
    /\ UNCHANGED <<left, pipe>>

\* io.ReadFull(pr, obfuscatedPortion) gets some bytes.
ReadHead ==
    /\ phase = "head"
    /\ pending > 0
    /\ LET k == MinOf(V - on, pending)
       IN  /\ Take(k)
           /\ on' = on + k
           /\ phase' = IF on + k = V THEN "decide" ELSE "head"
    /\ UNCHANGED <<length, keyValid, req, readClosed, delivered, cleared, ret, count>>

\* ReadFull meets the end of the pipe: io.EOF before the first byte and errors
\* of the goroutine are returned, a font shorter than the head goes on.
HeadEnds ==
    /\ phase = "head"
    /\ pending = 0
    /\ pipe # "open"
    /\ IF pipe = "error" \/ on = 0
       THEN Return("error", 0)
       ELSE phase' = "decide" /\ UNCHANGED <<ret, count>>
    /\ UNCHANGED <<length, keyValid, req, writer, left, pending, pipe, readClosed, on,
                   delivered, cleared>>

\* The portion is all there is to deliver.
AtEnd == on < V \/ (req[2] # 0 /\ req[2] <= req[1] + on)

\* The key is derived, the portion is cleared and written.
WriteHead ==
    /\ phase = "decide"
    /\ UNCHANGED <<length, keyValid, req, writer, left, pending, pipe, on>>
    /\ \/ /\ ~keyValid
          /\ readClosed' = (readClosed \/ AtEnd)
          /\ Return("error", 0)
          /\ UNCHANGED <<delivered, cleared>>
       \/ /\ keyValid                          \* the client is gone
          /\ readClosed' = TRUE
          /\ delivered' \in 0 .. on
          /\ cleared' = Obfuscated(req, delivered')
          /\ Return("error", 0)
       \/ /\ keyValid
          /\ delivered' = on
          /\ cleared' = Obfuscated(req, on)
          /\ readClosed' = AtEnd
          /\ IF AtEnd
             THEN Return("ok", on)
             ELSE phase' = "tail" /\ UNCHANGED <<ret, count>>

\* Mutant: a failed write to the client leaves the pipe open.
CopyTailNoClose ==
    /\ phase = "tail"
    /\ pending > 0
    /\ UNCHANGED <<length, keyValid, req, on, cleared, readClosed>>
    /\ \/ /\ Take(pending)
          /\ delivered' = delivered + pending
          /\ UNCHANGED <<phase, ret, count>>
       \/ /\ Take(pending)
          /\ delivered' = delivered
          /\ Return("error", 0)

\* io.Copy(w, pr): bytes pass, or the client is gone.
CopyTail ==
    /\ phase = "tail"
    /\ pending > 0
    /\ UNCHANGED <<length, keyValid, req, on, cleared>>
    /\ \/ /\ Take(pending)
          /\ delivered' = delivered + pending
          /\ UNCHANGED <<phase, readClosed, ret, count>>
       \/ /\ Take(pending)
          /\ delivered' \in delivered .. delivered + pending - 1
          /\ readClosed' = TRUE
          /\ Return("error", 0)

\* Mutant: the goroutine's error is taken for the end of the font.
TailEndsOk ==
    /\ phase = "tail"
    /\ pending = 0
    /\ pipe # "open"
    /\ readClosed' = TRUE
    /\ Return("ok", delivered)
    /\ UNCHANGED <<length, keyValid, req, writer, left, pending, pipe, on, delivered, cleared>>

TailEnds ==
    /\ phase = "tail"
    /\ pending = 0
    /\ pipe # "open"
    /\ readClosed' = TRUE
    /\ IF pipe = "eof" THEN Return("ok", delivered) ELSE Return("error", 0)
    /\ UNCHANGED <<length, keyValid, req, writer, left, pending, pipe, on, delivered, cleared>>

Caller == ReadHead \/ HeadEnds \/ WriteHead \/ CopyTail \/ TailEnds

Next ==
    \/ \E q \in Requests : Read(q) \/ StreamProxied(q) \/ StreamPiped(q)
    \/ Writer
    \/ Caller

\* Both goroutines run until they block.
Spec == Init /\ [][Next]_vars /\ WF_vars(Writer) /\ WF_vars(Caller)

-----------------------------------------------------------------------------
(* Properties.                                                             *)

\* A call that succeeds has delivered every byte of its range, and says so.
CompleteOnSuccess ==
    phase = "done" /\ ret = "ok" => delivered = Due(req) /\ count = Due(req)

\* No obfuscated byte reaches the client as it is, no clear byte is scrambled,
\* wherever the range starts and however the stream is cut off.
ClearedExactly ==
    cleared = IF req[1] >= V THEN 0 ELSE MinOf(V - req[1], delivered)

\* Stream returns: it never waits for a byte that does not come.  And when it
\* has returned, whatever way, the goroutine it started ends (for a key that
\* cannot be derived it does not: nobody closes the pipe).
StreamEnds ==
    /\ phase = "head" ~> phase = "done"
    /\ phase = "done" /\ keyValid ~> writer \in {"none", "exit"}

=============================================================================
