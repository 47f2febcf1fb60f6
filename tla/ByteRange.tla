------------------------------ MODULE ByteRange ------------------------------
(***************************************************************************)
(* Runs of bytes of a resource.                                            *)
(*                                                                         *)
(* The content of a resource is abstracted to the identity: the byte at    *)
(* offset i is i.  A []byte the toolkit cuts out of a resource is then the *)
(* half-open run lo .. hi-1 of offsets it holds, and every empty slice is  *)
(* the same value NoBytes.  Serving the wrong bytes, too few or too many   *)
(* of them is therefore visible as a different run.                        *)
(***************************************************************************)
EXTENDS Integers

MinOf(a, b) == IF a < b THEN a ELSE b
MaxOf(a, b) == IF a > b THEN a ELSE b

\* The runs within the first n bytes of a resource.
Runs(n) == [lo : 0 .. n, hi : 0 .. n]

NoBytes == [lo |-> 0, hi |-> 0]

\* The bytes lo .. hi-1.
Run(lo, hi) == IF lo < hi THEN [lo |-> lo, hi |-> hi] ELSE NoBytes

\* len(run)
RunLen(run) == run.hi - run.lo

\* run[a:b]
Slice(run, a, b) == Run(run.lo + a, run.lo + b)

\* run is non-empty and followed immediately by next.
Abuts(run, next) == run.lo < run.hi /\ run.hi = next.lo

\* Bytes that are not consecutive offsets of the resource.
Garbled == [lo |-> -3, hi |-> -3]

\* append(run, next...)
Appended(run, next) ==
    CASE run = NoBytes -> next
      [] next = NoBytes -> run
      [] run # NoBytes /\ next # NoBytes ->
            IF Abuts(run, next) THEN Run(run.lo, next.hi) ELSE Garbled

\* The slice the pieces of consecutive blocks make up.
Joined(f) ==
    LET filled == {b \in DOMAIN f : f[b] # NoBytes}
        first == CHOOSE b \in filled : \A c \in filled : b <= c
        final == CHOOSE b \in filled : \A c \in filled : c <= b
    IN  IF filled = {} THEN NoBytes
        ELSE IF \A b \in first .. final - 1 : b \in filled /\ Abuts(f[b], f[b + 1])
             THEN Run(f[first].lo, f[final].hi)
             ELSE Garbled
=============================================================================
