----------------------------- MODULE SeekableReader -----------------------------
(***************************************************************************)
(* What a reader over a resource promises: reads deliver the bytes at its  *)
(* position, all of those asked for that there are, and the end of the     *)
(* file only at the end.  There are two kinds.  One reads, then moves by   *)
(* what it has read: a read that fails can be tried again.  The other, the *)
(* eager one, may be shared: a read claims its range, so that no two reads *)
(* deliver the same byte, and a read that fails has lost its range.        *)
(***************************************************************************)
EXTENDS ByteRange

CONSTANTS
    Threads,   \* who reads
    Lens,      \* the lengths of their buffers
    Offsets    \* what they seek by

VARIABLES
    length,    \* of the resource, or -1 when nothing is open
    eager,     \* does a read claim its range first?
    known,     \* does the resource know its length yet?
    pos,       \* the position
    claimed,   \* claimed[t]: the range a read of t has claimed, maybe an empty one
    answer     \* what the last read delivered

vars == <<length, eager, known, pos, claimed, answer>>

NoClaim == [at |-> 0, k |-> 0]
Answer(run, outcome) == [run |-> run, outcome |-> outcome]

Init ==
    /\ length = -1 /\ pos = 0
    /\ eager = FALSE /\ known = FALSE
    /\ claimed = [t \in Threads |-> NoClaim]
    /\ answer = Answer(NoBytes, "none")

Open ==
    /\ length = -1
    /\ length' \in Nat
    /\ eager' \in BOOLEAN
    /\ known' \in BOOLEAN
    /\ pos' = 0
    /\ UNCHANGED <<claimed, answer>>

\* From the start, from the position, or from the end as far as that is known.
Seek ==
    /\ \E d \in Offsets : pos' \in {d, pos + d, (IF known THEN length ELSE 0) + d}
    /\ pos' >= 0
    /\ UNCHANGED <<claimed, known, answer>>

Read(k) ==
    /\ ~eager
    /\ \/ /\ pos < length
          /\ pos' = MinOf(pos + k, length)
          /\ answer' = Answer(Run(pos, pos'), "more")
       \/ /\ pos >= length
          /\ answer' = Answer(NoBytes, "eof")
          /\ UNCHANGED pos
       \/ answer' = Answer(NoBytes, "error") /\ UNCHANGED pos
    /\ known' \in {known, TRUE}
    /\ UNCHANGED claimed

Claim(t, k) ==
    /\ eager
    /\ claimed[t] = NoClaim
    /\ claimed' = [claimed EXCEPT ![t] = [at |-> pos, k |-> k]]
    /\ pos' = pos + k
    /\ UNCHANGED <<known, answer>>

Deliver(t) ==
    LET at == claimed[t].at
        upto == at + claimed[t].k
    IN  /\ claimed[t] # NoClaim
        /\ answer' \in
              {Answer(Run(at, MinOf(upto, length)), IF upto <= length THEN "more" ELSE "eof"),
               Answer(NoBytes, "error")}
        /\ claimed' = [claimed EXCEPT ![t] = NoClaim]
        /\ known' \in {known, TRUE}
        /\ UNCHANGED pos

\* Streaming a range, <<0, 0>> being all there is, writes it, or its beginning with an
\* error, which may be reported at the end as well.
Stream(at, k) ==
    LET run == IF at = 0 /\ k = 1 THEN Run(0, length) ELSE Run(at, MinOf(at + k, length))
    IN  /\ answer' \in {Answer(run, "more")}
                      \union {Answer(Slice(run, 0, n), "error") : n \in 0 .. RunLen(run)}
        /\ known' \in {known, TRUE}
        /\ UNCHANGED <<pos, claimed>>

Use ==
    \/ Seek
    \/ \E at \in 0 .. length, k \in Lens : Stream(at, k)
    \/ \E k \in Lens : Read(k)
    \/ \E t \in Threads : Deliver(t) \/ \E k \in Lens : Claim(t, k)

Next == Open \/ (length >= 0 /\ Use /\ UNCHANGED <<length, eager>>)

Spec == Init /\ [][Next]_vars
=============================================================================
