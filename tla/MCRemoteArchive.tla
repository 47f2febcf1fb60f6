--------------------------- MODULE MCRemoteArchive ---------------------------
(* An instance of RemoteArchive for TLC: blocks of one and four bytes, a tail *)
(* of four, and every place of directory and end record in archives shorter   *)
(* than the tail, as long as it and longer.  One more, of two entries with    *)
(* headers of two bytes, of which one or both come at once, is read by two    *)
(* goroutines: one entry is small enough to be read ahead, one has no size,   *)
(* unless half a header tells another one.                                    *)
EXTENDS RemoteArchive, TLC

CONSTANTS p1, p2

MCProcs == {p1, p2}

MCEntries ==
    {[at |-> 0, extra |-> 1, body |-> 2, sized |-> TRUE],
     [at |-> 5, extra |-> 0, body |-> 4, sized |-> FALSE]}

\* Half a header or a whole one.
MCHeaderPieces == {1, 2}

\* The two headers, a byte of the small body, and a part of the other one that is
\* too big to be cached.
MCRequests ==
    {[off |-> 0, len |-> 2], [off |-> 5, len |-> 2],
     [off |-> 4, len |-> 1], [off |-> 7, len |-> 3]}

\* The end record is where the zip reader can find it.
MCArchives ==
    {a \in [size : 3 .. 9, dir : 0 .. 7, end : 1 .. 8,
            whole : BOOLEAN, faults : BOOLEAN] :
        a.dir < a.end /\ a.end < a.size /\ a.size - a.end <= EndBlock2}
    \union {[size |-> Size, dir |-> 14, end |-> 15, whole |-> FALSE, faults |-> FALSE]}

\* Opens is about states before the first goroutine reads, none of which differs
\* from another one by a permutation: symmetry takes nothing away from it.
Symmetry == Permutations(MCProcs)
=============================================================================
