----------------------------- MODULE MCAudioCache -----------------------------
(* An instance of AudioCache for TLC: blocks of two bytes of a file that holds *)
(* five, probed with a size of seven by two goroutines and then served.          *)
EXTENDS AudioCache

CONSTANTS r1, r2

MCReaders == {r1, r2}

\* Whole content, inside one block, across all blocks, past the end (partly and
\* wholly), an inverted range, and a range that starts in the middle.
MCRequests == {<<0, 0>>, <<1, 4>>, <<3, 6>>, <<5, 8>>, <<7, 8>>, <<3, 1>>}

\* Every range that starts within the probed size or at its end.
MCServeRequests == {q \in (0 .. 7) \X (0 .. 8) : q[2] >= q[1] - 1}
=============================================================================
