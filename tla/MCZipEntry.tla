------------------------------ MODULE MCZipEntry ------------------------------
(* An instance of ZipEntry for TLC: an entry of four bytes with one point in  *)
(* the middle, stored in every way.                                           *)
EXTENDS ZipEntry

CONSTANTS r1, r2

MCReaders == {r1, r2}

\* The kinds the code tells apart: only a deflated entry can have its reads
\* minimized, only a stored one can be streamed from the file.
MCKinds == {k \in AllKinds : (k.minimize => k.deflated) /\ (k.onDisk => ~k.deflated)}

\* The whole entry, over the point, from the point past the end, behind the end,
\* and an inverted range.
MCRequests == {<<0, 0>>, <<1, 2>>, <<2, 9>>, <<5, 6>>, <<2, 1>>}
=============================================================================
