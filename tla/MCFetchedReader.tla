--------------------------- MODULE MCFetchedReader ---------------------------
(* An instance of FetchedReader for TLC: two callers, every provider, listings of up to   *)
(* four objects in pages of two, an object of four bytes and one of two.                   *)
EXTENDS FetchedReader, TLC

O(id, size, name, deep) == [id |-> id, size |-> size, name |-> name, deep |-> deep]

Listings ==
    {<<>>, <<O(1, 2, "plain", FALSE), O(2, 0, "plain", FALSE), O(3, 4, "plain", TRUE)>>,
     <<O(2, 0, "plain", FALSE), O(1, 2, "escaped", FALSE), O(3, 3, "plain", FALSE)>>,
     <<O(1, 2, "plain", FALSE), O(3, 3, "plain", FALSE), O(4, 1, "bad", FALSE)>>}

Place(provider, ranges, slash, objects) ==
    [provider |-> provider, ranges |-> ranges, slash |-> slash, size |-> 4, objects |-> objects]

MCPlaces ==
    {Place(p, TRUE, s, o) : p \in {"s3", "gcs"}, s \in BOOLEAN, o \in Listings}
    \union {Place("http", r, FALSE, <<>>) : r \in BOOLEAN}
    \union {Place("archive", TRUE, FALSE, o) : o \in Listings}

MCOffsets == {-2, 0, 1}

MCSymmetry == Permutations(Threads)
=============================================================================
