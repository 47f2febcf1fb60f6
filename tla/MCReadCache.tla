----------------------------- MODULE MCReadCache -----------------------------
(* Instances of ReadCache for TLC: blocks of two bytes, the last one short. *)
EXTENDS ReadCache

CONSTANTS r1, r2

MCReaders == {r1, r2}

MCRaceRequests == {<<0, 4>>, <<1, 2>>}
=============================================================================
