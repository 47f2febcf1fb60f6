---------------------------- MODULE MCFileFetcher ----------------------------
(* An instance of FileFetcher for TLC. *)
EXTENDS FileFetcher

CONSTANTS f1, f2, t1, t2

MCRes == {f1, f2}
MCThreads == {t1, t2}
=============================================================================
