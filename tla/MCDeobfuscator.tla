---------------------------- MODULE MCDeobfuscator ----------------------------
(* Instances of Deobfuscator for TLC: a head of two bytes, fonts shorter     *)
(* than it, as long as it and longer.                                        *)
EXTENDS Deobfuscator

MCLengths == {0, 1, 2, 5}

\* Whole, inside the head, from inside the head into the rest, past the end,
\* behind the head, inverted.
MCRequests ==
    {<<0, 0>>, <<0, 1>>, <<0, 3>>, <<0, 8>>, <<1, 1>>, <<1, 2>>, <<1, 4>>,
     <<2, 4>>, <<1, 0>>, <<3, 2>>}

\* The range whose last byte is the first one behind the portion.
MCBoundary == {<<0, 2>>}

MCLong == {5}
=============================================================================
