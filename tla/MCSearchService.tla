--------------------------- MODULE MCSearchService ---------------------------
(* An instance of PublicationSearch for TLC: two resources with matches       *)
(* around one that cannot be read, and more matches than the total allowed;   *)
(* and every publication of a text of up to five tokens, of two of up to two, *)
(* or of three of up to one.                                                  *)
EXTENDS PublicationSearch

CONSTANTS s1, s2

MCSearchers == {s1, s2}

MCHits == <<2, 1, 3>>
MCBroken == {2}

TextsUpTo(n) == UNION {[1 .. k -> Text!Tokens] : k \in 0 .. n}

MCPublications ==
    {<<t>> : t \in TextsUpTo(5)}
    \union {<<t, u>> : t \in TextsUpTo(2), u \in TextsUpTo(2)}
    \union {<<t, u, v>> : t \in TextsUpTo(1), u \in TextsUpTo(1), v \in TextsUpTo(1)}

MCQueries ==
    {<<"s">>, <<"sz">>, <<".">>, <<"s", "s">>, <<"s", " ", "s">>, <<"sz", " ", " ", "s">>,
     <<" ", "s", ".">>, <<".", " ", "s">>, <<"s", " ">>, <<".", ".">>, <<" ">>}
=============================================================================
