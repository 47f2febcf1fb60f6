------------------------------ MODULE TextSearch ------------------------------
(***************************************************************************)
(* Finding a phrase in resources: Extractor.Build and extractResource of   *)
(* pkg/search/corpus.go, and the literal engine of pkg/search/match.go.    *)
(*                                                                         *)
(* A resource is a sequence of what the tokenizer finds: characters, and   *)
(* tags.  "s" is a letter, "sz" one that is folded to two, "." no letter.  *)
(* "block" stands for the start or end tag of a block element, "skip" and  *)
(* "end" for the tags of an excluded element.  Inline tags do nothing, and *)
(* are left out, as is Unicode normalization: a character is one place.    *)
(***************************************************************************)
EXTENDS Integers, SequencesExt, FiniteSetsExt

CONSTANT DefaultContextRunes    \* characters of context on each side (48)

TextSearchAssumption == DefaultContextRunes \in Nat

Characters == {"s", "sz", ".", " "}
Tokens == Characters \union {"block", "skip", "end"}

isWordRune(c) == c \in {"s", "sz"}
isSpace(c) == c \in {" ", "nl"}
foldRune(c) == IF c = "sz" THEN <<"s", "s">> ELSE <<c>>

\* resourceText: the plain text, in which "nl" is a block boundary; its
\* normalized form and the place of each of its characters in the plain text; its
\* folded form and where each character of that comes from.  Places count from 0.
NoText ==
    [plain |-> <<>>, norm |-> <<>>, plainOff |-> <<>>, fold |-> <<>>, src |-> <<>>,
     excluded |-> 0, lastNL |-> FALSE]

Normal(rt, c, place) ==
    [rt EXCEPT !.norm = Append(@, c),
               !.plainOff = Append(@, place),
               !.fold = @ \o foldRune(c),
               !.src = @ \o [k \in DOMAIN foldRune(c) |-> Len(rt.norm)]]

\* Mutant: separators do not collapse.
addSeparatorEach(rt, place) == Normal(rt, " ", place)

addSeparator(rt, place) ==
    IF rt.norm # <<>> /\ Last(rt.norm) = " " THEN rt ELSE Normal(rt, " ", place)

ensureBoundary(rt) ==
    IF rt.plain = <<>> THEN rt
    ELSE IF rt.lastNL THEN addSeparator(rt, Len(rt.plain) - 1)
    ELSE addSeparator([rt EXCEPT !.plain = Append(@, "nl"), !.lastNL = TRUE], Len(rt.plain))

\* A character of a text token, outside of what is excluded.
AddCharacter(rt, c) ==
    LET longer == [rt EXCEPT !.plain = Append(@, c)]
    IN  IF c = " " THEN addSeparator(longer, Len(rt.plain))
        ELSE [Normal(longer, c, Len(rt.plain)) EXCEPT !.lastNL = FALSE]

AddToken(rt, t) ==
    CASE t = "skip"  -> [rt EXCEPT !.excluded = @ + 1]
      [] t = "end"   -> [rt EXCEPT !.excluded = IF @ > 0 THEN @ - 1 ELSE 0]
      [] t = "block" -> ensureBoundary(rt)
      [] OTHER       -> IF rt.excluded > 0 THEN rt ELSE AddCharacter(rt, t)

\* extractResource.  The places have one more: the end of the plain text.
extractResource(tokens) ==
    LET upTo[i \in 0 .. Len(tokens)] ==
            IF i = 0 THEN NoText ELSE AddToken(upTo[i - 1], tokens[i])
        rt == upTo[Len(tokens)]
    IN  [rt EXCEPT !.plainOff = Append(@, Len(rt.plain))]

\* The elements of a sequence whose indices are in a set.
Picked(seq, indices) ==
    LET upTo[i \in 0 .. Len(seq)] ==
            IF i = 0 THEN <<>>
            ELSE IF i \in indices THEN Append(upTo[i - 1], seq[i]) ELSE upTo[i - 1]
    IN  upTo[Len(seq)]

\* Build: resources with nothing to search are left out, the others keep their
\* index; before says how long the plain texts before each one are.
Build(resources) ==
    LET rts == [i \in DOMAIN resources |-> extractResource(resources[i])]
        kept == Picked([i \in DOMAIN rts |-> i], {i \in DOMAIN rts : rts[i].norm # <<>>})
        before[p \in 1 .. Len(kept) + 1] ==
            IF p = 1 THEN 0 ELSE before[p - 1] + Len(rts[kept[p - 1]].plain)
    IN  [index |-> kept,
         text |-> [p \in DOMAIN kept |-> rts[kept[p]]],
         before |-> [p \in DOMAIN kept |-> before[p]],
         total |-> before[Len(kept) + 1]]

\* ProgressionsAt, of the publication, as a numerator over total.
ProgressionAt(corpus, index, place) ==
    LET position == CHOOSE p \in DOMAIN corpus.index : corpus.index[p] = index
    IN  corpus.before[position] + place

-----------------------------------------------------------------------------
(* The literal engine.                                                     *)

\* A sequence without the spaces at its edges.
Stripped(seq) ==
    LET kept == {i \in DOMAIN seq : seq[i] # " "}
    IN  IF kept = {} THEN <<>> ELSE SubSeq(seq, Min(kept), Max(kept))

\* foldAndNormalize
foldAndNormalize(characters) ==
    LET upTo[i \in 0 .. Len(characters)] ==
            IF i = 0 THEN <<>>
            ELSE IF ~isSpace(characters[i]) THEN upTo[i - 1] \o foldRune(characters[i])
            ELSE IF upTo[i - 1] = <<>> \/ Last(upTo[i - 1]) = " " THEN upTo[i - 1]
            ELSE Append(upTo[i - 1], " ")
    IN  Stripped(upTo[Len(characters)])

\* The places from lo to hi of the plain text without spaces where they start.
FromText(rt, lo, hi) ==
    LET kept == {k \in lo .. hi - 1 : ~isSpace(rt.plain[k + 1])}
    IN  IF kept = {} THEN hi ELSE Min(kept)

\* Those without spaces, or with lines only, where they end.
ToText(rt, lo, hi, lines) ==
    LET kept == {k \in lo .. hi - 1 :
                    IF lines THEN rt.plain[k + 1] # "nl" ELSE ~isSpace(rt.plain[k + 1])}
    IN  IF kept = {} THEN lo ELSE Max(kept) + 1

\* contextAround: the context before and after the normalized characters from si
\* up to se, trimmed by trimContextEdge (by no more than 16 spaces in the code,
\* more than there are in the instances).
contextAround(rt, si, se) ==
    LET bStart == IF si > DefaultContextRunes THEN si - DefaultContextRunes ELSE 0
        aEnd == IF se + DefaultContextRunes < Len(rt.norm)
                THEN se + DefaultContextRunes ELSE Len(rt.norm)
        from == FromText(rt, rt.plainOff[bStart + 1], rt.plainOff[si + 1])
        after == rt.plainOff[se + 1]
    IN  [before |-> <<from, ToText(rt, from, rt.plainOff[si + 1], TRUE)>>,
         after |-> <<after, ToText(rt, after, rt.plainOff[aEnd + 1], FALSE)>>]

\* buildMatch: the folded characters from fi up to fe, as places of the plain text.
buildMatch(rt, fi, fe) ==
    LET si == rt.src[fi + 1]
        se == rt.src[fe] + 1
    IN  [start |-> rt.plainOff[si + 1], end |-> rt.plainOff[se + 1],
         context |-> contextAround(rt, si, se)]

\* Does the query stand at i, as words of their own?
StandsAt(rt, query, i) ==
    LET end == i + Len(query)
    IN  /\ SubSeq(rt.fold, i + 1, end) = query
        /\ isWordRune(query[1]) /\ i > 0 => ~isWordRune(rt.fold[i])
        /\ isWordRune(Last(query)) /\ end < Len(rt.fold) => ~isWordRune(rt.fold[end + 1])

\* findInResource: from place to place, and on from behind each one found.
findInResource(rt, query) ==
    LET last == Len(rt.fold) - Len(query)
        found[i \in 0 .. last + 1] ==
            IF i = 0 THEN <<>>
            ELSE IF /\ found[i - 1] = <<>> \/ Last(found[i - 1]) + Len(query) < i
                    /\ StandsAt(rt, query, i - 1)
                 THEN Append(found[i - 1], i - 1) ELSE found[i - 1]
        all == found[last + 1]
    IN  IF query = <<>> \/ last < 0 THEN <<>>
        ELSE [k \in DOMAIN all |-> buildMatch(rt, all[k], all[k] + Len(query))]

\* Find, with the resource of each match.
Find(corpus, characters) ==
    LET query == foldAndNormalize(characters)
        found(p) == [k \in DOMAIN findInResource(corpus.text[p], query) |->
                        [index |-> corpus.index[p],
                         match |-> findInResource(corpus.text[p], query)[k]]]
    IN  FlattenSeq([p \in DOMAIN corpus.index |-> found(p)])

=============================================================================
