------------------------ MODULE MCPublicationContent ------------------------
(* An instance of PublicationContent for TLC: all small documents, without    *)
(* marks, with a start element, or with a node that has a language, and all   *)
(* small publications.  Of the documents of up to four nodes there are also   *)
(* those with attributes on two of them, and there are all networks of a      *)
(* paragraph and four notes, each of which refers to any note or to none.     *)
EXTENDS PublicationContent, GuidedNavigation

MCMarks == {m \in (0 .. MaxNodes) \X (0 .. MaxNodes) : m[1] = 0 \/ m[2] = 0}

MCStarts == [res : 1 .. N, index : 0 .. MaxSize]

MCShapes ==
    {p \in [size : [1 .. N -> 0 .. MaxSize], html : SUBSET (1 .. N),
            flaky : SUBSET (1 .. N), start : MCStarts] :
        /\ p.flaky \subseteq p.html
        /\ p.start.index <= p.size[p.start.res]}

Document(size, t, attr) ==
    [size |-> size, parent |-> t.parent, kind |-> t.kind, start |-> 0, tongue |-> 0,
     attr |-> attr]

\* What may be said of a node of a kind.
Says(kind) ==
    IF kind = "text" THEN {}
    ELSE IF kind = "image" THEN {"hidden", "presentation", "labelled", "named"}
    ELSE IF kind = "block" THEN {"hidden", "skipped", "footnote", "figure", "named", "pagebreak"}
    ELSE IF kind = "inline"
    THEN {"hidden", "emphasis", "noteref", "footnote", "pagebreak", "numbered", "icon", "picture"}
    ELSE {"hidden"}

\* Nodes i and j are said to be x and y.  What of them is a noteref or named by
\* another element has to do with the other one.
Attribute(size, i, j, x, y, xml) ==
    [on |-> [n \in 1 .. size |-> IF n = i THEN x ELSE IF n = j THEN y ELSE "none"],
     id |-> [n \in 1 .. size |-> IF n \in {i, j} THEN <<"id", n>> ELSE <<>>],
     href |-> [n \in 1 .. size |->
                  IF n = i /\ x \in {"noteref", "named"} THEN <<"id", j>>
                  ELSE IF n = j /\ y \in {"noteref", "named"} THEN <<"id", i>>
                  ELSE <<>>],
     xml |-> xml]

Pairs(size) == {p \in (2 .. size) \X (2 .. size) : p[1] < p[2]}

Parsed(x, y) == IF {x, y} \intersect {"pagebreak", "numbered"} = {} THEN {FALSE} ELSE BOOLEAN

Attributes(size, t) ==
    UNION {UNION {{Attribute(size, p[1], p[2], s[1], s[2], xml) : xml \in Parsed(s[1], s[2])} :
                  s \in Says(t.kind[p[1]]) \X Says(t.kind[p[2]])} :
           p \in Pairs(size)}

Plain(size) ==
    {t \in Trees(size) :
        \A n \in 2 .. size : t.kind[n] \in {"block", "inline", "image", "text"}}

Marked(size) ==
    {{Document(size, t, attr) : attr \in Attributes(size, t)} : t \in Plain(size)}

\* A paragraph with two noterefs and a text, and four notes, each with a noteref
\* and a text: of each link, the note it leads to.
Network(links) ==
    LET note(k) == 4 * k + 4
        id(k) == IF k = 2 THEN <<"noteref", 1>> ELSE <<"id", k>>
        part(n) == n % 4
        notesOf(n) == (n - 4) \div 4
    IN  Document(23,
            [parent |-> [n \in 2 .. 23 |->
                IF n = 2 THEN 1 ELSE IF n \in {3, 5, 7} THEN 2 ELSE IF n \in {4, 6} THEN n - 1
                ELSE IF part(n) = 0 THEN 1 ELSE IF part(n) = 2 THEN n - 1 ELSE note(notesOf(n))],
             kind |-> [n \in 2 .. 23 |->
                IF n = 2 THEN "block" ELSE IF n \in {3, 5} THEN "inline"
                ELSE IF n \in {4, 6, 7} THEN "text"
                ELSE IF part(n) = 0 THEN "block" ELSE IF part(n) = 1 THEN "inline" ELSE "text"]],
            [on |-> [n \in 1 .. 23 |->
                IF n \in {3, 5} \/ (n > 7 /\ part(n) = 1) THEN "noteref"
                ELSE IF n > 7 /\ part(n) = 0 THEN "footnote" ELSE "none"],
             id |-> [n \in 1 .. 23 |->
                IF n > 7 /\ part(n) = 0 THEN id(notesOf(n)) ELSE <<>>],
             href |-> [n \in 1 .. 23 |->
                IF n = 3 THEN id(1) ELSE IF n = 5 THEN id(links[5])
                ELSE IF n > 7 /\ part(n) = 1
                THEN IF links[notesOf(n)] = 0 THEN <<"other", 1>> ELSE id(links[notesOf(n)])
                ELSE <<>>],
             xml |-> TRUE])

\* A paragraph with a noteref, and its note, with a role or without: a text, an inline
\* element with another one, and a third.
Illustrated(role, what, xml) ==
    Document(9,
        [parent |-> (2 :> 1 @@ 3 :> 2 @@ 4 :> 3 @@ 5 :> 1 @@ 6 :> 5 @@ 7 :> 5 @@ 8 :> 7 @@ 9 :> 5),
         kind |-> [n \in 2 .. 9 |->
            IF n \in {2, 5} THEN "block" ELSE IF n \in {3, 7} THEN "inline" ELSE "text"]],
        [on |-> [n \in 1 .. 9 |->
            IF n = 3 THEN "noteref" ELSE IF n = 5 THEN role ELSE IF n = 7 THEN what ELSE "none"],
         id |-> [n \in 1 .. 9 |-> IF n = 5 THEN <<"id", 5>> ELSE <<>>],
         href |-> [n \in 1 .. 9 |->
            IF n = 3 THEN <<"id", 5>> ELSE IF n = 7 /\ what = "noteref" THEN <<"other", 1>>
            ELSE <<>>],
         xml |-> xml])

MCAnnotated ==
    UNION {Marked(size) : size \in 3 .. 4}
    \union {{Network(links) : links \in {l \in [1 .. 5 -> 0 .. 4] : l[5] \in {1, 2}}}}
    \union {{Illustrated(role, what, xml) :
                role \in {"none", "footnote"}, xml \in BOOLEAN,
                what \in {"none", "emphasis", "noteref", "pagebreak", "icon"}}}
=============================================================================
