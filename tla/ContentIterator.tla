--------------------------- MODULE ContentIterator ---------------------------
(***************************************************************************)
(* Iterating the content of a publication, forward and backward:           *)
(* PublicationContentIterator of pkg/content/iterator/publication.go, over *)
(* the HTMLContentIterator of each resource (html.go).                     *)
(*                                                                         *)
(* A resource is the number of elements HTMLConverter finds in it (see     *)
(* module HTMLConverter); the elements of a publication are <<r, k>>, the  *)
(* k-th (from 0) of resource r.  Parsing a resource may fail.              *)
(***************************************************************************)
EXTENDS Integers, FiniteSets

CONSTANTS
    N,          \* resources in the reading order
    MaxSize,    \* elements in a resource
    Shapes      \* the publications iterated

\* Assumed of the constants by whoever instantiates this module.
ContentIteratorAssumption ==
    /\ N \in Nat \ {0}
    /\ MaxSize \in Nat
    /\ \A pub \in Shapes :
          /\ pub.size \in [1 .. N -> 0 .. MaxSize]
          /\ pub.html \subseteq 1 .. N
          /\ pub.flaky \subseteq pub.html
          /\ pub.start.res \in 1 .. N
          /\ pub.start.index \in 0 .. pub.size[pub.start.res]

VARIABLES
    pub,        \* the publication: its resources and the start locator
    it,         \* _currentIterator
    current,    \* currentElement
    ret         \* what the last call returned

vars == <<pub, it, current, ret>>

Fwd == 1     \* Foward
Bwd == -1    \* Backward

NoIterator == [res |-> 0, index |-> -1, start |-> 0, parsed |-> FALSE]
NoElement == [el |-> <<0, 0>>, dir |-> 0]

\* HTMLContentIterator, not yet parsed and not yet moved (index -1).
NewHTML(r, start) == [res |-> r, index |-> -1, start |-> start, parsed |-> FALSE]

\* HTMLConverter.Result compares the address of the locator's progression with
\* that of a fresh 1.0: a progression of 1 starts at the first element, too.
IndexAtProgression(r, progression) == 0

\* Where an HTMLContentIterator is moved by HasNext or HasPrevious.
HTMLIndex(i, dir) ==
    IF dir = Fwd THEN (IF i.index = -1 THEN i.start - 1 ELSE i.index) + 1
                 ELSE (IF i.index = -1 THEN i.start ELSE i.index) - 1

HTMLHas(i, dir) == HTMLIndex(i, dir) \in 0 .. pub.size[i.res] - 1

\* loadIteratorAtProgression
Load(r, dir) == NewHTML(r, IndexAtProgression(r, IF dir = Bwd THEN 1 ELSE 0))

Nearest(R, dir) == CHOOSE r \in R : \A s \in R : r * dir <= s * dir
Farthest(R, dir) == Nearest(R, -dir)

\* nextIteratorIn: the resources beyond r that a factory accepts.
Beyond(r, dir) == {s \in pub.html : s * dir > r * dir}

\* initialIterator
InitialIterator ==
    IF pub.start.res \in pub.html THEN NewHTML(pub.start.res, pub.start.index)
    ELSE IF Beyond(pub.start.res, Fwd) # {} THEN Load(Nearest(Beyond(pub.start.res, Fwd), Fwd), Fwd)
    ELSE NoIterator

CurrentIterator == IF it = NoIterator THEN InitialIterator ELSE it

\* Parsing resource r fails in this call.
Breaks(i, fails) == i.res \in fails /\ ~i.parsed

\* nextIn, with its recursion over the resources: the iterator where it ends.
Reached(i, dir, fails) ==
    LET stops(j) == Breaks(j, fails) \/ HTMLHas(j, dir)
        there == {r \in Beyond(i.res, dir) : stops(Load(r, dir))}
    IN  IF stops(i) THEN i
        ELSE IF there # {} THEN Load(Nearest(there, dir), dir)
        ELSE IF Beyond(i.res, dir) # {}
             THEN [Load(Farthest(Beyond(i.res, dir), dir), dir) EXCEPT !.parsed = TRUE]
        ELSE [i EXCEPT !.parsed = TRUE]

Init ==
    /\ pub \in Shapes
    /\ it = NoIterator
    /\ current = NoElement
    /\ ret = "none"

\* Mutant: the resource that could not be parsed is left.
FailSkips(i, dir) ==
    /\ it' = IF Beyond(i.res, dir) = {} THEN i ELSE Load(Nearest(Beyond(i.res, dir), dir), dir)
    /\ ret' = "error"
    /\ UNCHANGED current

\* The call returns the error of the parser; the iterator may have moved on to
\* the resource that has it.
Fail(i, dir) ==
    /\ it' = i
    /\ ret' = "error"
    /\ UNCHANGED current

Found(i, dir) ==
    /\ it' = [i EXCEPT !.index = HTMLIndex(i, dir), !.parsed = TRUE]
    /\ current' = [el |-> <<i.res, HTMLIndex(i, dir)>>, dir |-> dir]
    /\ ret' = "true"

NotFound(i) ==
    /\ it' = i
    /\ current' = NoElement
    /\ ret' = "false"

\* HasNext and HasPrevious; any of the flaky resources may fail to be parsed.
Has(dir) ==
    /\ \E fails \in SUBSET pub.flaky :
          LET i == CurrentIterator
              j == Reached(i, dir, fails)
          IN  IF i = NoIterator THEN NotFound(i)
              ELSE IF Breaks(j, fails) THEN Fail(j, dir)
              ELSE IF HTMLHas(j, dir) THEN Found(j, dir)
              ELSE NotFound(j)
    /\ UNCHANGED pub

HasNext == Has(Fwd)
HasPrevious == Has(Bwd)

\* Next and Previous, called after HasNext or HasPrevious answered true.
Retrieve ==
    /\ ret = "true"
    /\ ret' = "element"
    /\ UNCHANGED <<pub, it, current>>

\* A client that reads forward, and also backward when a single resource is
\* HTML.  Backward over the beginning of a resource is left out: the iterator of
\* the resource before starts at its first element (IndexAtProgression), so that
\* HasPrevious finds nothing there.
ReadNext == HasNext \/ Retrieve \/ (Cardinality(pub.html) = 1 /\ HasPrevious)

-----------------------------------------------------------------------------
(* Where an iteration is, for the cursor it implements.                    *)

\* The number of elements in the resources before r.
Offset(r) ==
    LET upTo[q \in 1 .. N + 1] ==
            IF q = 1 THEN 0
            ELSE upTo[q - 1] + (IF q - 1 \in pub.html THEN pub.size[q - 1] ELSE 0)
    IN  upTo[r]

\* Where the start locator points.
StartPlace ==
    2 * (Offset(pub.start.res)
            + (IF pub.start.res \in pub.html THEN pub.start.index ELSE 0))

Place ==
    IF it = NoIterator THEN StartPlace
    ELSE IF it.index = -1 THEN 2 * (Offset(it.res) + it.start)
    ELSE 2 * (Offset(it.res) + it.index) + 1

=============================================================================
