-------------------------- MODULE PublicationContent --------------------------
(***************************************************************************)
(* The content of a publication, from the HTML to whoever reads it: a      *)
(* resource is turned into elements (HTMLConverter), and the elements of   *)
(* all resources are iterated (ContentIterator) from the one the           *)
(* converter found for the start locator.                                  *)
(*                                                                         *)
(* The iterator of a resource converts it when it is first asked; what it  *)
(* finds depends on nothing else, so a document is converted here before   *)
(* the publication with it is iterated.                                    *)
(***************************************************************************)
EXTENDS HTMLConverter

CONSTANTS N, MaxSize, Shapes    \* of ContentIterator

VARIABLES
    found,                   \* what the converter returned to its iterator
    pub, it, current, ret    \* the variables of ContentIterator

readVars == <<pub, it, current, ret>>

Reading == INSTANCE ContentIterator

ASSUME PublicationContentAssumption == Reading!ContentIteratorAssumption

NoPublication == [size |-> [r \in 1 .. N |-> 0]]
NoDocument ==
    [size |-> 1, parent |-> <<>>, kind |-> <<>>, start |-> 0, tongue |-> 0,
     attr |-> NoAttributes(1)]

NotConverted == [size |-> -1, index |-> 0]
NotFound == [size |-> -2, index |-> 0]

opened == pub # NoPublication

PCInit ==
    /\ Init
    /\ found = NotConverted
    /\ pub = NoPublication
    /\ it = Reading!NoIterator
    /\ current = Reading!NoElement
    /\ ret = "none"

Convert == found = NotConverted /\ Next /\ UNCHANGED <<found, readVars>>

\* HTMLConverter.Result: without a start element the start is at a progression.
Result ==
    /\ phase = "done"
    /\ found' = [size |-> Len(conv.elements),
                 index |-> IF doc.start # 0 THEN conv.startIndex
                           ELSE Reading!IndexAtProgression(1, 0)]
    /\ doc' = NoDocument
    /\ node' = 1 /\ depth' = 0 /\ phase' = "head" /\ conv' = NewConverter
    /\ UNCHANGED readVars

\* The publication may also start at a resource that is no HTML.
NoResult ==
    /\ found = NotConverted
    /\ doc = NoDocument /\ phase = "head"
    /\ found' = NotFound
    /\ UNCHANGED <<vars, readVars>>

\* A publication with what was found as the resource of its start locator.
OpenPublication ==
    /\ ~opened /\ found # NotConverted
    /\ pub' \in {p \in Shapes :
                    IF found = NotFound THEN p.start.res \notin p.html
                    ELSE /\ p.start.res \in p.html
                         /\ p.size[p.start.res] = found.size
                         /\ p.start.index = found.index}
    /\ found' = NotFound
    /\ UNCHANGED <<vars, it, current, ret>>

Read == opened /\ Reading!ReadNext /\ UNCHANGED <<found, vars>>

PCNext == Convert \/ Result \/ NoResult \/ OpenPublication \/ Read

PCSpec == PCInit /\ [][PCNext]_<<vars, found, readVars>>

-----------------------------------------------------------------------------
(* Properties, over those of HTMLConverter.                                *)

\* The iterator is a cursor over the elements of all HTML resources, in reading
\* order from where the start locator says: nothing is left out and nothing comes
\* twice, whatever resources are empty or no HTML, and whatever calls fail.
C == INSTANCE Cursor WITH
        length <- IF opened THEN Reading!Offset(N + 1) ELSE -1,
        place <- IF opened THEN Reading!Place ELSE 0,
        answer <- IF current = Reading!NoElement THEN 0
                  ELSE Reading!Offset(current.el[1]) + current.el[2] + 1

ImplementsCursor == C!Spec
=============================================================================
