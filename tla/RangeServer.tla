----------------------------- MODULE RangeServer -----------------------------
(***************************************************************************)
(* What a Resource promises to whoever reads it, whatever caching sits     *)
(* behind it: fetcher.Resource.Read as the in-memory BytesResource         *)
(* implements it.  A reader asks for an inclusive range and is answered    *)
(* once, with exactly the bytes of that range, clamped to what is there,   *)
(* or with an error; it is never answered with other bytes.                *)
(*                                                                         *)
(* The caches of this project (ReadCache, RetainedCache) are shown to      *)
(* implement this specification.                                           *)
(***************************************************************************)
EXTENDS ByteRange

CONSTANTS
    Readers,     \* goroutines reading the resource
    Requests,    \* the inclusive ranges <<start, end>> they ask for
    Whole,       \* bytes returned for the (0, 0) "whole content" request
    Visible      \* bytes a ranged request can reach

VARIABLES
    asked,       \* asked[r]: the range r waits for, or Nothing
    answer       \* answer[r]: what r got for its last request, or Pending

rsVars == <<asked, answer>>

Nothing == <<>>
Pending == [lo |-> -2, hi |-> -2]    \* no answer yet
Failed == [lo |-> -1, hi |-> -1]     \* a ResourceError

\* BytesResource.Read: (0, 0) is the whole content, any other range is clamped
\* to the available length.
Exact(req) ==
    IF req[1] = 0 /\ req[2] = 0
    THEN Run(0, Whole)
    ELSE Run(MinOf(req[1], Visible), MinOf(req[2] + 1, Visible))

RSInit ==
    /\ asked = [r \in Readers |-> Nothing]
    /\ answer = [r \in Readers |-> Pending]

Ask(r, req) ==
    /\ asked[r] = Nothing
    /\ asked' = [asked EXCEPT ![r] = req]
    /\ answer' = [answer EXCEPT ![r] = Pending]

Serve(r) ==
    /\ asked[r] # Nothing
    /\ asked[r][1] <= asked[r][2]
    /\ answer' = [answer EXCEPT ![r] = Exact(asked[r])]
    /\ asked' = [asked EXCEPT ![r] = Nothing]

\* An inverted range, or an error of the layer below.
Refuse(r) ==
    /\ asked[r] # Nothing
    /\ answer' = [answer EXCEPT ![r] = Failed]
    /\ asked' = [asked EXCEPT ![r] = Nothing]

\* The readers are gone, and with them what they were answered.
Forget ==
    /\ \A r \in Readers : asked[r] = Nothing
    /\ answer' = [r \in Readers |-> Pending]
    /\ UNCHANGED asked

RSNext ==
    \/ Forget
    \/ \E r \in Readers :
          \/ \E req \in Requests : Ask(r, req)
          \/ Serve(r)
          \/ Refuse(r)

RSSpec == RSInit /\ [][RSNext]_rsVars
=============================================================================
