---------------------------- MODULE SearchService ----------------------------
(***************************************************************************)
(* Searching a publication: CorpusSearchService of                         *)
(* pkg/pub/service_search.go, with Extractor.Build of pkg/search/corpus.go *)
(* and the literal engine's scan of the corpus.                            *)
(*                                                                         *)
(* The first search reads every searchable resource and builds the corpus  *)
(* under the service's mutex; searches that come meanwhile wait for it.    *)
(* Each search has a context that its client may cancel at any moment,     *)
(* also while another one waits for the build.  Matches are handed out in  *)
(* pages by an iterator that belongs to the search; each call for a page   *)
(* has a context of its own, dead or alive whatever the others are.        *)
(*                                                                         *)
(* Resources are numbers, a match is <<resource, number in it>>.           *)
(***************************************************************************)
EXTENDS Integers, Sequences

CONSTANTS
    Searchers,    \* goroutines that search
    N,            \* number of searchable resources
    Hits,         \* Hits[r]: matches in resource r
    Broken,       \* resources that cannot be read, or exceed the limit
    Transient,    \* may a read fail although the resource is not broken?
    PageLength,   \* s.pageLength
    MaxTotal,     \* s.maxTotal
    None

ASSUME SearchServiceAssumption ==
    /\ N \in Nat \ {0}
    /\ Hits \in [1 .. N -> Nat]
    /\ Broken \subseteq 1 .. N
    /\ Transient \in BOOLEAN
    /\ PageLength \in Nat \ {0}
    /\ MaxTotal \in Nat \ {0}
    /\ None \notin Searchers
    /\ \A c \in SUBSET (1 .. N) : c # None

VARIABLES
    mu,         \* the holder of the service's mutex, or None
    corpus,     \* s.corpus: the resources extracted, or None
    builds,     \* corpora built (history)
    pc,         \* pc[s]: where s is in Search
    cancelled,  \* cancelled[s]: is the context s searches with cancelled?
    next,       \* next[s]: the resource s reads or extracts next
    data,       \* data[s]: the resources s has read
    matches,    \* matches[s]: the matches of the iterator of s
    pos,        \* pos[s]: its position
    page,       \* page[s]: the page it returned last
    delivered   \* delivered[s]: the matches on its pages so far (history)

vars == <<mu, corpus, builds, pc, cancelled, next, data, matches, pos, page, delivered>>

iterVars == <<matches, pos, page, delivered>>

Resources == 1 .. N

\* The matches in the resources of c, in reading order.
Found(c) ==
    LET upTo[r \in 0 .. N] ==
            IF r = 0 THEN <<>>
            ELSE upTo[r - 1] \o (IF r \in c THEN [k \in 1 .. Hits[r] |-> <<r, k>>]
                                            ELSE <<>>)
    IN  upTo[N]

Truncated(seq) == IF Len(seq) > MaxTotal THEN SubSeq(seq, 1, MaxTotal) ELSE seq

NoPage == [locators |-> <<>>, number |-> 0, hasNext |-> TRUE, err |-> "none"]

Init ==
    /\ mu = None
    /\ corpus = None
    /\ builds = 0
    /\ pc = [s \in Searchers |-> "idle"]
    /\ cancelled = [s \in Searchers |-> FALSE]
    /\ next = [s \in Searchers |-> 1]
    /\ data = [s \in Searchers |-> {}]
    /\ matches = [s \in Searchers |-> <<>>]
    /\ pos = [s \in Searchers |-> 0]
    /\ page = [s \in Searchers |-> NoPage]
    /\ delivered = [s \in Searchers |-> <<>>]

\* A client searches, with a context of its own.
Search(s) ==
    /\ pc[s] = "idle"
    /\ pc' = [pc EXCEPT ![s] = "lock"]
    /\ cancelled' = [cancelled EXCEPT ![s] = FALSE]
    /\ matches' = [matches EXCEPT ![s] = <<>>]
    /\ pos' = [pos EXCEPT ![s] = 0]
    /\ page' = [page EXCEPT ![s] = NoPage]
    /\ delivered' = [delivered EXCEPT ![s] = <<>>]
    /\ UNCHANGED <<mu, corpus, builds, next, data>>

\* The client goes away.
Cancel(s) ==
    /\ pc[s] # "idle"
    /\ ~cancelled[s]
    /\ cancelled' = [cancelled EXCEPT ![s] = TRUE]
    /\ UNCHANGED <<mu, corpus, builds, pc, next, data, iterVars>>

Goto(s, label) == pc' = [pc EXCEPT ![s] = label]

\* Mutant: the corpus is not looked at again once the mutex is held.
LockBlind(s) ==
    /\ pc[s] = "lock"
    /\ mu = None
    /\ IF cancelled[s]
       THEN Goto(s, "idle") /\ UNCHANGED <<mu, next, data>>
       ELSE /\ mu' = s
            /\ next' = [next EXCEPT ![s] = 1]
            /\ data' = [data EXCEPT ![s] = {}]
            /\ Goto(s, "build")
    /\ UNCHANGED <<corpus, builds, cancelled, iterVars>>

\* ensureCorpus takes the mutex: the corpus is there, or the context is dead, or
\* it is built.
Lock(s) ==
    /\ pc[s] = "lock"
    /\ mu = None
    /\ IF corpus # None
       THEN Goto(s, "find") /\ UNCHANGED <<mu, next, data>>
       ELSE IF cancelled[s]
            THEN Goto(s, "idle") /\ UNCHANGED <<mu, next, data>>
            ELSE /\ mu' = s
                 /\ next' = [next EXCEPT ![s] = 1]
                 /\ data' = [data EXCEPT ![s] = {}]
                 /\ Goto(s, "build")
    /\ UNCHANGED <<corpus, builds, cancelled, iterVars>>

\* return nil, ctx.Err(); the deferred unlock.
Abort(s) == Goto(s, "idle") /\ mu' = None

\* The check of the context before each resource.
BuildCheck(s) ==
    /\ pc[s] = "build"
    /\ IF next[s] > N
       THEN /\ Goto(s, "extract")
            /\ next' = [next EXCEPT ![s] = 1]
            /\ UNCHANGED mu
       ELSE /\ IF cancelled[s] THEN Abort(s) ELSE Goto(s, "read") /\ UNCHANGED mu
            /\ UNCHANGED next
    /\ UNCHANGED <<corpus, builds, cancelled, data, iterVars>>

\* Mutant: a resource that cannot be read is tried again.
ReadResourceRetry(s) ==
    /\ pc[s] = "read"
    /\ Goto(s, "build")
    /\ \/ /\ next[s] \notin Broken
          /\ data' = [data EXCEPT ![s] = @ \union {next[s]}]
          /\ next' = [next EXCEPT ![s] = next[s] + 1]
       \/ (next[s] \in Broken \/ cancelled[s] \/ Transient) /\ UNCHANGED <<data, next>>
    /\ UNCHANGED <<mu, corpus, builds, cancelled, iterVars>>

\* The resource is read and closed; one that cannot be read is skipped, also
\* when it is the cancelled context that made the read fail.
ReadResource(s) ==
    /\ pc[s] = "read"
    /\ next' = [next EXCEPT ![s] = next[s] + 1]
    /\ Goto(s, "build")
    /\ \/ next[s] \notin Broken /\ data' = [data EXCEPT ![s] = @ \union {next[s]}]
       \/ (next[s] \in Broken \/ cancelled[s] \/ Transient) /\ UNCHANGED data
    /\ UNCHANGED <<mu, corpus, builds, cancelled, iterVars>>

\* Mutant: the context is not checked during the extraction.
ExtractUnchecked(s) ==
    /\ pc[s] = "extract"
    /\ IF next[s] > N
       THEN /\ corpus' = data[s]
            /\ builds' = builds + 1
            /\ mu' = None
            /\ Goto(s, "find")
            /\ UNCHANGED next
       ELSE /\ next' = [next EXCEPT ![s] = next[s] + 1]
            /\ UNCHANGED <<mu, corpus, builds, pc>>
    /\ UNCHANGED <<cancelled, data, iterVars>>

\* Extractor.Build checks the context before each resource; the corpus is
\* published after the last one.
Extract(s) ==
    /\ pc[s] = "extract"
    /\ IF next[s] > N
       THEN /\ corpus' = data[s]
            /\ builds' = builds + 1
            /\ mu' = None
            /\ Goto(s, "find")
            /\ UNCHANGED next
       ELSE IF cancelled[s]
            THEN Abort(s) /\ UNCHANGED <<corpus, builds, next>>
            ELSE /\ next' = [next EXCEPT ![s] = next[s] + 1]
                 /\ UNCHANGED <<mu, corpus, builds, pc>>
    /\ UNCHANGED <<cancelled, data, iterVars>>

\* The engine scans the corpus, the result is cut to maxTotal, and an iterator
\* returned.
Find(s) ==
    /\ pc[s] = "find"
    /\ IF cancelled[s] /\ corpus # {}
       THEN Goto(s, "idle") /\ UNCHANGED matches
       ELSE /\ matches' = [matches EXCEPT ![s] = Truncated(Found(corpus))]
            /\ Goto(s, "paging")
    /\ UNCHANGED <<mu, corpus, builds, cancelled, next, data, pos, page, delivered>>

\* The page from the position up to end.
NextPage(s, end) ==
    /\ pos' = [pos EXCEPT ![s] = end]
    /\ page' = [page EXCEPT ![s] =
                  [locators |-> SubSeq(matches[s], pos[s] + 1, end),
                   number |-> pos[s] \div PageLength + 1,
                   hasNext |-> end < Len(matches[s]),
                   err |-> "none"]]
    /\ delivered' = [delivered EXCEPT ![s] = @ \o page'[s].locators]

\* Mutant: the position moves on before the context is looked at.
RefusedLate(s, err) ==
    /\ page' = [page EXCEPT ![s] = [@ EXCEPT !.err = err]]
    /\ pos' = [pos EXCEPT ![s] = IF pos[s] + PageLength > Len(matches[s])
                                 THEN Len(matches[s]) ELSE pos[s] + PageLength]
    /\ UNCHANGED delivered

\* The call returns an error and no page.
Refused(s, err) ==
    /\ page' = [page EXCEPT ![s] = [@ EXCEPT !.err = err]]
    /\ UNCHANGED <<pos, delivered>>

\* sliceIterator.Next, with a context that is alive or not: a call that is refused
\* for its context may be followed by one that is not.
NextCall(s) ==
    /\ pc[s] = "paging"
    /\ \E live \in BOOLEAN :
          IF ~live THEN Refused(s, "cancelled")
          ELSE IF pos[s] >= Len(matches[s]) THEN Refused(s, "done")
          ELSE NextPage(s, IF pos[s] + PageLength > Len(matches[s])
                           THEN Len(matches[s]) ELSE pos[s] + PageLength)
    /\ UNCHANGED <<mu, corpus, builds, pc, cancelled, next, data, matches>>

\* The client closes the iterator.
Close(s) ==
    /\ pc[s] = "paging"
    /\ Goto(s, "idle")
    /\ UNCHANGED <<mu, corpus, builds, cancelled, next, data, iterVars>>

Build(s) == BuildCheck(s) \/ ReadResource(s) \/ Extract(s) \/ Find(s)

Next ==
    \E s \in Searchers :
        Search(s) \/ Cancel(s) \/ Lock(s) \/ Build(s) \/ NextCall(s) \/ Close(s)

Spec == Init /\ [][Next]_vars

\* Reads end, and Go's mutex does not starve a goroutine that waits for it.
FairSpec ==
    /\ Spec
    /\ \A s \in Searchers : WF_vars(Build(s)) /\ SF_vars(Lock(s))

-----------------------------------------------------------------------------
(* Properties.                                                             *)

\* "The corpus is built once per service instance on first use; concurrent first
\* searches share one build."
BuiltOnce == builds <= 1

\* A client that goes away in the middle of the build makes that build fail, as
\* a whole: it leaves no corpus with a hole behind for the searches to come.
CorpusComplete == corpus # None => corpus = Resources \ Broken

\* The pages of an iterator are, one after the other, its matches, each once,
\* whatever calls were refused in between for a dead context of theirs; they are
\* numbered from 1, full but for the last, and say truly whether another one follows,
\* and the end is reported when all of them were returned.
PagesInOrder ==
    \A s \in Searchers :
        /\ delivered[s] = SubSeq(matches[s], 1, Len(delivered[s]))
        /\ page[s].number > 0 =>
              /\ page[s].hasNext = (Len(delivered[s]) < Len(matches[s]))
              /\ page[s].hasNext => Len(page[s].locators) = PageLength
              /\ Len(page[s].locators) \in 1 .. PageLength
              /\ (page[s].number - 1) * PageLength + Len(page[s].locators) =
                    Len(delivered[s])
        /\ page[s].err = "done" => delivered[s] = matches[s]

\* "A failed build (including cancellation) is not sticky: a later call with a
\* live context retries."  A search whose client waits for it is answered.
LiveSearchAnswered ==
    \A s \in Searchers : pc[s] = "lock" ~> pc[s] = "paging" \/ cancelled[s]

=============================================================================
