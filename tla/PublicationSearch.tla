--------------------------- MODULE PublicationSearch ---------------------------
(***************************************************************************)
(* The search of a publication with what it finds: the engine of           *)
(* TextSearch on a publication, and CorpusSearchService (SearchService),   *)
(* which builds the corpus once and hands the matches out in pages.        *)
(*                                                                         *)
(* What the engine finds depends on nothing but the texts and the query.   *)
(* So it searches one publication here, of all small ones, before the      *)
(* service starts, whose matches are numbers.                              *)
(***************************************************************************)
EXTENDS SearchService, SequencesExt, FiniteSetsExt

CONSTANTS
    Publications,           \* sequences of resources, each of tokens
    Queries,                \* what is searched for, as typed
    DefaultContextRunes     \* of TextSearch

Text == INSTANCE TextSearch

ASSUME PublicationSearchAssumption ==
    /\ Text!TextSearchAssumption
    /\ \A p \in Publications : p \in Seq(Seq(Text!Tokens))
    /\ \A q \in Queries : q \in Seq(Text!Characters)

VARIABLES
    texts,    \* the publication searched, <<>> when the service has started
    hits      \* what is found for each query

textVars == <<texts, hits>>

PSInit ==
    /\ Init
    /\ texts \in Publications
    /\ hits = {}

FindTexts ==
    /\ texts # <<>> /\ hits = {}
    /\ hits' = {[query |-> q, found |-> Text!Find(Text!Build(texts), q)] : q \in Queries}
    /\ UNCHANGED <<texts, vars>>

Start ==
    /\ hits # {}
    /\ texts' = <<>> /\ hits' = {}
    /\ UNCHANGED vars

Serve == texts = <<>> /\ Next /\ UNCHANGED textVars

PSNext == FindTexts \/ Start \/ Serve

\* The fairness of FairSpec.
PSSpec ==
    /\ PSInit /\ [][PSNext]_<<vars, textVars>>
    /\ \A s \in Searchers :
          /\ WF_<<vars, textVars>>(Build(s) /\ UNCHANGED textVars)
          /\ SF_<<vars, textVars>>(Lock(s) /\ UNCHANGED textVars)

-----------------------------------------------------------------------------
(* Properties.                                                             *)

\* The characters of a resource that are not in an excluded element.
Shown(tokens) ==
    LET inside[i \in 0 .. Len(tokens)] ==
            IF i = 0 THEN 0
            ELSE IF tokens[i] = "skip" THEN inside[i - 1] + 1
            ELSE IF tokens[i] = "end" /\ inside[i - 1] > 0 THEN inside[i - 1] - 1
            ELSE inside[i - 1]
    IN  Text!Picked(tokens,
                    {i \in DOMAIN tokens : tokens[i] \in Text!Characters /\ inside[i] = 0})

\* The characters of a plain text from place lo up to hi, folded and normalized.
Phrase(plain, lo, hi) == Text!foldAndNormalize(SubSeq(plain, lo + 1, hi))

\* Is the part of a plain text from lo up to hi a place of the query?  It neither
\* starts nor ends with a space or in the middle of a word.
Occurs(plain, query, lo, hi) ==
    /\ Phrase(plain, lo, hi) = query
    /\ ~Text!isSpace(plain[lo + 1]) /\ ~Text!isSpace(plain[hi])
    /\ Text!isWordRune(plain[lo + 1]) /\ lo > 0 => ~Text!isWordRune(plain[lo])
    /\ Text!isWordRune(plain[hi]) /\ hi < Len(plain) => ~Text!isWordRune(plain[hi + 1])

\* What is found for a query is where it occurs in the text that is shown, whatever
\* spaces, blocks and excluded elements it is broken by and however it is folded: no
\* more, and, but for what overlaps a match, no less; in reading order, with a
\* progression that grows from match to match; the context of a match is the text
\* next to it, but for the ends of lines.  ("phrases survive inline markup",
\* corpus.go:42.)
MatchesExact ==
    hits # {} =>
        LET built == Text!Build(texts)
            kept == DOMAIN built.index
        IN  /\ \A p \in kept :
                  LET plain == built.text[p].plain
                  IN  Text!Picked(plain, {i \in DOMAIN plain : plain[i] # "nl"})
                         = Shown(texts[built.index[p]])
            /\ \A i \in DOMAIN texts :
                  i \notin {built.index[p] : p \in kept} => Shown(texts[i]) = <<>>
            /\ \A h \in hits :
                  LET query == Text!foldAndNormalize(h.query)
                      place(k) == Text!ProgressionAt(built, h.found[k].index,
                                                     h.found[k].match.start)
                  IN  /\ \A k \in 1 .. Len(h.found) - 1 : place(k) < place(k + 1)
                      /\ \A p \in kept :
                            LET plain == built.text[p].plain
                                here == {h.found[k].match : k \in
                                            {j \in DOMAIN h.found :
                                               h.found[j].index = built.index[p]}}
                            IN  /\ \A m \in here :
                                      /\ Occurs(plain, query, m.start, m.end)
                                      /\ \A k \in m.context.before[2] .. m.start - 1 :
                                            plain[k + 1] = "nl"
                                      /\ m.context.after[1] = m.end
                                /\ \A lo \in 0 .. Len(plain) - 1 :
                                      \A hi \in lo + 1 .. Len(plain) :
                                         query # <<>> /\ Occurs(plain, query, lo, hi)
                                            => \E m \in here : m.start < hi /\ lo < m.end

=============================================================================
