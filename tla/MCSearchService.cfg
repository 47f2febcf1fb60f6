CONSTANTS
    s1 = s1
    s2 = s2
    None = None
    Searchers <- MCSearchers
    N = 3
    Hits <- MCHits
    Broken <- MCBroken
    Transient = FALSE
    PageLength = 2
    MaxTotal = 3
    Publications <- MCPublications
    Queries <- MCQueries
    DefaultContextRunes = 2
SPECIFICATION PSSpec
INVARIANTS BuiltOnce CorpusComplete PagesInOrder MatchesExact
PROPERTIES LiveSearchAnswered
