SPECIFICATION Spec
CONSTANTS
    s1 = s1
    s2 = s2
    Texts <- MCTexts
    Query <- MCQuery
    Searches <- MCSearches
    Starts <- MCStarts
SYMMETRY Symmetric
CHECK_DEADLOCK FALSE
INVARIANTS
    HistoryIsTrue
    MigrationReversible
    SearchExact
