SPECIFICATION ResultSpec
CONSTANTS
    Users = {1, 2, 3}
    Callers = {t1, t2}
    Matches <- MCMatches
    SizeBits = 4
    MaxPageSize = 3
    PageSizes <- MCPageSizes
    Pages <- MCPages
INVARIANTS
    ResultTypeOK
    RatedExactlyOnce
    ZeroSum
    PagesSliceTheRanking
PROPERTY
    StoredIsRated
