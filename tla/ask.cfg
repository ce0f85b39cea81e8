SPECIFICATION FairAskSpec
CONSTANTS
    QualityStrict = FALSE
    QualityMaxJoins = 6
    QualityMaxSubqueries = 8
    DisallowStarWithJoin = TRUE
    NoLimit = NoLimit
    OddLimit = OddLimit
    Requests = {r1, r2}
    Conns = {c1}
    Nobody = Nobody
    DefaultMaxRows = 2
    MaxRowsLimit = 3
    MaxAttempts = 3
    NoCap = NoCap
    RequestedCaps = {NoCap, 5}
    Generated <- MCGenerated
    Matches = {1, 4}
INVARIANTS
    AttemptDiscipline
    VettedExecutedReported
    RowsAsAsked
    NoConnectionWhileGenerating
    StatusAsDocumented
PROPERTIES
    ImplementsAskCall
    EveryRequestAnswered
CHECK_DEADLOCK FALSE
