SPECIFICATION GuardSpec
CONSTANTS
    QualityStrict = TRUE
    QualityMaxJoins = 1
    QualityMaxSubqueries <- MCBelowZero
    DisallowStarWithJoin = TRUE
    NoLimit = NoLimit
    OddLimit = OddLimit
    Texts <- MCTexts
    Caps = {1, 2}
INVARIANTS
    AcceptedIsConfined
    RevalidationStable
    FencesTransparent
CHECK_DEADLOCK FALSE
