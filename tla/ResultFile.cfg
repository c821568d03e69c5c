CONSTANTS
    a = a
    b = b
    c = c
    Nobody = Nobody
    Hole = Hole
    Paths <- ThreePaths
    MaxLines = 3
SPECIFICATION FileSpec
SYMMETRY Interchangeable
CHECK_DEADLOCK FALSE
INVARIANTS
    LatestResultsSurvive
    OlderResultsAreErased
