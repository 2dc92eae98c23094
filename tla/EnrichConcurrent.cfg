SPECIFICATION EnrichedSpec
CONSTANTS
    Correction = correction
    Blank = blank
    Workers = {w1, w2}
    p1 = p1
    p2 = p2
    h1 = h1
    h2 = h2
    h3 = h3
    Paragraphs = {p1, p2}
    Hashes = {h1, h2, h3}
    Narrations = {t1}
    Risks = {1}
    Budget = 1
    Costs = {1}
    MaxCost = 1
    ReviewWhileEnriching = TRUE
    Max <- MCMax
    Threshold = 30000
    Allowance = 3
    Measured <- MCMeasured
    Length <- MCLength
    MaxTriages = 1
INVARIANTS
    TriageTypeOK
    FilledByRisk
    ListedWasDue
    DueIsListed
    PaidPerWorker
SYMMETRY MCSymmetry
\* the system may stop: all processes have ended and every bound is used up
CHECK_DEADLOCK FALSE
