SPECIFICATION Spec
CONSTANTS
    Correction = correction
    Blank = blank
    Workers = {w1}
    Paragraphs = {p1, p2}
    Hashes = {h1, h2}
    Narrations = {t1}
    Risks = {1, 2}
    Budget = 3
    Costs = {2}
    MaxCost = 2
    ReviewWhileEnriching = TRUE
    Max <- MCSafetyMax
INVARIANTS
    TypeOK
    Grounded
    PaidOnce
    OneClaim
    Overspend
PROPERTIES
    KeepsLedger
SYMMETRY MCSymmetry
\* the system may stop: all processes have ended and every bound is used up
CHECK_DEADLOCK FALSE
