SPECIFICATION ApprovedSpec
CONSTANTS
    Correction = correction
    Blank = blank
    Workers = {w1}
    Paragraphs = {p1}
    Hashes = {h1, h2}
    Narrations = {t1}
    Risks = {1}
    Budget = 2
    Costs = {1}
    MaxCost = 1
    ReviewWhileEnriching = FALSE
    Max <- MCChangeMax
INVARIANTS
    ChangedRuleIsStale
\* the system may stop: all processes have ended and every bound is used up
CHECK_DEADLOCK FALSE
