------------------------------- MODULE MCTriage -------------------------------
(* Triage beside two enrich processes and a reviewer, for TLC.             *)
EXTENDS Triage, TLC

CONSTANTS p1, p2, h1, h2, h3

\* two processes that enrich; or one, a reviewer and an edit beside triage
MCMax == [start |-> 2, crash |-> 0, review |-> 1, extract |-> 1]

MCSymmetry == Permutations(Workers)

\* h1 is below the threshold, h2 was parsed in part and would be as risky as
\* can be, h3 is riskier and costs more than the allowance
Plain == [complexity |-> 1, goto |-> 0, calls |-> 0, literals |-> 0, partial |-> FALSE]

MCMeasured == [h \in Hashes |->
    CASE h = h1 -> Plain
      [] h = h2 -> [Plain EXCEPT !.complexity = 200, !.goto = 100, !.partial = TRUE]
      [] h = h3 -> [Plain EXCEPT !.complexity = 12, !.calls = 6, !.literals = 1]]

MCLength == [h \in Hashes |-> CASE h = h1 -> 5 [] h = h2 -> 14 [] h = h3 -> 16]

\* Both paragraphs are narrated, each by a run of its own; the rule of the
\* first may have been flagged since, and its text may have changed.
EnrichedInit ==
    \E t \in Narrations, r \in Risks, h \in Hashes, flag \in BOOLEAN :
        /\ source = [p \in Paragraphs |-> IF p = p1 THEN h ELSE h2]
        /\ rules = [x \in Hashes |-> IF x = h3 THEN NoRule ELSE
                       [text |-> t, verified |-> FALSE, flagged |-> flag /\ x = h1]]
        /\ impl = {<<p1, h1>>, <<p2, h2>>}
        /\ cache = [x \in Hashes |-> IF x = h3 THEN NoRow ELSE
                       [text |-> t, verified |-> FALSE, stale |-> flag /\ x = h1]]
        /\ queue = <<[para |-> p1, risk |-> r, status |-> "done"],
                     [para |-> p2, risk |-> r, status |-> "done"]>>
        /\ texts = <<{h1}, {h2}>>
        /\ paid = [Nothing EXCEPT ![h1] = 1, ![h2] = 1]
        /\ pardons = IF flag THEN [Nothing EXCEPT ![h1] = 1] ELSE Nothing

\* The events that are left: both workers' starts, or one start and triage.
EitherBound ==
    \/ triages = MaxTriages /\ count = [e \in Events |-> IF e = "extract" THEN 1 ELSE 0]
    \/ triages = 0 /\ count = [e \in Events |-> IF e = "start" THEN 1 ELSE 0]

NothingRuns ==
    /\ pc = [w \in Workers |-> "idle"]
    /\ todo = [w \in Workers |-> {}]
    /\ job = [w \in Workers |-> NoJob]
    /\ tokens = [w \in Workers |-> 0]
    /\ review = NoReview

BetweenRuns == EnrichedInit /\ NothingRuns /\ EitherBound /\ TriageStarts

EnrichedSpec == BetweenRuns /\ [][TriageNext]_allVars
===============================================================================
