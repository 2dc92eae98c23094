---------------------------- MODULE MCEnrichment ----------------------------
(* Instances of Enrichment for TLC: how often each event may happen.       *)
EXTENDS Enrichment, TLC

\* one worker that may be restarted, crashes, edits of the source, reviews
MCSafetyMax == [start |-> 2, crash |-> 1, review |-> 1, extract |-> 1]

\* nobody crashes and reviews wait for the worker: two runs and two reviews
MCSequentialMax == [start |-> 2, crash |-> 0, review |-> 2, extract |-> 1]

\* one start per worker
MCWorkersMax == [start |-> 2, crash |-> 0, review |-> 0, extract |-> 0]

\* a crash, then a correction, then another run
MCCorrectionMax == [start |-> 2, crash |-> 1, review |-> 1, extract |-> 0]
\* paragraphs and hashes are interchangeable: nothing compares them but for equality
MCSymmetry == Permutations(Paragraphs) \cup Permutations(Hashes)
\* a change of the source and one more run
MCChangeMax == [start |-> 1, crash |-> 0, review |-> 0, extract |-> 1]

\* A state one run and one `verify` lead to: every paragraph has the same
\* text, which is narrated, approved, cached and not stale.
ApprovedInit ==
    \E h \in Hashes, t \in Narrations, p \in Paragraphs, r \in Risks :
        /\ source = [q \in Paragraphs |-> h]
        /\ rules = [NoRules EXCEPT ![h] = [text |-> t, verified |-> TRUE, flagged |-> FALSE]]
        /\ impl = {<<p, h>>}
        /\ cache = [NoRows EXCEPT ![h] = [text |-> t, verified |-> TRUE, stale |-> FALSE]]
        /\ queue = <<[para |-> p, risk |-> r, status |-> "done"]>>
        /\ texts = <<{h}>>
        /\ paid = [Nothing EXCEPT ![h] = 1]
        /\ InitProcesses
        /\ pardons = Nothing

ApprovedSpec == ApprovedInit /\ [][Next]_vars
==============================================================================
