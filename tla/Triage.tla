-------------------------------- MODULE Triage --------------------------------
(***************************************************************************)
(* `brain triage` (cli/commands/triage.py and _triage_candidates of        *)
(* cli/_common.py) on the store that enrich, the review commands and       *)
(* extract write to at the same time.  It reads the edges, then the nodes, *)
(* then for one paragraph after the other its rules and their stale marks, *)
(* once to see whether the paragraph is current and once more for the      *)
(* reason; then it fills the work queue and writes nothing.                *)
(*                                                                         *)
(* The marks one any() looks at are read in one step.  Every paragraph has *)
(* a source, and it decides what is measured of the paragraph.             *)
(***************************************************************************)
EXTENDS Enrichment, WorkQueue

CONSTANTS
    Measured,       \* Measured[h]: the metrics of a paragraph with this text
    Length,         \* Length[h]: the characters of it
    MaxTriages      \* bound: triage runs

ASSUME MeasuredAssumption ==
    /\ Measured \in [Hashes -> Metrics]
    /\ Length \in [Hashes -> Nat]
    /\ MaxTriages \in Nat

VARIABLES
    stage,          \* what triage does next
    seen,           \* the IMPLEMENTS_RULE edges it read
    sources,        \* the paragraphs' texts it read
    unread,         \* the paragraphs it has not come to
    judged,         \* the paragraph that is not current, and has no reason yet
    found,          \* the items it found
    triages,        \* how many runs there were, bounded by MaxTriages
    \* observers
    wasDue,         \* paragraphs that were not current at some time of the run
    stayedDue,      \* paragraphs that were not current all the time
    edited,         \* an extraction changed a text during the run
    marked          \* a stale mark has changed during the run

readVars == <<stage, seen, sources, unread, judged, found, triages>>
watchVars == <<wasDue, stayedDue, edited, marked>>
triageVars == <<queueVars, readVars, watchVars>>
allVars == <<vars, triageVars>>

WorkItem == [para : Paragraphs, hash : Hashes, risk : 0 .. MaxScore, tokens : Nat,
             reason : {"stale", "changed"}]

ItemFor(p, reason) ==
    [para |-> p, hash |-> sources[p], risk |-> RiskScore(Measured[sources[p]]),
     tokens |-> TokensOf(Length[sources[p]]), reason |-> reason]

TriageStarts ==
    /\ NoQueue
    /\ stage = "off"
    /\ seen = {}
    /\ sources = source
    /\ unread = {}
    /\ judged = {}
    /\ found = << >>
    /\ wasDue = {} /\ stayedDue = {}
    /\ edited = FALSE /\ marked = FALSE

TriageInit == TriageStarts /\ triages = 0

(* The command starts, and reads all edges.                                *)
ReadEdges ==
    /\ stage \in {"off", "done"}
    /\ triages < MaxTriages
    /\ triages' = triages + 1
    /\ seen' = impl
    /\ found' = << >>
    /\ stage' = "nodes"
    /\ wasDue' = Candidates /\ stayedDue' = Candidates
    /\ edited' = FALSE /\ marked' = FALSE
    /\ UNCHANGED <<vars, queueVars, sources, unread, judged>>

(* It reads all nodes: the paragraphs and their texts.                     *)
ReadNodes ==
    /\ stage = "nodes"
    /\ sources' = source
    /\ unread' = Paragraphs
    /\ stage' = "scan"
    /\ UNCHANGED <<vars, queueVars, seen, judged, found, triages, watchVars>>

RulesSeen(p) == {h \in Hashes : <<p, h>> \in seen /\ IsRule(h)}

HasRules(p) == \E h \in Hashes : <<p, h>> \in seen

(* A mutant of SeemsCurrent: any rule will do that is not stale.           *)
SeemsNarrated(p) == \E h \in RulesSeen(p) : ~IsStale(cache, h)

(* A mutant of SeemsCurrent: the hash it compares is not the rule's, but   *)
(* that of the text before redaction.                                      *)
SeemsNever(p) == RulesSeen(p) = {}

SeemsCurrent(p) == \E h \in RulesSeen(p) : h = sources[p] /\ ~IsStale(cache, h)

(* A paragraph without a rule is new: enrich takes it, triage does not.    *)
PassOver(p) ==
    /\ stage = "scan"
    /\ ~HasRules(p) \/ SeemsCurrent(p)
    /\ unread' = unread \ {p}
    /\ UNCHANGED <<vars, queueVars, stage, seen, sources, judged, found, triages, watchVars>>

Suspect(p) ==
    /\ stage = "scan"
    /\ HasRules(p) /\ ~SeemsCurrent(p)
    /\ unread' = unread \ {p}
    /\ judged' = {p}
    /\ stage' = "judge"
    /\ UNCHANGED <<vars, queueVars, seen, sources, found, triages, watchVars>>

Reason(p) == IF \E h \in RulesSeen(p) : IsStale(cache, h) THEN "stale" ELSE "changed"

Judge ==
    /\ stage = "judge"
    /\ \E p \in judged : found' = Append(found, ItemFor(p, Reason(p)))
    /\ judged' = {}
    /\ stage' = "scan"
    /\ UNCHANGED <<vars, queueVars, seen, sources, unread, triages, watchVars>>

RankFound ==
    /\ stage = "scan"
    /\ unread = {}
    /\ Rank(found)
    /\ stage' = "select"
    /\ UNCHANGED <<vars, seen, sources, unread, judged, found, triages, watchVars>>

Select1 ==
    /\ stage = "select"
    /\ Take \/ Skip
    /\ UNCHANGED <<vars, readVars, watchVars>>

(* A mutant of Report: the loop ends at the first item that is skipped.    *)
ReportEarly ==
    /\ stage = "select"
    /\ ~MoreItems \/ skipped > 0
    /\ stage' = "done"
    /\ UNCHANGED <<vars, queueVars, seen, sources, unread, judged, found, triages, watchVars>>

(* The queue is printed and the command is over.                           *)
Report ==
    /\ stage = "select"
    /\ ~MoreItems
    /\ stage' = "done"
    /\ UNCHANGED <<vars, queueVars, seen, sources, unread, judged, found, triages, watchVars>>

TriageStep ==
    \/ ReadEdges \/ ReadNodes
    \/ \E p \in unread : PassOver(p) \/ Suspect(p)
    \/ Judge \/ RankFound \/ Select1 \/ Report

Reading == stage \in {"nodes", "scan", "judge"}

(* What the observers see of a step of another command.                    *)
Watch ==
    /\ wasDue' = IF Reading THEN wasDue \cup Candidates' ELSE wasDue
    /\ stayedDue' = IF Reading THEN stayedDue \cap Candidates' ELSE stayedDue
    /\ edited' = (edited \/ (Reading /\ source' # source))
    /\ marked' = (marked \/ (Reading /\ \E h \in Hashes : cache'[h].stale # cache[h].stale))

(* Another command.  What it does after triage has read all it reads does  *)
(* not reach triage any more, and is left out until the next run, if any.  *)
Others ==
    /\ stage = "off" \/ Reading \/ (stage = "done" /\ triages < MaxTriages)
    /\ Next
    /\ Watch
    /\ UNCHANGED <<queueVars, readVars>>

TriageNext == TriageStep \/ Others

TriageSpec == Init /\ TriageInit /\ [][TriageNext]_allVars

-----------------------------------------------------------------------------
(* Properties.                                                             *)

Stages == {"off", "nodes", "scan", "judge", "select", "done"}

TriageTypeOK ==
    /\ ranked \in Seq(WorkItem)
    /\ considered \in 0 .. Len(ranked)
    /\ chosen \subseteq 1 .. considered
    /\ used \in Nat /\ skipped \in Nat
    /\ spent \in Seq(Nat) /\ Len(spent) = considered + 1
    /\ stage \in Stages
    /\ seen \subseteq Paragraphs \X Hashes
    /\ sources \in [Paragraphs -> Hashes]
    /\ unread \subseteq Paragraphs /\ judged \subseteq Paragraphs
    /\ found \in Seq(WorkItem)
    /\ triages \in Nat
    /\ wasDue \subseteq Paragraphs /\ stayedDue \subseteq Paragraphs
    /\ edited \in BOOLEAN /\ marked \in BOOLEAN

(* spent adds up what was taken, item by item, in the order of the risks.  *)
Descending == \A i, j \in DOMAIN ranked : i < j => ranked[i].risk >= ranked[j].risk

AddsUp ==
    /\ spent[1] = 0
    /\ \A i \in 1 .. considered :
          spent[i + 1] = spent[i] + IF i \in chosen THEN ranked[i].tokens ELSE 0

(* The greedy loop gives the allowance to the riskiest: what is taken fits *)
(* the allowance, an item at or above the threshold is left out only if    *)
(* the items before it, none less risky, leave less than it costs, and a   *)
(* queue that is printed has gone through every item found.                *)
FilledByRisk ==
    /\ Descending
    /\ AddsUp
    /\ used = spent[considered + 1] /\ used <= Allowance
    /\ \A i \in 1 .. considered :
          i \notin chosen /\ ranked[i].risk >= Threshold => spent[i] + ranked[i].tokens > Allowance
    /\ \A i \in chosen : ranked[i].risk >= Threshold
    /\ stage = "done" => considered = Len(ranked) /\ Range(ranked) = Range(found)

(* Triage reads edges, texts, rules and marks at different times, while    *)
(* enrich and reviews change them.  As long as no text changed meanwhile,  *)
(* an item it lists was due at some time of the run; and it is said to     *)
(* have changed only if no rule is of its text, unless a mark has moved.   *)
ListedWasDue ==
    stage # "off" /\ ~edited =>
        \A item \in Range(found) :
            /\ item.para \in wasDue
            /\ item.reason = "changed" /\ ~marked => <<item.para, item.hash>> \notin seen

(* And a paragraph that was due all the time, and had a rule when the run  *)
(* began, is listed.                                                       *)
DueIsListed ==
    stage \in {"select", "done"} /\ ~edited =>
        \A p \in stayedDue : HasRules(p) => \E item \in Range(found) : item.para = p
===============================================================================
