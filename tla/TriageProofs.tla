----------------------------- MODULE TriageProofs -----------------------------
(* Theorems about `brain triage` beside the other commands (Triage).       *)
EXTENDS Triage, LedgerProofs

-----------------------------------------------------------------------------
(* Triage only reads.                                                      *)

LEMMA TriageSteps == [TriageNext]_allVars => [Next]_vars
  <1> SUFFICES ASSUME [TriageNext]_allVars PROVE [Next]_vars
    OBVIOUS
  <1>1. CASE TriageStep
    BY <1>1 DEF TriageStep, ReadEdges, ReadNodes, PassOver, Suspect, Judge,
       RankFound, Select1, Report
  <1>2. CASE Others
    BY <1>2 DEF Others
  <1>3. CASE UNCHANGED allVars
    BY <1>3 DEF allVars
  <1> QED BY <1>1, <1>2, <1>3 DEF TriageNext

(* Whatever triage does, beside the other commands and in any order with   *)
(* their steps, the store and they behave as without it: what is proved of *)
(* Enrichment holds while triage runs.                                     *)
THEOREM TriageOnlyReads == TriageSpec => Spec
  BY TriageSteps, PTL DEF TriageSpec, Spec

-----------------------------------------------------------------------------
(* What an item is made of.                                                *)

(* A score is never above the cap, and that of a partial parse never above *)
(* three tenths of it, whatever the extractor measured.                    *)
LEMMA ScoreIsCapped ==
    ASSUME NEW m \in Metrics
    PROVE  /\ RiskScore(m) \in 0 .. MaxScore
           /\ m.partial => RiskScore(m) <= 60000
  <1> DEFINE raw == 5000 * m.complexity + 20 * m.goto + 1500 * m.calls + 1000 * m.literals
             capped == IF raw > MaxScore THEN MaxScore ELSE raw
  <1>1. m.complexity \in Nat /\ m.goto \in Nat /\ m.calls \in Nat /\ m.literals \in Nat
    <2>1. m.goto \in 0 .. 100
      BY DEF Metrics
    <2> QED BY <2>1 DEF Metrics
  <1>2. raw \in Nat
    BY <1>1
  <1>3. MaxScore = 200000
    BY DEF MaxScore
  <1>4. MaxScore \in Nat
    BY <1>3
  <1> HIDE DEF raw
  <1>5. capped \in Nat /\ capped <= MaxScore
    BY <1>2, <1>4
  <1> HIDE DEF capped
  <1>6. (3 * capped) \div 10 \in Nat /\ (3 * capped) \div 10 <= 60000
    BY <1>3, <1>5
  <1>7. RiskScore(m) = IF m.partial THEN (3 * capped) \div 10 ELSE capped
    BY DEF RiskScore, raw, capped
  <1>8. RiskScore(m) \in Nat /\ RiskScore(m) <= MaxScore
    BY <1>3, <1>5, <1>6, <1>7
  <1>9. RiskScore(m) \in 0 .. MaxScore
    BY <1>4, <1>8
  <1>10. m.partial => RiskScore(m) <= 60000
    BY <1>6, <1>7
  <1> QED BY <1>9, <1>10

LEMMA TokensAreCounted ==
    ASSUME NEW n \in Nat
    PROVE  TokensOf(n) \in Nat /\ TokensOf(n) > 0
  BY DEF TokensOf

LEMMA ItemTyped ==
    ASSUME sources \in [Paragraphs -> Hashes], NEW p \in Paragraphs,
           NEW r \in {"stale", "changed"}
    PROVE  ItemFor(p, r) \in WorkItem
  <1>1. sources[p] \in Hashes
    OBVIOUS
  <1>2. RiskScore(Measured[sources[p]]) \in 0 .. MaxScore
    BY <1>1, ScoreIsCapped, MeasuredAssumption
  <1>3. TokensOf(Length[sources[p]]) \in Nat
    BY <1>1, TokensAreCounted, MeasuredAssumption
  <1> QED BY <1>1, <1>2, <1>3 DEF ItemFor, WorkItem

-----------------------------------------------------------------------------
(* The work queue.                                                         *)

LEMMA WorkItemFields ==
    ASSUME NEW item \in WorkItem
    PROVE  item.risk \in Nat /\ item.tokens \in Nat
  <1>1. MaxScore \in Nat
    BY DEF MaxScore
  <1> QED BY <1>1 DEF WorkItem

(* Ranking permutes the items, and the riskiest come first.                *)
LEMMA RankPermutes ==
    ASSUME NEW items \in Seq(WorkItem), Rank(items)
    PROVE  /\ ranked' \in Seq(WorkItem)
           /\ Range(ranked') = Range(items)
           /\ Descending'
  <1> DEFINE D == DOMAIN items
  <1>1. Len(items) \in Nat /\ D = 1 .. Len(items) /\ items \in [D -> WorkItem]
    BY LenProperties
  <1>2. PICK f \in Bijection(D, D) : /\ IsRanking(items, f)
                                     /\ ranked' = [i \in D |-> items[f[i]]]
    BY DEF Rank
  <1>3. f \in [D -> D] /\ \A d \in D : \E i \in D : f[i] = d
    BY <1>2 DEF Bijection, Injection, Surjection
  <1>4. ranked' \in [D -> WorkItem]
    BY <1>1, <1>2, <1>3
  <1>5. ranked' \in Seq(WorkItem) /\ DOMAIN ranked' = D
    BY <1>1, <1>4, SameLength
  <1>6. Range(ranked') = Range(items)
    BY <1>1, <1>2, <1>3, <1>5 DEF Range
  <1>7. ASSUME NEW i \in D, NEW j \in D, i < j
        PROVE  ranked'[i].risk >= ranked'[j].risk
    <2>1. /\ ranked'[i] = items[f[i]] /\ ranked'[j] = items[f[j]]
          /\ items[f[i]] \in WorkItem /\ items[f[j]] \in WorkItem
      BY <1>1, <1>2, <1>3
    <2>2. items[f[i]].risk > items[f[j]].risk \/ items[f[i]].risk = items[f[j]].risk
      BY <1>2, <1>7 DEF IsRanking
    <2> QED BY <2>1, <2>2, WorkItemFields
  <1>8. Descending'
    BY <1>5, <1>7 DEF Descending
  <1> QED BY <1>5, <1>6, <1>8

(* The part of the invariant that is about the queue alone.                *)
QueueTypeOK ==
    /\ ranked \in Seq(WorkItem)
    /\ considered \in 0 .. Len(ranked)
    /\ chosen \subseteq 1 .. considered
    /\ used \in Nat /\ skipped \in Nat
    /\ spent \in Seq(Nat) /\ Len(spent) = considered + 1

GreedySoFar ==
    /\ AddsUp
    /\ used = spent[considered + 1] /\ used <= Allowance
    /\ \A i \in 1 .. considered :
          i \notin chosen /\ ranked[i].risk >= Threshold => spent[i] + ranked[i].tokens > Allowance
    /\ \A i \in chosen : ranked[i].risk >= Threshold

LEMMA FreshQueue ==
    /\ ranked' \in Seq(WorkItem) /\ considered' = 0 /\ chosen' = {}
    /\ used' = 0 /\ skipped' = 0 /\ spent' = << 0 >>
    => QueueTypeOK' /\ GreedySoFar'
  <1> SUFFICES ASSUME ranked' \in Seq(WorkItem) /\ considered' = 0 /\ chosen' = {},
                      used' = 0 /\ skipped' = 0 /\ spent' = << 0 >>
               PROVE  QueueTypeOK' /\ GreedySoFar'
    OBVIOUS
  <1>1. Len(ranked') \in Nat
    BY LenProperties
  <1>2. << 0 >> \in Seq(Nat) /\ Len(<< 0 >>) = 1 /\ << 0 >>[1] = 0
    OBVIOUS
  <1>3. QueueTypeOK'
    BY <1>1, <1>2 DEF QueueTypeOK
  <1>4. GreedySoFar'
    BY <1>2, AllowanceAssumption DEF GreedySoFar, AddsUp
  <1> QED BY <1>3, <1>4

(* One item is considered: taken or skipped.                               *)
LEMMA SelectKeeps ==
    ASSUME QueueTypeOK, GreedySoFar, Take \/ Skip
    PROVE  QueueTypeOK' /\ GreedySoFar'
  <1> DEFINE k == considered + 1
  <1>1. /\ considered \in Nat /\ Len(ranked) \in Nat /\ k \in 1 .. Len(ranked)
        /\ considered' = k /\ ranked' = ranked
        /\ DOMAIN ranked = 1 .. Len(ranked)
    BY LenProperties DEF QueueTypeOK, Take, Skip, MoreItems, Considered
  <1>2. ranked[k] \in WorkItem
    BY <1>1, ElementOfSeq DEF QueueTypeOK
  <1>3. ranked[k].risk \in Nat /\ ranked[k].tokens \in Nat
    BY <1>2, WorkItemFields
  <1>4. /\ used' = used + (IF k \in chosen' THEN ranked[k].tokens ELSE 0)
        /\ used' \in Nat /\ skipped' \in Nat
        /\ chosen' \subseteq chosen \cup {k} /\ chosen \subseteq chosen'
        /\ used' <= Allowance
        /\ k \in chosen' => ranked[k].risk >= Threshold
        /\ k \notin chosen' /\ ranked[k].risk >= Threshold => used + ranked[k].tokens > Allowance
    <2>1. used \in Nat /\ skipped \in Nat /\ k \notin chosen /\ used <= Allowance
      BY <1>1 DEF QueueTypeOK, GreedySoFar
    <2>2. CASE Take
      <3>1. /\ used' = used + ranked[k].tokens /\ chosen' = chosen \cup {k}
            /\ skipped' = skipped
            /\ ranked[k].risk >= Threshold /\ used + ranked[k].tokens <= Allowance
        BY <2>2 DEF Take, Item, Fits
      <3> QED BY <3>1, <2>1, <1>3
    <2>3. CASE Skip
      <3>1. /\ used' = used /\ chosen' = chosen /\ skipped' = skipped + 1
            /\ ranked[k].risk < Threshold \/ ~(used + ranked[k].tokens <= Allowance)
        BY <2>3 DEF Skip, Item, Fits
      <3> QED BY <3>1, <2>1, <1>3, AllowanceAssumption
    <2> QED BY <2>2, <2>3
  <1>5. /\ spent' \in Seq(Nat) /\ Len(spent') = k + 1
        /\ \A i \in 1 .. k : spent'[i] = spent[i]
        /\ spent'[k + 1] = used'
    <2>1. spent' = Append(spent, used') /\ Len(spent) = k /\ spent \in Seq(Nat)
      BY DEF Take, Skip, Considered, QueueTypeOK
    <2> QED BY <2>1, <1>1, <1>4, AppendProperties
  <1>6. spent[k] = used
    BY DEF GreedySoFar
  <1>7. QueueTypeOK'
    <2>1. chosen' \subseteq 1 .. k
      BY <1>1, <1>4 DEF QueueTypeOK
    <2> QED BY <2>1, <1>1, <1>4, <1>5 DEF QueueTypeOK
  <1>8. ASSUME NEW i \in 1 .. considered
        PROVE  i \in 1 .. k /\ i + 1 \in 1 .. k /\ (i \in chosen' <=> i \in chosen)
    BY <1>1, <1>4
  <1>9. AddsUp'
    <2>1. spent'[1] = 0
      BY <1>1, <1>5 DEF GreedySoFar, AddsUp
    <2>2. ASSUME NEW i \in 1 .. k
          PROVE  spent'[i + 1] = spent'[i] + IF i \in chosen' THEN ranked[i].tokens ELSE 0
      <3>1. CASE i = k
        BY <3>1, <1>1, <1>4, <1>5, <1>6
      <3>2. CASE i # k
        <4>1. i \in 1 .. considered
          BY <3>2, <1>1
        <4>2. spent[i + 1] = spent[i] + IF i \in chosen THEN ranked[i].tokens ELSE 0
          BY <4>1 DEF GreedySoFar, AddsUp
        <4> QED BY <4>1, <4>2, <1>5, <1>8
      <3> QED BY <3>1, <3>2
    <2> QED BY <2>1, <2>2, <1>1 DEF AddsUp
  <1>10. ASSUME NEW i \in 1 .. k, i \notin chosen', ranked[i].risk >= Threshold
         PROVE  spent'[i] + ranked[i].tokens > Allowance
    <2>1. CASE i = k
      BY <2>1, <1>10, <1>4, <1>5, <1>6
    <2>2. CASE i # k
      <3>1. i \in 1 .. considered
        BY <2>2, <1>1
      <3> QED BY <3>1, <1>10, <1>5, <1>8 DEF GreedySoFar
    <2> QED BY <2>1, <2>2
  <1>11. ASSUME NEW i \in chosen' PROVE ranked[i].risk >= Threshold
    BY <1>4 DEF GreedySoFar
  <1>12. GreedySoFar'
    <2>1. used' = spent'[considered' + 1] /\ used' <= Allowance
      BY <1>1, <1>4, <1>5
    <2> QED BY <2>1, <1>1, <1>9, <1>10, <1>11 DEF GreedySoFar
  <1> QED BY <1>7, <1>12

-----------------------------------------------------------------------------
(* The invariant: the properties, and that a ranked queue is of the items  *)
(* found.                                                                  *)

ReadTypeOK ==
    /\ stage \in Stages
    /\ seen \subseteq Paragraphs \X Hashes
    /\ sources \in [Paragraphs -> Hashes]
    /\ unread \subseteq Paragraphs /\ judged \subseteq Paragraphs
    /\ found \in Seq(WorkItem)
    /\ triages \in Nat

WatchTypeOK ==
    /\ wasDue \subseteq Paragraphs /\ stayedDue \subseteq Paragraphs
    /\ edited \in BOOLEAN /\ marked \in BOOLEAN

QueueOfFound ==
    /\ stage \in {"select", "done"} => Range(ranked) = Range(found)
    /\ stage = "done" => considered = Len(ranked)

TriageInv == ReadTypeOK /\ WatchTypeOK /\ QueueTypeOK /\ Descending /\ GreedySoFar /\ QueueOfFound

LEMMA InvImplies == TriageInv => TriageTypeOK /\ FilledByRisk
  BY DEF TriageInv, ReadTypeOK, WatchTypeOK, QueueTypeOK, GreedySoFar, QueueOfFound,
     TriageTypeOK, FilledByRisk

LEMMA TriageInitInv == Init /\ TriageInit => TriageInv
  <1> SUFFICES ASSUME Init, TriageInit PROVE TriageInv
    OBVIOUS
  <1>1. source \in [Paragraphs -> Hashes]
    BY DEF Init
  <1>2. ReadTypeOK /\ WatchTypeOK
    BY <1>1, EmptySeq DEF TriageInit, TriageStarts, ReadTypeOK, WatchTypeOK, Stages
  <1>3. << 0 >> \in Seq(Nat) /\ Len(<< 0 >>) = 1 /\ << 0 >>[1] = 0
    OBVIOUS
  <1>4. ranked \in Seq(WorkItem) /\ Len(ranked) = 0
    BY EmptySeq DEF TriageInit, TriageStarts, NoQueue
  <1>5. QueueTypeOK /\ GreedySoFar
    BY <1>3, <1>4, AllowanceAssumption
       DEF TriageInit, TriageStarts, NoQueue, QueueTypeOK, GreedySoFar, AddsUp
  <1>6. Descending /\ QueueOfFound
    BY <1>4 DEF TriageInit, TriageStarts, NoQueue, Descending, QueueOfFound
  <1> QED BY <1>2, <1>5, <1>6 DEF TriageInv

LEMMA CandidatesTyped == Candidates \subseteq Paragraphs
  BY DEF Candidates

LEMMA TriageStepInv ==
    ASSUME TriageInv, TypeOK, [TriageNext]_allVars
    PROVE  TriageInv'
  <1> USE DEF TriageInv
  <1>20. ASSUME UNCHANGED queueVars
        PROVE  QueueTypeOK' /\ Descending' /\ GreedySoFar'
    BY <1>20 DEF queueVars, QueueTypeOK, Descending, GreedySoFar, AddsUp
  <1>1. CASE ReadEdges
    <2>1. ReadTypeOK' /\ WatchTypeOK' /\ QueueOfFound'
      <3>1. impl \subseteq Paragraphs \X Hashes /\ << >> \in Seq(WorkItem)
        BY EmptySeq DEF TypeOK
      <3>2. ReadTypeOK'
        BY <1>1, <3>1 DEF ReadEdges, ReadTypeOK, Stages
      <3>3. WatchTypeOK'
        BY <1>1, CandidatesTyped DEF ReadEdges, WatchTypeOK
      <3> QED BY <1>1, <3>2, <3>3 DEF ReadEdges, QueueOfFound
    <2> QED BY <1>1, <1>20, <2>1 DEF ReadEdges
  <1>2. CASE ReadNodes
    <2>1. ReadTypeOK' /\ WatchTypeOK' /\ QueueOfFound'
      <3>1. source \in [Paragraphs -> Hashes]
        BY DEF TypeOK
      <3> QED BY <1>2, <3>1 DEF ReadNodes, watchVars, ReadTypeOK, WatchTypeOK, QueueOfFound, Stages
    <2> QED BY <1>2, <1>20, <2>1 DEF ReadNodes
  <1>3. ASSUME NEW p \in unread, PassOver(p) \/ Suspect(p)
        PROVE  TriageInv'
    <2>1. ReadTypeOK' /\ WatchTypeOK' /\ QueueOfFound'
      BY <1>3 DEF PassOver, Suspect, watchVars, ReadTypeOK, WatchTypeOK, QueueOfFound, Stages
    <2> QED BY <1>3, <1>20, <2>1 DEF PassOver, Suspect
  <1>4. CASE Judge
    <2>1. PICK p \in judged : found' = Append(found, ItemFor(p, Reason(p)))
      BY <1>4 DEF Judge
    <2>2. p \in Paragraphs /\ Reason(p) \in {"stale", "changed"}
      BY DEF ReadTypeOK, Reason
    <2>3. ItemFor(p, Reason(p)) \in WorkItem
      BY <2>2, ItemTyped DEF ReadTypeOK
    <2>4. found' \in Seq(WorkItem)
      BY <2>1, <2>3, AppendProperties DEF ReadTypeOK
    <2>5. ReadTypeOK' /\ WatchTypeOK' /\ QueueOfFound'
      BY <1>4, <2>4 DEF Judge, watchVars, ReadTypeOK, WatchTypeOK, QueueOfFound, Stages
    <2> QED BY <1>4, <1>20, <2>5 DEF Judge
  <1>5. CASE RankFound
    <2>1. ReadTypeOK' /\ WatchTypeOK'
      BY <1>5 DEF RankFound, watchVars, ReadTypeOK, WatchTypeOK, Stages
    <2>2. ranked' \in Seq(WorkItem) /\ Range(ranked') = Range(found) /\ Descending'
      BY <1>5, RankPermutes DEF RankFound, ReadTypeOK
    <2>3. QueueTypeOK' /\ GreedySoFar'
      BY <1>5, <2>2, FreshQueue DEF RankFound, Rank
    <2>4. QueueOfFound'
      BY <1>5, <2>2 DEF RankFound, QueueOfFound
    <2> QED BY <2>1, <2>2, <2>3, <2>4
  <1>6. CASE Select1
    <2>1. ReadTypeOK' /\ WatchTypeOK'
      BY <1>6 DEF Select1, readVars, watchVars, ReadTypeOK, WatchTypeOK
    <2>2. QueueTypeOK' /\ GreedySoFar'
      BY <1>6, SelectKeeps DEF Select1
    <2>3. ranked' = ranked /\ stage = "select" /\ stage' = "select" /\ found' = found
      BY <1>6 DEF Select1, readVars, Take, Skip, Considered
    <2> QED BY <2>1, <2>2, <2>3 DEF Descending, QueueOfFound
  <1>7. CASE Report
    <2>1. ReadTypeOK' /\ WatchTypeOK'
      BY <1>7 DEF Report, watchVars, ReadTypeOK, WatchTypeOK, Stages
    <2>2. considered = Len(ranked)
      <3>1. considered \in 0 .. Len(ranked) /\ ~(considered < Len(ranked)) /\ Len(ranked) \in Nat
        BY <1>7, LenProperties DEF Report, MoreItems, QueueTypeOK
      <3> QED BY <3>1
    <2>3. QueueOfFound'
      BY <1>7, <2>2 DEF Report, QueueOfFound, queueVars
    <2> QED BY <1>7, <1>20, <2>1, <2>3 DEF Report
  <1>8. CASE Others
    <2>1. ReadTypeOK' /\ WatchTypeOK' /\ QueueOfFound'
      <3>1. ReadTypeOK'
        BY <1>8 DEF Others, readVars, ReadTypeOK
      <3>2. wasDue' \subseteq Paragraphs /\ stayedDue' \subseteq Paragraphs
        BY <1>8 DEF Others, Watch, WatchTypeOK, Candidates
      <3>3. edited' \in BOOLEAN /\ marked' \in BOOLEAN
        BY <1>8 DEF Others, Watch, WatchTypeOK
      <3>4. QueueOfFound'
        BY <1>8 DEF Others, readVars, queueVars, QueueOfFound
      <3> QED BY <3>1, <3>2, <3>3, <3>4 DEF WatchTypeOK
    <2> QED BY <1>8, <1>20, <2>1 DEF Others
  <1>9. CASE UNCHANGED allVars
    BY <1>9, <1>20 DEF allVars, triageVars, readVars, watchVars, ReadTypeOK, WatchTypeOK,
       QueueOfFound, queueVars
  <1> QED BY <1>1, <1>2, <1>3, <1>4, <1>5, <1>6, <1>7, <1>8, <1>9 DEF TriageNext, TriageStep

(* What triage reads and reports keeps its shape, whatever the others do;  *)
(* a score stays within its cap.                                           *)
THEOREM TriageTyped == TriageSpec => []TriageTypeOK
  BY TriageInitInv, TriageStepInv, InvImplies, TriageOnlyReads, TypeCorrect, PTL
     DEF TriageSpec

(* The queue is filled by risk, within the allowance and to the last item  *)
(* found, for every threshold, allowance and length of the list.           *)
THEOREM QueueFilledByRisk == TriageSpec => []FilledByRisk
  BY TriageInitInv, TriageStepInv, InvImplies, TriageOnlyReads, TypeCorrect, PTL
     DEF TriageSpec

-----------------------------------------------------------------------------
(* Listed and due.                                                         *)

(* No edge is ever taken away.                                             *)
LEMMA ImplKept == [Next]_vars => impl \subseteq impl'
  <1> SUFFICES ASSUME [Next]_vars PROVE impl \subseteq impl'
    OBVIOUS
  <1>1. CASE UNCHANGED vars
    BY <1>1 DEF vars, storeVars
  <1>2. ASSUME NEW w \in Workers, Start(w) \/ Work(w) \/ Crash(w)
        PROVE  impl \subseteq impl'
    BY <1>2 DEF Start, Work, Crash, AddItem, Recover, Select, Stop, Claim, Reuse, Miss,
       Answer, Fail, AddRule, AddEdge, PutCache, MarkDone, storeVars
  <1>3. CASE ReviewStep \/ Abandon
    BY <1>3 DEF ReviewStep, Abandon, WriteNode, VerifyCache, EditCache, Settle, storeVars
  <1>4. ASSUME NEW c \in Commands, NEW h \in Hashes, Resolve(c, h)
        PROVE  impl \subseteq impl'
    BY <1>4 DEF Resolve, storeVars
  <1>5. ASSUME NEW p \in Paragraphs, NEW h \in Hashes, Extract(p, h)
        PROVE  impl \subseteq impl'
    BY <1>5 DEF Extract
  <1> QED BY <1>1, <1>2, <1>3, <1>4, <1>5 DEF Next

(* A paragraph without an edge to the rule of its text is due.             *)
LEMMA NoEdgeIsDue ==
    ASSUME NEW p \in Paragraphs, <<p, source[p]>> \notin impl
    PROVE  p \in Candidates
  BY DEF Candidates, Current, RulesOf

(* What triage has seen is what was there when it began; what it has of    *)
(* the texts is what is there now; a paragraph that became current since   *)
(* was due before.                                                         *)
SeenInv ==
    Reading =>
        /\ seen \subseteq impl
        /\ stayedDue \subseteq Candidates
        /\ Candidates \subseteq wasDue
        /\ ~edited => /\ stage # "nodes" => sources = source
                      /\ \A p \in Paragraphs :
                            <<p, source[p]>> \in impl \ seen => p \in wasDue

(* The paragraph about to be judged was due, and if it had a rule of its   *)
(* text, that rule was stale.                                              *)
JudgedInv ==
    stage = "judge" /\ ~edited =>
        \A p \in judged :
            /\ p \in wasDue
            /\ ~marked /\ <<p, sources[p]>> \in seen => IsStale(cache, sources[p])

(* Nothing due all the time has got lost on the way.                       *)
Listed(p) == \E item \in Range(found) : item.para = p

PendingInv ==
    /\ stage # "judge" => judged = {}
    /\ \A p, q \in judged : p = q
    /\ stage \in {"scan", "judge"} /\ ~edited =>
          \A p \in stayedDue : HasRules(p) => p \in unread \cup judged \/ Listed(p)

DueInv == SeenInv /\ JudgedInv /\ PendingInv /\ ListedWasDue /\ DueIsListed

LEMMA TriageInitDue == Init /\ TriageInit => DueInv
  BY DEF TriageInit, TriageStarts, Reading, DueInv, SeenInv, JudgedInv, PendingInv,
     ListedWasDue, DueIsListed

(* A paragraph that seems current is, if its text is the one read.         *)
LEMMA SeemsIsCurrent ==
    ASSUME seen \subseteq impl, sources = source, NEW p \in Paragraphs
    PROVE  SeemsCurrent(p) => p \notin Candidates
  BY DEF SeemsCurrent, RulesSeen, Candidates, Current, RulesOf

(* A paragraph that does not seem current has no rule of its text among    *)
(* those seen, or a stale one.                                             *)
LEMMA SuspectIsStale ==
    ASSUME TypeOK, Grounded, seen \subseteq impl, NEW p \in Paragraphs,
           sources[p] \in Hashes, ~SeemsCurrent(p), <<p, sources[p]>> \in seen
    PROVE  IsRule(sources[p]) /\ IsStale(cache, sources[p])
  <1>1. IsRule(sources[p])
    BY DEF Grounded
  <1> QED BY <1>1 DEF SeemsCurrent, RulesSeen

LEMMA OthersKeepDue ==
    ASSUME TriageInv, DueInv, TypeOK, Others
    PROVE  DueInv'
  <1>1. /\ [Next]_vars /\ Watch
        /\ UNCHANGED <<stage, seen, sources, unread, judged, found>>
    BY DEF Others, readVars
  <1>2. Reading' = Reading
    BY <1>1 DEF Reading
  <1>3. impl \subseteq impl'
    BY <1>1, ImplKept
  <1>4. edited => edited'
    BY <1>1 DEF Watch
  <1>5. wasDue \subseteq wasDue' /\ stayedDue' \subseteq stayedDue
    BY <1>1 DEF Watch
  <1>6. SeenInv'
    <2> SUFFICES ASSUME Reading PROVE SeenInv'
      BY <1>2 DEF SeenInv
    <2>1. seen' \subseteq impl' /\ stayedDue' \subseteq Candidates' /\ Candidates' \subseteq wasDue'
      BY <1>1, <1>3 DEF Watch, DueInv, SeenInv
    <2>2. ASSUME ~edited'
          PROVE  /\ stage' # "nodes" => sources' = source'
                 /\ \A p \in Paragraphs : <<p, source'[p]>> \in impl' \ seen' => p \in wasDue'
      <3>1. source' = source /\ ~edited
        BY <2>2, <1>1 DEF Watch
      <3>2. stage' # "nodes" => sources' = source'
        BY <3>1, <1>1 DEF DueInv, SeenInv
      <3>3. ASSUME NEW p \in Paragraphs, <<p, source[p]>> \in impl' \ seen
            PROVE  p \in wasDue'
        <4>1. CASE <<p, source[p]>> \in impl
          BY <4>1, <3>1, <3>3, <1>5 DEF DueInv, SeenInv
        <4>2. CASE <<p, source[p]>> \notin impl
          BY <4>2, NoEdgeIsDue, <1>5 DEF DueInv, SeenInv
        <4> QED BY <4>1, <4>2
      <3> QED BY <3>1, <3>2, <3>3, <1>1
    <2> QED BY <2>1, <2>2, <1>2 DEF SeenInv
  <1>7. JudgedInv'
    <2> SUFFICES ASSUME stage = "judge", ~edited', NEW p \in judged
                 PROVE  /\ p \in wasDue'
                        /\ ~marked' /\ <<p, sources[p]>> \in seen => IsStale(cache', sources[p])
      BY <1>1 DEF JudgedInv
    <2>1. ~edited /\ p \in wasDue'
      BY <1>4, <1>5 DEF DueInv, JudgedInv
    <2>2. ASSUME ~marked', <<p, sources[p]>> \in seen
          PROVE  IsStale(cache', sources[p])
      <3>1. sources[p] \in Hashes
        BY DEF TriageInv, ReadTypeOK
      <3>2. ~marked /\ cache'[sources[p]].stale = cache[sources[p]].stale
        BY <2>2, <3>1, <1>1 DEF Watch, Reading
      <3>3. IsStale(cache, sources[p])
        BY <2>1, <2>2, <3>2 DEF DueInv, JudgedInv
      <3>4. IsCached(cache, sources[p])'
        BY <3>1, <3>3, <1>1, CachedKept DEF IsStale
      <3>5. IsCached(cache', sources[p])
        BY <3>4, <1>1
      <3> QED BY <3>2, <3>3, <3>5 DEF IsStale
    <2> QED BY <2>1, <2>2
  <1>8. PendingInv'
    BY <1>1, <1>4, <1>5 DEF DueInv, PendingInv, HasRules, Listed, Range
  <1>9. marked => marked'
    BY <1>1 DEF Watch
  <1>10. ListedWasDue' /\ DueIsListed'
    BY <1>1, <1>4, <1>5, <1>9 DEF DueInv, ListedWasDue, DueIsListed, HasRules
  <1> QED BY <1>6, <1>7, <1>8, <1>10 DEF DueInv

LEMMA TriageKeepsDue ==
    ASSUME TriageInv, DueInv, TypeOK, Grounded, TriageStep
    PROVE  DueInv'
  <1> USE DEF DueInv
  <1>0. found \in Seq(WorkItem) /\ unread \subseteq Paragraphs /\ judged \subseteq Paragraphs
        /\ sources \in [Paragraphs -> Hashes]
    BY DEF TriageInv, ReadTypeOK
  <1>1. CASE ReadEdges
    <2>1. /\ stage' = "nodes" /\ seen' = impl /\ found' = << >> /\ judged' = judged
          /\ wasDue' = Candidates /\ stayedDue' = Candidates
          /\ UNCHANGED vars
      BY <1>1 DEF ReadEdges
    <2>2. Candidates' = Candidates /\ source' = source /\ impl' = impl
      BY <2>1 DEF vars, storeVars, Candidates, Current, RulesOf, IsRule
    <2>3. judged = {}
      BY <1>1 DEF ReadEdges, PendingInv
    <2>4. Range(<< >>) = {}
      BY DEF Range
    <2> QED BY <2>1, <2>2, <2>3, <2>4
            DEF SeenInv, JudgedInv, PendingInv, ListedWasDue, DueIsListed
  <1> DEFINE Same == /\ UNCHANGED <<impl, cache, source, rules>>
                     /\ UNCHANGED <<seen, wasDue, stayedDue, edited, marked>>
                     /\ Candidates' = Candidates
  <1>2. ASSUME UNCHANGED vars, UNCHANGED watchVars, seen' = seen
        PROVE  Same
    BY <1>2 DEF vars, storeVars, watchVars, Candidates, Current, RulesOf, IsRule
  <1> HIDE DEF Same
  <1>21. ASSUME Same, found' = found, stage # "off"
        PROVE  ListedWasDue'
    BY <1>21 DEF Same, ListedWasDue, Range
  <1>22. ASSUME Same, stage \in {"scan", "judge"}, stage' \in {"scan", "judge"},
               sources' = sources
        PROVE  SeenInv'
    <2>1. Reading /\ stage # "nodes"
      BY <1>22 DEF Reading
    <2>2. /\ seen' \subseteq impl' /\ stayedDue' \subseteq Candidates'
          /\ Candidates' \subseteq wasDue'
      BY <1>22, <2>1 DEF Same, SeenInv
    <2>3. ASSUME ~edited'
          PROVE  sources' = source' /\ \A p \in Paragraphs :
                    <<p, source'[p]>> \in impl' \ seen' => p \in wasDue'
      BY <1>22, <2>1, <2>3 DEF Same, SeenInv
    <2> QED BY <2>2, <2>3 DEF SeenInv
  <1>3. CASE ReadNodes
    <2>1. Same
      BY <1>3, <1>2 DEF ReadNodes
    <2>2. /\ stage = "nodes" /\ stage' = "scan" /\ sources' = source
          /\ unread' = Paragraphs /\ judged' = judged /\ found' = found
      BY <1>3 DEF ReadNodes
    <2>3. stayedDue \subseteq Paragraphs
      BY DEF TriageInv, WatchTypeOK
    <2> QED BY <2>1, <2>2, <2>3
            DEF Same, Reading, SeenInv, JudgedInv, PendingInv, ListedWasDue, DueIsListed,
                HasRules, Range
  <1>4. ASSUME NEW p \in unread, PassOver(p)
        PROVE  DueInv'
    <2>1. Same
      BY <1>4, <1>2 DEF PassOver
    <2>2. /\ stage = "scan" /\ stage' = "scan" /\ sources' = sources
          /\ unread' = unread \ {p} /\ judged' = judged /\ found' = found
          /\ ~HasRules(p) \/ SeemsCurrent(p)
      BY <1>4 DEF PassOver
    <2>3. ~edited /\ HasRules(p) => p \notin stayedDue
      BY <2>2, <1>0, SeemsIsCurrent DEF SeenInv, Reading
    <2> QED BY <2>1, <2>2, <2>3
            DEF Same, Reading, SeenInv, JudgedInv, PendingInv, ListedWasDue, DueIsListed,
                HasRules, Listed, Range
  <1>5. ASSUME NEW p \in unread, Suspect(p)
        PROVE  DueInv'
    <2>1. Same
      BY <1>5, <1>2 DEF Suspect
    <2>2. /\ stage = "scan" /\ stage' = "judge" /\ sources' = sources
          /\ unread' = unread \ {p} /\ judged' = {p} /\ found' = found
          /\ ~SeemsCurrent(p)
      BY <1>5 DEF Suspect
    <2>3. p \in Paragraphs /\ sources[p] \in Hashes
      BY <1>0
    <2>4. ASSUME ~edited
          PROVE  p \in wasDue
      <3>1. sources = source /\ seen \subseteq impl
        BY <2>2, <2>4 DEF SeenInv, Reading
      <3>2. CASE p \in Candidates
        BY <3>2, <2>2 DEF SeenInv, Reading
      <3>3. CASE p \notin Candidates
        <4>1. <<p, source[p]>> \in impl /\ IsRule(source[p]) /\ ~IsStale(cache, source[p])
          BY <3>3, <2>3 DEF Candidates, Current, RulesOf
        <4>2. <<p, source[p]>> \notin seen
          BY <4>1, <3>1, <2>2, <2>3 DEF SeemsCurrent, RulesSeen
        <4> QED BY <4>1, <4>2, <2>2, <2>3, <2>4 DEF SeenInv, Reading
      <3> QED BY <3>2, <3>3
    <2>5. <<p, sources[p]>> \in seen => IsStale(cache, sources[p])
      BY <2>2, <2>3, SuspectIsStale DEF SeenInv, Reading
    <2>6. JudgedInv'
      BY <2>1, <2>2, <2>4, <2>5 DEF Same, JudgedInv
    <2>7. PendingInv'
      BY <2>1, <2>2 DEF Same, PendingInv, HasRules, Listed, Range
    <2>8. SeenInv' /\ ListedWasDue' /\ DueIsListed'
      BY <2>1, <2>2, <1>21, <1>22 DEF Reading, DueIsListed
    <2> QED BY <2>6, <2>7, <2>8
  <1>6. CASE Judge
    <2>1. Same
      BY <1>6, <1>2 DEF Judge
    <2>2. PICK p \in judged : found' = Append(found, ItemFor(p, Reason(p)))
      BY <1>6 DEF Judge
    <2>3. /\ stage = "judge" /\ stage' = "scan" /\ sources' = sources
          /\ unread' = unread /\ judged' = {}
      BY <1>6 DEF Judge
    <2> DEFINE item == ItemFor(p, Reason(p))
    <2>4. /\ item.para = p /\ item.hash = sources[p] /\ item.reason = Reason(p)
          /\ p \in Paragraphs /\ sources[p] \in Hashes
      BY <1>0 DEF ItemFor
    <2>5. item \in WorkItem
      BY <1>0, <2>4, ItemTyped DEF Reason
    <2> HIDE DEF item
    <2>6. Range(found') = Range(found) \cup {item}
      <3>1. found' = Append(found, item) /\ Len(found) \in Nat
        BY <2>2, <1>0, LenProperties DEF item
      <3>2. /\ DOMAIN found = 1 .. Len(found) /\ DOMAIN found' = 1 .. Len(found) + 1
            /\ \A i \in 1 .. Len(found) : found'[i] = found[i]
            /\ found'[Len(found) + 1] = item
        BY <3>1, <1>0, <2>5, AppendProperties, LenProperties
      <3> QED BY <3>1, <3>2 DEF Range
    <2>7. ASSUME ~edited
          PROVE  /\ p \in wasDue
                 /\ item.reason = "changed" /\ ~marked => <<p, sources[p]>> \notin seen
      <3>1. p \in wasDue
        BY <2>3, <2>7 DEF JudgedInv
      <3>2. ASSUME ~marked, <<p, sources[p]>> \in seen
            PROVE  item.reason # "changed"
        <4>1. IsStale(cache, sources[p])
          BY <2>3, <2>7, <3>2 DEF JudgedInv
        <4>2. sources[p] \in RulesSeen(p)
          BY <2>3, <2>4, <3>2 DEF Grounded, SeenInv, Reading, RulesSeen
        <4> QED BY <4>1, <4>2, <2>4 DEF Reason
      <3> QED BY <3>1, <3>2
    <2>8. ListedWasDue'
      BY <2>1, <2>3, <2>4, <2>6, <2>7 DEF Same, ListedWasDue
    <2>9. PendingInv'
      <3> SUFFICES ASSUME ~edited, NEW q \in stayedDue, HasRules(q)
                   PROVE  q \in unread \/ \E it \in Range(found') : it.para = q
        BY <2>1, <2>3 DEF Same, PendingInv, HasRules, Listed
      <3>1. q \in unread \cup judged \/ Listed(q)
        BY <2>3 DEF PendingInv
      <3>2. judged = {p}
        BY <2>2 DEF PendingInv
      <3> QED BY <3>1, <3>2, <2>4, <2>6 DEF Listed
    <2> QED BY <2>1, <2>3, <2>8, <2>9
            DEF Same, Reading, SeenInv, JudgedInv, DueIsListed
  <1>7. CASE RankFound
    <2>1. Same
      BY <1>7, <1>2 DEF RankFound
    <2>2. /\ stage = "scan" /\ stage' = "select" /\ unread = {} /\ judged = {} /\ found' = found
          /\ sources' = sources
      BY <1>7 DEF RankFound, PendingInv
    <2>3. DueIsListed'
      BY <2>1, <2>2 DEF Same, PendingInv, DueIsListed, HasRules, Listed, Range
    <2>4. ListedWasDue'
      BY <2>1, <2>2, <1>21
    <2> QED BY <2>2, <2>3, <2>4, <1>7 DEF RankFound, Reading, SeenInv, JudgedInv, PendingInv
  <1>8. CASE Select1 \/ Report
    <2>1. Same
      BY <1>8, <1>2 DEF Select1, Report, readVars
    <2>2. stage = "select" /\ stage' \in {"select", "done"} /\ found' = found /\ judged' = judged
      BY <1>8 DEF Select1, Report, readVars
    <2>3. DueIsListed'
      BY <2>1, <2>2 DEF Same, DueIsListed, HasRules, Range
    <2>4. ListedWasDue'
      BY <2>1, <2>2, <1>21
    <2> QED BY <2>2, <2>3, <2>4 DEF Reading, SeenInv, JudgedInv, PendingInv
  <1> QED BY <1>1, <1>3, <1>4, <1>5, <1>6, <1>7, <1>8 DEF TriageStep

LEMMA TriageStepDue ==
    ASSUME TriageInv, DueInv, TypeOK, Grounded, [TriageNext]_allVars
    PROVE  DueInv'
  <1>1. CASE UNCHANGED allVars
    <2>1. /\ UNCHANGED <<impl, cache, source, rules>>
          /\ UNCHANGED <<stage, seen, sources, unread, judged, found>>
          /\ UNCHANGED <<wasDue, stayedDue, edited, marked>>
      BY <1>1 DEF allVars, vars, storeVars, triageVars, readVars, watchVars
    <2>2. Candidates' = Candidates
      BY <2>1 DEF Candidates, Current, RulesOf, IsRule
    <2>3. SeenInv' /\ JudgedInv'
      BY <2>1, <2>2 DEF DueInv, SeenInv, JudgedInv, Reading
    <2>4. PendingInv' /\ ListedWasDue' /\ DueIsListed'
      BY <2>1 DEF DueInv, PendingInv, ListedWasDue, DueIsListed, HasRules, Listed
    <2> QED BY <2>3, <2>4 DEF DueInv
  <1> QED BY <1>1, TriageKeepsDue, OthersKeepDue DEF TriageNext

(* An item triage lists was due some time while it ran, however many       *)
(* processes narrate, crash and review while it reads.                     *)
THEOREM WhatIsListedWasDue == TriageSpec => []ListedWasDue
  <1>1. DueInv => ListedWasDue
    BY DEF DueInv
  <1> QED
    BY <1>1, TriageInitInv, TriageStepInv, TriageInitDue, TriageStepDue, TriageOnlyReads,
       TypeCorrect, GroundedAlways, PTL DEF TriageSpec

(* A paragraph that had a rule and was due all the time is listed.         *)
THEOREM WhatIsDueIsListed == TriageSpec => []DueIsListed
  <1>1. DueInv => DueIsListed
    BY DEF DueInv
  <1> QED
    BY <1>1, TriageInitInv, TriageStepInv, TriageInitDue, TriageStepDue, TriageOnlyReads,
       TypeCorrect, GroundedAlways, PTL DEF TriageSpec

===============================================================================
