-------------------------- MODULE EnrichmentProofs --------------------------
(***************************************************************************)
(* Theorems about Enrichment, for every set of paragraphs, hashes and      *)
(* workers, every budget and every bound on the events.                    *)
(***************************************************************************)
EXTENDS Enrichment, SequenceTheorems, TLAPS

-----------------------------------------------------------------------------
(* What the statements on enrichment_queue return, for every queue.        *)

(* A function on 1 .. Len(q) with values in S is a sequence over S, of the *)
(* same length as q.                                                       *)
LEMMA SameLength ==
    ASSUME NEW R, NEW q \in Seq(R), NEW S, NEW f \in [DOMAIN q -> S]
    PROVE  f \in Seq(S) /\ Len(f) = Len(q) /\ DOMAIN f = DOMAIN q
<1>1. Len(q) \in Nat /\ DOMAIN q = 1 .. Len(q)
  BY LenProperties
<1>2. f \in Seq(S)
  BY <1>1, SeqDef
<1>3. DOMAIN f = 1 .. Len(f) /\ Len(f) \in Nat
  BY <1>2, LenProperties
<1>4. 1 .. Len(f) = 1 .. Len(q)
  BY <1>1, <1>3
<1> QED
  BY <1>1, <1>2, <1>3, <1>4

(* add appends one pending row and leaves the others as they are.          *)
LEMMA AddedProperties ==
    ASSUME NEW q \in Seq(QueueRow), NEW p \in Paragraphs, NEW r \in Risks
    PROVE  /\ Added(q, p, r) \in Seq(QueueRow)
           /\ Len(Added(q, p, r)) = Len(q) + 1
           /\ DOMAIN Added(q, p, r) = 1 .. Len(q) + 1
           /\ \A i \in DOMAIN q : Added(q, p, r)[i] = q[i]
           /\ Added(q, p, r)[Len(q) + 1] = [para |-> p, risk |-> r, status |-> "pending"]
<1> DEFINE e == [para |-> p, risk |-> r, status |-> "pending"]
<1>1. e \in QueueRow
  BY DEF QueueRow, Status
<1>2. Added(q, p, r) = Append(q, e)
  BY DEF Added
<1>3. Append(q, e) \in Seq(QueueRow)
  BY <1>1, AppendProperties
<1> HIDE DEF e
<1> QED
  BY <1>1, <1>2, <1>3, AppendProperties, LenProperties DEF e

(* The UPDATEs change the status of one row and nothing else.              *)
LEMMA SetStatusProperties ==
    ASSUME NEW q \in Seq(QueueRow), NEW i \in DOMAIN q, NEW s \in Status
    PROVE  /\ SetStatus(q, i, s) \in Seq(QueueRow)
           /\ Len(SetStatus(q, i, s)) = Len(q)
           /\ DOMAIN SetStatus(q, i, s) = DOMAIN q
           /\ \A j \in DOMAIN q : SetStatus(q, i, s)[j] =
                 [para |-> q[j].para, risk |-> q[j].risk,
                  status |-> IF j = i THEN s ELSE q[j].status]
<1>1. q \in [DOMAIN q -> QueueRow]
  BY LenProperties
<1>2. SetStatus(q, i, s) \in [DOMAIN q -> QueueRow]
  BY <1>1 DEF SetStatus, QueueRow
<1>3. \A j \in DOMAIN q : SetStatus(q, i, s)[j] =
         [para |-> q[j].para, risk |-> q[j].risk, status |-> IF j = i THEN s ELSE q[j].status]
  BY <1>1 DEF SetStatus, QueueRow
<1> QED
  BY <1>2, <1>3, SameLength

(* reset_in_progress changes the claimed rows and no others.               *)
LEMMA ResetProperties ==
    ASSUME NEW q \in Seq(QueueRow)
    PROVE  /\ ResetInProgress(q) \in Seq(QueueRow)
           /\ Len(ResetInProgress(q)) = Len(q)
           /\ DOMAIN ResetInProgress(q) = DOMAIN q
           /\ \A j \in DOMAIN q : ResetInProgress(q)[j] =
                 [para |-> q[j].para, risk |-> q[j].risk,
                  status |-> IF q[j].status = "in_progress" THEN "pending" ELSE q[j].status]
<1>1. q \in [DOMAIN q -> QueueRow]
  BY LenProperties
<1>2. ResetInProgress(q) \in [DOMAIN q -> QueueRow]
  BY <1>1 DEF ResetInProgress, QueueRow, Status
<1>3. \A j \in DOMAIN q : ResetInProgress(q)[j] =
         [para |-> q[j].para, risk |-> q[j].risk,
          status |-> IF q[j].status = "in_progress" THEN "pending" ELSE q[j].status]
  BY <1>1 DEF ResetInProgress, QueueRow
<1> QED
  BY <1>2, <1>3, SameLength

(* What each statement does to the set of claimed rows.                    *)
LEMMA ClaimedRows ==
    ASSUME NEW q \in Seq(QueueRow)
    PROVE  /\ \A p \in Paragraphs, r \in Risks :
                 RowsIn(Added(q, p, r), "in_progress") = RowsIn(q, "in_progress")
           /\ RowsIn(ResetInProgress(q), "in_progress") = {}
           /\ \A i \in DOMAIN q :
                 /\ RowsIn(SetStatus(q, i, "in_progress"), "in_progress") =
                       RowsIn(q, "in_progress") \cup {i}
                 /\ \A s \in {"pending", "done"} :
                       RowsIn(SetStatus(q, i, s), "in_progress") = RowsIn(q, "in_progress") \ {i}
<1>1. ASSUME NEW p \in Paragraphs, NEW r \in Risks
      PROVE  RowsIn(Added(q, p, r), "in_progress") = RowsIn(q, "in_progress")
  <2>1. DOMAIN q = 1 .. Len(q) /\ Len(q) \in Nat
    BY LenProperties
  <2>2. /\ DOMAIN Added(q, p, r) = 1 .. Len(q) + 1
        /\ \A i \in DOMAIN q : Added(q, p, r)[i] = q[i]
        /\ Added(q, p, r)[Len(q) + 1] = [para |-> p, risk |-> r, status |-> "pending"]
    BY AddedProperties
  <2>3. DOMAIN Added(q, p, r) = DOMAIN q \cup {Len(q) + 1}
    BY <2>1, <2>2
  <2>4. /\ Added(q, p, r)[Len(q) + 1].status = "pending"
        /\ \A i \in DOMAIN q : Added(q, p, r)[i].status = q[i].status
    BY <2>2
  <2> QED
    BY <2>3, <2>4 DEF RowsIn
<1>2. RowsIn(ResetInProgress(q), "in_progress") = {}
  <2>1. /\ DOMAIN ResetInProgress(q) = DOMAIN q
        /\ \A j \in DOMAIN q : ResetInProgress(q)[j] =
              [para |-> q[j].para, risk |-> q[j].risk,
               status |-> IF q[j].status = "in_progress" THEN "pending" ELSE q[j].status]
    BY ResetProperties
  <2>2. \A j \in DOMAIN q : ResetInProgress(q)[j].status # "in_progress"
    BY <2>1
  <2> QED
    BY <2>1, <2>2 DEF RowsIn
<1>3. ASSUME NEW i \in DOMAIN q, NEW s \in Status
      PROVE  RowsIn(SetStatus(q, i, s), "in_progress") =
                IF s = "in_progress" THEN RowsIn(q, "in_progress") \cup {i}
                                     ELSE RowsIn(q, "in_progress") \ {i}
  <2>1. /\ DOMAIN SetStatus(q, i, s) = DOMAIN q
        /\ \A j \in DOMAIN q : SetStatus(q, i, s)[j] =
              [para |-> q[j].para, risk |-> q[j].risk,
               status |-> IF j = i THEN s ELSE q[j].status]
    BY SetStatusProperties
  <2>2. \A j \in DOMAIN q :
           SetStatus(q, i, s)[j].status = IF j = i THEN s ELSE q[j].status
    BY <2>1
  <2> QED
    BY <2>1, <2>2 DEF RowsIn
<1> QED
  BY <1>1, <1>2, <1>3 DEF Status


-----------------------------------------------------------------------------
(* Type correctness.  One lemma per kind of step.                          *)

USE BlankAssumption, RisksAssumption, EnrichmentAssumption
    DEF storeVars, workerVars, ghostVars

LEMMA InitTypeOK == Init => TypeOK
<1> SUFFICES ASSUME Init PROVE TypeOK
  OBVIOUS
<1>1. queue \in Seq(QueueRow) /\ texts \in Seq(SUBSET Hashes) /\ Len(texts) = Len(queue)
  BY EmptySeq DEF Init
<1>2. review \in Review \cup {NoReview}
  BY DEF Init, InitProcesses
<1>3. rules \in [Hashes -> Rule] /\ cache \in [Hashes -> CacheRow]
  BY DEF Init, NoRules, NoRows, NoRule, NoRow, Rule, CacheRow
<1> QED
  BY <1>1, <1>2, <1>3 DEF Init, InitProcesses, TypeOK, Nothing, PC, Job, NoJob,
     HasRow, HasHash, HasDraft

(* The statements on narration_cache keep its shape, and what is cached    *)
(* stays cached.                                                           *)
LEMMA PutType ==
    ASSUME NEW c \in [Hashes -> CacheRow], NEW h \in Hashes, NEW t \in Texts, NEW v \in BOOLEAN
    PROVE  /\ Put(c, h, t, v) \in [Hashes -> CacheRow]
           /\ \A g \in Hashes : Put(c, h, t, v)[g] =
                 IF g = h THEN [text |-> t, verified |-> v, stale |-> FALSE] ELSE c[g]
  BY DEF Put, CacheRow

LEMMA MarkVerifiedType ==
    ASSUME NEW c \in [Hashes -> CacheRow], NEW h \in Hashes
    PROVE  /\ MarkVerified(c, h) \in [Hashes -> CacheRow]
           /\ \A g \in Hashes : /\ MarkVerified(c, h)[g].text = c[g].text
                               /\ MarkVerified(c, h)[g].stale = c[g].stale
  BY DEF MarkVerified, CacheRow

LEMMA MarkStaleType ==
    ASSUME NEW c \in [Hashes -> CacheRow], NEW h \in Hashes, NEW s \in BOOLEAN
    PROVE  /\ MarkStale(c, h, s) \in [Hashes -> CacheRow]
           /\ \A g \in Hashes :
                 /\ MarkStale(c, h, s)[g].text = c[g].text
                 /\ MarkStale(c, h, s)[g].stale =
                       IF g = h /\ IsCached(c, h) THEN s ELSE c[g].stale
  BY DEF MarkStale, CacheRow

LEMMA HappensType ==
    ASSUME count \in [Events -> Nat], NEW e \in Events, Happens(e)
    PROVE  count' \in [Events -> Nat]
  BY DEF Happens

LEMMA EventNames == {"start", "crash", "review", "extract"} = Events
  BY DEF Events

(* The steps of a worker on the queue.                                     *)
LEMMA QueueStepTypeOK ==
    ASSUME TypeOK, NEW w \in Workers,
           \/ AddItem(w) \/ Recover(w) \/ Claim(w) \/ Fail(w) \/ MarkDone(w)
    PROVE  TypeOK'
<1>1. CASE AddItem(w)
  <2>1. PICK p \in todo[w], r \in Risks :
          /\ queue' = Added(queue, p, r)
          /\ texts' = Append(texts, {source[p]})
          /\ todo' = [todo EXCEPT ![w] = @ \ {p}]
    BY <1>1 DEF AddItem
  <2>2. p \in Paragraphs /\ source[p] \in Hashes
    BY DEF TypeOK
  <2>3. /\ queue' \in Seq(QueueRow)
        /\ Len(queue') = Len(queue) + 1
        /\ DOMAIN queue' = 1 .. Len(queue) + 1
        /\ DOMAIN queue = 1 .. Len(queue)
        /\ Len(queue) \in Nat
    BY <2>1, <2>2, AddedProperties, LenProperties DEF TypeOK
  <2>4. texts' \in Seq(SUBSET Hashes) /\ Len(texts') = Len(texts) + 1
    BY <2>1, <2>2, AppendProperties DEF TypeOK
  <2>5. todo' \in [Workers -> SUBSET Paragraphs] /\ Len(texts') = Len(queue')
    BY <2>1, <2>3, <2>4 DEF TypeOK
  <2>6. DOMAIN queue \subseteq DOMAIN queue'
    BY <2>3
  <2>7. UNCHANGED <<source, rules, impl, cache, pc, job, tokens, review, count, paid, pardons>>
    BY <1>1 DEF AddItem
  <2>8. \A v \in Workers : /\ HasRow(v)' => job'[v].row \in DOMAIN queue'
                           /\ HasHash(v)' => job'[v].hash \in Hashes
                           /\ HasDraft(v)' => job'[v].draft \in Narrations
    BY <2>6, <2>7 DEF TypeOK, HasRow, HasHash, HasDraft
  <2> QED
    BY <2>3, <2>4, <2>5, <2>7, <2>8 DEF TypeOK
<1>2. CASE Recover(w)
  <2>1. queue' \in Seq(QueueRow) /\ Len(queue') = Len(queue) /\ DOMAIN queue' = DOMAIN queue
    BY <1>2, ResetProperties DEF Recover, TypeOK
  <2> QED
    BY <1>2, <2>1 DEF Recover, TypeOK, Goto, PC, HasRow, HasHash, HasDraft
<1>3. CASE Claim(w)
  <2>1. queue' \in Seq(QueueRow) /\ Len(queue') = Len(queue) /\ DOMAIN queue' = DOMAIN queue
    BY <1>3, SetStatusProperties DEF Claim, TypeOK, HasRow, Status
  <2> QED
    BY <1>3, <2>1 DEF Claim, TypeOK, Goto, PC, HasRow, HasHash, HasDraft
<1>4. CASE Fail(w)
  <2>1. queue' \in Seq(QueueRow) /\ Len(queue') = Len(queue) /\ DOMAIN queue' = DOMAIN queue
    BY <1>4, SetStatusProperties DEF Fail, TypeOK, HasRow, HasHash, Status
  <2> QED
    BY <1>4, <2>1 DEF Fail, TypeOK, Goto, LetGo, PC, Job, NoJob, HasRow, HasHash, HasDraft
<1>5. CASE MarkDone(w)
  <2>1. queue' \in Seq(QueueRow) /\ Len(queue') = Len(queue) /\ DOMAIN queue' = DOMAIN queue
    BY <1>5, SetStatusProperties DEF MarkDone, TypeOK, HasRow, HasHash, Status
  <2> QED
    BY <1>5, <2>1 DEF MarkDone, TypeOK, Goto, LetGo, PC, Job, NoJob, HasRow, HasHash, HasDraft
<1> QED
  BY <1>1, <1>2, <1>3, <1>4, <1>5

(* The steps of a worker that leave the queue alone.                       *)
LEMMA ItemStepTypeOK ==
    ASSUME TypeOK, NEW w \in Workers,
           \/ Start(w) \/ Select(w) \/ Stop(w) \/ Reuse(w) \/ Miss(w) \/ Answer(w)
           \/ AddRule(w) \/ AddEdge(w) \/ PutCache(w) \/ Crash(w)
    PROVE  TypeOK'
<1> USE DEF HasRow, HasHash, HasDraft, Goto, LetGo, PC, Job, NoJob
<1>0. ASSUME NEW v \in Workers, HasRow(v)
      PROVE  source[queue[job[v].row].para] \in Hashes /\ queue[job[v].row].para \in Paragraphs
  <2>1. queue[job[v].row] \in QueueRow
    BY <1>0, ElementOfSeq, LenProperties DEF TypeOK
  <2> QED
    BY <2>1 DEF QueueRow, TypeOK
<1>1. CASE Start(w)
  <2>1. count' \in [Events -> Nat]
    BY <1>1, HappensType, EventNames DEF Start, TypeOK
  <2>2. Candidates \subseteq Paragraphs
    BY DEF Candidates
  <2> QED
    BY <1>1, <2>1, <2>2 DEF Start, TypeOK
<1>2. CASE Select(w)
  BY <1>2, LenProperties DEF Select, TypeOK, IsNext
<1>3. CASE Stop(w)
  BY <1>3 DEF Stop, TypeOK
<1>4. CASE Reuse(w)
  BY <1>0, <1>4 DEF Reuse, TypeOK
<1>5. CASE Miss(w)
  <2>1. job' = [job EXCEPT ![w].hash = source[queue[job[w].row].para]]
    BY <1>5 DEF Miss
  <2>2. HasRow(w)
    BY <1>5 DEF Miss
  <2> QED
    BY <1>0, <1>5, <2>1, <2>2 DEF Miss, TypeOK
<1>6. CASE Answer(w)
  <2>1. PICK t \in Narrations, c \in Costs :
          /\ job' = [job EXCEPT ![w].draft = t]
          /\ tokens' = [tokens EXCEPT ![w] = @ + c]
    BY <1>6 DEF Answer
  <2>2. c \in Nat
    OBVIOUS
  <2>3. tokens' \in [Workers -> Nat]
    BY <2>1, <2>2 DEF TypeOK
  <2>4. job \in [Workers -> Job] /\ job[w].hash \in Hashes /\ job[w].row \in DOMAIN queue
    BY <1>6 DEF Answer, TypeOK
  <2>5. job' \in [Workers -> Job]
    <3>1. [job[w] EXCEPT !.draft = t] \in Job
      BY <2>4
    <3> QED
      BY <2>1, <2>4, <3>1
  <2>6. \A v \in Workers : job'[v] =
           IF v = w THEN [row |-> job[w].row, hash |-> job[w].hash, draft |-> t] ELSE job[v]
    BY <2>1, <2>4
  <2>7. paid' \in [Hashes -> Nat]
    BY <1>6, <2>4 DEF Answer, TypeOK
  <2>8. \A v \in Workers : /\ HasRow(v)' => job'[v].row \in DOMAIN queue'
                           /\ HasHash(v)' => job'[v].hash \in Hashes
                           /\ HasDraft(v)' => job'[v].draft \in Narrations
    BY <1>6, <2>4, <2>6 DEF Answer, TypeOK
  <2>9. pc' \in [Workers -> PC]
    BY <1>6 DEF Answer, TypeOK
  <2> QED
    BY <1>6, <2>3, <2>5, <2>7, <2>8, <2>9 DEF Answer, TypeOK
<1>7. CASE AddRule(w)
  BY <1>7 DEF AddRule, TypeOK, Rule, Texts
<1>8. CASE AddEdge(w)
  BY <1>0, <1>8 DEF AddEdge, TypeOK
<1>9. CASE PutCache(w)
  BY <1>9, PutType DEF PutCache, TypeOK, Texts
<1>10. CASE Crash(w)
  <2>1. count' \in [Events -> Nat]
    BY <1>10, HappensType, EventNames DEF Crash, TypeOK
  <2>2. pardons' \in [Hashes -> Nat]
    BY <1>10 DEF Crash, TypeOK
  <2> QED
    BY <1>10, <2>1, <2>2 DEF Crash, TypeOK
<1> QED
  BY <1>1, <1>2, <1>3, <1>4, <1>5, <1>6, <1>7, <1>8, <1>9, <1>10

(* Reviews and re-extraction.                                              *)
LEMMA HumanStepTypeOK ==
    ASSUME TypeOK,
           \/ \E c \in Commands, h \in Hashes : Resolve(c, h)
           \/ ReviewStep
           \/ Abandon
           \/ \E p \in Paragraphs, h \in Hashes : Extract(p, h)
    PROVE  TypeOK'
<1> USE DEF HasRow, HasHash, HasDraft
<1>1. ASSUME NEW c \in Commands, NEW h \in Hashes, Resolve(c, h)
      PROVE  TypeOK'
  <2>1. review' \in Review
    BY <1>1 DEF Resolve, Review, TypeOK
  <2> QED
    BY <1>1, <2>1, HappensType, EventNames DEF Resolve, TypeOK
<1>2. CASE WriteNode
  <2>1. review \in Review
    BY <1>2 DEF WriteNode, TypeOK
  <2>2. review' \in Review
    BY <1>2, <2>1 DEF WriteNode, Review
  <2>3. review.rule \in Hashes /\ review.node \in Rule /\ review.cmd \in Commands
    BY <2>1 DEF Review
  <2>4. Reviewed(review.cmd, review.node) \in Rule
    BY <2>3 DEF Reviewed, Commands, Rule, Texts
  <2> QED
    BY <1>2, <2>2, <2>3, <2>4 DEF WriteNode, TypeOK
<1>3. CASE VerifyCache
  <2>1. review \in Review
    BY <1>3 DEF VerifyCache, TypeOK
  <2>2. review' \in Review /\ review.rule \in Hashes
    BY <1>3, <2>1 DEF VerifyCache, Review
  <2>3. cache' \in [Hashes -> CacheRow]
    BY <1>3, <2>2, MarkVerifiedType DEF VerifyCache, TypeOK
  <2> QED
    BY <1>3, <2>2, <2>3 DEF VerifyCache, TypeOK
<1>4. CASE EditCache
  <2>1. review \in Review
    BY <1>4 DEF EditCache, TypeOK
  <2>2. review' \in Review \cup {NoReview} /\ review.rule \in Hashes
    BY <1>4, <2>1 DEF EditCache, Review
  <2>3. cache' \in [Hashes -> CacheRow]
    <3>1. CASE IsCached(cache, review.rule)
      <4>1. Correction \in Texts /\ TRUE \in BOOLEAN
        BY DEF Texts
      <4>2. cache' = Put(cache, review.rule, Correction, TRUE)
        BY <1>4, <3>1 DEF EditCache
      <4>3. cache \in [Hashes -> CacheRow]
        BY DEF TypeOK
      <4> QED
        BY <2>2, <4>1, <4>2, <4>3, PutType
    <3>2. CASE ~IsCached(cache, review.rule)
      BY <1>4, <3>2 DEF EditCache, TypeOK
    <3> QED
      BY <3>1, <3>2
  <2> QED
    BY <1>4, <2>2, <2>3 DEF EditCache, TypeOK
<1>5. CASE Settle
  <2>1. review \in Review
    BY <1>5 DEF Settle, TypeOK
  <2>2. review' = NoReview /\ review.rule \in Hashes
    BY <1>5, <2>1 DEF Settle, Review
  <2>3. cache' \in [Hashes -> CacheRow]
    <3>1. (review.cmd = "flag") \in BOOLEAN
      OBVIOUS
    <3> QED
      BY <1>5, <2>2, <3>1, MarkStaleType DEF Settle, TypeOK
  <2>4. pardons' \in [Hashes -> Nat]
    BY <1>5, <2>2 DEF Settle, TypeOK
  <2> QED
    BY <1>5, <2>2, <2>3, <2>4 DEF Settle, TypeOK
<1>6. CASE Abandon
  BY <1>6, HappensType, EventNames DEF Abandon, TypeOK
<1>7. ASSUME NEW p \in Paragraphs, NEW h \in Hashes, Extract(p, h)
      PROVE  TypeOK'
  <2>1. texts' \in [DOMAIN texts -> SUBSET Hashes]
    BY <1>7, LenProperties DEF Extract, TypeOK
  <2>2. texts' \in Seq(SUBSET Hashes) /\ Len(texts') = Len(texts)
    BY <2>1, SameLength DEF TypeOK
  <2> QED
    BY <1>7, <2>2, HappensType, EventNames DEF Extract, TypeOK
<1> QED
  BY <1>1, <1>2, <1>3, <1>4, <1>5, <1>6, <1>7 DEF ReviewStep

LEMMA StepTypeOK == TypeOK /\ [Next]_vars => TypeOK'
<1>1. TypeOK /\ UNCHANGED vars => TypeOK'
  BY DEF TypeOK, vars, HasRow, HasHash, HasDraft
<1>2. TypeOK /\ Next => TypeOK'
  BY QueueStepTypeOK, ItemStepTypeOK, HumanStepTypeOK DEF Next, Work
<1> QED
  BY <1>1, <1>2

(* Every state enrich, the review commands and extract can reach keeps the *)
(* shape of the tables and of each process's variables.                    *)
THEOREM TypeCorrect == Spec => []TypeOK
  BY InitTypeOK, StepTypeOK, PTL DEF Spec

==============================================================================
