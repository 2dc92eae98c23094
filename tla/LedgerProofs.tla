----------------------------- MODULE LedgerProofs -----------------------------
(***************************************************************************)
(* One enrich worker at a time, its crashes and every review and           *)
(* re-extraction included, implements NarrationLedger.                     *)
(***************************************************************************)
EXTENDS EnrichmentSafetyProofs

USE BlankAssumption, RisksAssumption, EnrichmentAssumption
    DEF storeVars, workerVars, ghostVars

(* The refinement mapping of Ledger, by name.                              *)
OpenOr(s) == IF s = "done" THEN "done" ELSE "open"

Items == [i \in DOMAIN queue |->
             [para |-> queue[i].para, texts |-> texts[i], state |-> OpenOr(queue[i].status)]]

Known == {h \in Hashes : IsCached(cache, h)}

(* An open row remembers the present text of its paragraph; what a worker  *)
(* works on is open, the hash it works with is one of the row's texts, and *)
(* when it is about to finish the row that hash is narrated.               *)
LedgerInv ==
    /\ \A i \in DOMAIN queue : queue[i].status # "done" => source[queue[i].para] \in texts[i]
    /\ \A w \in Workers : HasRow(w) => queue[job[w].row].status # "done"
    /\ \A w \in Workers : HasHash(w) => job[w].hash \in texts[job[w].row]
    /\ \A w \in Workers : pc[w] = "finish" => IsCached(cache, job[w].hash)

LEMMA InitLedgerInv == Init => LedgerInv
  BY DEF Init, InitProcesses, LedgerInv, HasRow, HasHash, HasDraft

(* No row of narration_cache is ever taken away.                           *)
LEMMA CachedKept ==
    ASSUME TypeOK, [Next]_vars, NEW h \in Hashes, IsCached(cache, h)
    PROVE  IsCached(cache, h)'
<1>1. cache \in [Hashes -> CacheRow]
  BY DEF TypeOK
<1>2. CASE cache' = cache
  BY <1>2 DEF IsCached
<1>3. ASSUME NEW w \in Workers, PutCache(w)
      PROVE  IsCached(cache, h)'
  <2>1. job[w].draft # Blank /\ job[w].hash \in Hashes
    BY <1>3 DEF PutCache, TypeOK, HasHash, HasDraft
  <2>2. cache'[h] = IF h = job[w].hash
                      THEN [text |-> job[w].draft, verified |-> FALSE, stale |-> FALSE]
                      ELSE cache[h]
    BY <1>1, <1>3, <2>1 DEF PutCache, Put
  <2> QED
    BY <2>1, <2>2 DEF IsCached
<1>4. CASE VerifyCache
  BY <1>1, <1>4 DEF VerifyCache, MarkVerified, IsCached, CacheRow
<1>5. CASE EditCache
  <2>1. Correction # Blank
    OBVIOUS
  <2>2. CASE IsCached(cache, review.rule)
    <3>1. cache'[h].text = Correction \/ cache'[h] = cache[h]
      BY <1>1, <1>5, <2>2 DEF EditCache, Put
    <3> QED
      BY <2>1, <3>1 DEF IsCached
  <2>3. CASE ~IsCached(cache, review.rule)
    BY <1>2, <1>5, <2>3 DEF EditCache
  <2> QED
    BY <2>2, <2>3
<1>6. CASE Settle
  <2>1. review.rule \in Hashes
    <3>1. review \in Review
      BY <1>6 DEF Settle, TypeOK
    <3> QED
      BY <3>1 DEF Review
  <2> DEFINE s == review.cmd = "flag"
  <2>2. s \in BOOLEAN /\ cache' = MarkStale(cache, review.rule, s)
    BY <1>6 DEF Settle
  <2> HIDE DEF s
  <2>3. cache'[h].text = cache[h].text
    BY <1>1, <2>1, <2>2, MarkStaleType
  <2> QED
    BY <2>3 DEF IsCached
<1>7. CASE \/ \E w \in Workers : \/ Start(w) \/ AddItem(w) \/ Recover(w) \/ Select(w) \/ Stop(w)
                                \/ Claim(w) \/ Reuse(w) \/ Miss(w) \/ Answer(w) \/ Fail(w)
                                \/ AddRule(w) \/ AddEdge(w) \/ MarkDone(w) \/ Crash(w)
           \/ \E c \in Commands, g \in Hashes : Resolve(c, g)
           \/ WriteNode \/ Abandon
           \/ \E p \in Paragraphs, g \in Hashes : Extract(p, g)
  BY <1>2, <1>7 DEF Start, AddItem, Recover, Select, Stop, Claim, Reuse, Miss, Answer, Fail,
     AddRule, AddEdge, MarkDone, Crash, Resolve, WriteNode, Abandon, Extract
<1>8. CASE UNCHANGED vars
  BY <1>2, <1>8 DEF vars
<1> QED
  BY <1>3, <1>4, <1>5, <1>6, <1>7, <1>8 DEF Next, Work, ReviewStep

(* The statements on the queue, row by row.                                *)
LEMMA QueueEffect ==
    ASSUME TypeOK
    PROVE  /\ \A w \in Workers : Recover(w) =>
                 /\ DOMAIN queue' = DOMAIN queue
                 /\ \A i \in DOMAIN queue : /\ queue'[i].para = queue[i].para
                                            /\ queue'[i].status = "done" <=> queue[i].status = "done"
           /\ \A w \in Workers : Claim(w) \/ Fail(w) \/ MarkDone(w) =>
                 /\ job[w].row \in DOMAIN queue
                 /\ DOMAIN queue' = DOMAIN queue
                 /\ \A i \in DOMAIN queue :
                       /\ queue'[i].para = queue[i].para
                       /\ queue'[i].status = "done" <=>
                             IF i = job[w].row THEN MarkDone(w) ELSE queue[i].status = "done"
<1>1. queue \in Seq(QueueRow)
  BY DEF TypeOK
<1>2. ASSUME NEW w \in Workers, Recover(w)
      PROVE  /\ DOMAIN queue' = DOMAIN queue
             /\ \A i \in DOMAIN queue : /\ queue'[i].para = queue[i].para
                                        /\ queue'[i].status = "done" <=> queue[i].status = "done"
  <2>1. /\ DOMAIN queue' = DOMAIN queue
        /\ \A j \in DOMAIN queue : queue'[j] =
              [para |-> queue[j].para, risk |-> queue[j].risk,
               status |-> IF queue[j].status = "in_progress" THEN "pending" ELSE queue[j].status]
    BY <1>1, <1>2, ResetProperties DEF Recover
  <2> QED
    BY <2>1
<1>3. ASSUME NEW w \in Workers, Claim(w) \/ Fail(w) \/ MarkDone(w)
      PROVE  /\ job[w].row \in DOMAIN queue
             /\ DOMAIN queue' = DOMAIN queue
             /\ \A i \in DOMAIN queue :
                   /\ queue'[i].para = queue[i].para
                   /\ queue'[i].status = "done" <=>
                         IF i = job[w].row THEN MarkDone(w) ELSE queue[i].status = "done"
  <2>1. job[w].row \in DOMAIN queue
    BY <1>3 DEF Claim, Fail, MarkDone, TypeOK, HasRow, HasHash
  <2>2. PICK s \in Status :
           queue' = SetStatus(queue, job[w].row, s) /\ (s = "done" <=> pc[w] = "finish")
    BY <1>3 DEF Claim, Fail, MarkDone, Status
  <2>3. MarkDone(w) <=> pc[w] = "finish"
    BY <1>3 DEF Claim, Fail, MarkDone
  <2>4. /\ DOMAIN queue' = DOMAIN queue
        /\ \A j \in DOMAIN queue : queue'[j] =
              [para |-> queue[j].para, risk |-> queue[j].risk,
               status |-> IF j = job[w].row THEN s ELSE queue[j].status]
    BY <1>1, <2>1, <2>2, SetStatusProperties
  <2>5. \A j \in DOMAIN queue :
           /\ queue'[j].para = queue[j].para
           /\ queue'[j].status = IF j = job[w].row THEN s ELSE queue[j].status
    BY <2>4
  <2> QED
    BY <2>1, <2>2, <2>3, <2>4, <2>5
<1> QED
  BY <1>2, <1>3

(* The texts of a row only grow, and an open row's contain its paragraph's *)
(* present text.                                                           *)
LEMMA TextsKept ==
    ASSUME TypeOK, LedgerInv, [Next]_vars
    PROVE  /\ \A i \in DOMAIN queue : texts[i] \subseteq texts'[i]
           /\ \A i \in DOMAIN queue' :
                 queue'[i].status # "done" => source'[queue'[i].para] \in texts'[i]
<1> DEFINE Grow == \A i \in DOMAIN queue : texts[i] \subseteq texts'[i]
           Current1 == \A i \in DOMAIN queue' :
                 queue'[i].status # "done" => source'[queue'[i].para] \in texts'[i]
<1>1. /\ queue \in Seq(QueueRow) /\ texts \in Seq(SUBSET Hashes) /\ Len(texts) = Len(queue)
      /\ DOMAIN queue = 1 .. Len(queue) /\ DOMAIN texts = 1 .. Len(queue) /\ Len(queue) \in Nat
  BY LenProperties DEF TypeOK
<1>2. \A i \in DOMAIN queue : queue[i].status # "done" => source[queue[i].para] \in texts[i]
  BY DEF LedgerInv
<1>3. CASE UNCHANGED <<queue, source, texts>>
  BY <1>2, <1>3
<1>4. ASSUME NEW w \in Workers, AddItem(w)
      PROVE  Grow /\ Current1
  <2>1. PICK p \in Paragraphs, r \in Risks :
           queue' = Added(queue, p, r) /\ texts' = Append(texts, {source[p]})
    BY <1>4 DEF AddItem, TypeOK
  <2>2. source' = source /\ source[p] \in Hashes
    BY <1>4 DEF AddItem, TypeOK
  <2>3. /\ DOMAIN Added(queue, p, r) = 1 .. Len(queue) + 1
        /\ \A i \in DOMAIN queue : Added(queue, p, r)[i] = queue[i]
        /\ Added(queue, p, r)[Len(queue) + 1] = [para |-> p, risk |-> r, status |-> "pending"]
    BY <1>1, AddedProperties
  <2>4. /\ \A i \in 1 .. Len(queue) : texts'[i] = texts[i]
        /\ texts'[Len(queue) + 1] = {source[p]}
    BY <1>1, <2>1, <2>2, AppendProperties
  <2>5. ASSUME NEW i \in DOMAIN queue', queue'[i].status # "done"
        PROVE  source'[queue'[i].para] \in texts'[i]
    <3>1. CASE i \in DOMAIN queue
      <4>1. queue'[i] = queue[i]
        BY <2>1, <2>3, <3>1
      <4>2. texts'[i] = texts[i]
        BY <1>1, <2>4, <3>1
      <4>3. source[queue[i].para] \in texts[i]
        BY <1>2, <2>5, <3>1, <4>1
      <4> QED
        BY <2>2, <4>1, <4>2, <4>3
    <3>2. CASE i = Len(queue) + 1
      <4>1. queue'[i] = [para |-> p, risk |-> r, status |-> "pending"]
        BY <2>1, <2>3, <3>2
      <4>2. queue'[i].para = p
        BY <4>1
      <4>3. texts'[i] = {source[p]}
        BY <2>4, <3>2
      <4> QED
        BY <2>2, <4>2, <4>3
    <3> QED
      BY <1>1, <2>1, <2>3, <3>1, <3>2
  <2> QED
    BY <1>1, <2>4, <2>5
<1>5. ASSUME NEW w \in Workers, Recover(w)
      PROVE  Grow /\ Current1
  <2>1. source' = source /\ texts' = texts
    BY <1>5 DEF Recover
  <2>2. /\ DOMAIN queue' = DOMAIN queue
        /\ \A i \in DOMAIN queue : /\ queue'[i].para = queue[i].para
                                   /\ queue'[i].status = "done" <=> queue[i].status = "done"
    BY <1>5, QueueEffect
  <2> QED
    BY <1>2, <2>1, <2>2
<1>6. ASSUME NEW w \in Workers, Claim(w) \/ Fail(w) \/ MarkDone(w)
      PROVE  Grow /\ Current1
  <2>1. source' = source /\ texts' = texts
    BY <1>6 DEF Claim, Fail, MarkDone
  <2>2. /\ DOMAIN queue' = DOMAIN queue
        /\ \A i \in DOMAIN queue :
              /\ queue'[i].para = queue[i].para
              /\ queue'[i].status = "done" <=>
                    IF i = job[w].row THEN MarkDone(w) ELSE queue[i].status = "done"
    BY <1>6, QueueEffect
  <2>3. queue[job[w].row].status # "done"
    BY <1>6 DEF LedgerInv, Claim, Fail, MarkDone, HasRow, HasHash
  <2>4. \A i \in DOMAIN queue : queue'[i].status # "done" => queue[i].status # "done"
    BY <2>2, <2>3
  <2> QED
    BY <1>2, <2>1, <2>2, <2>4
<1>7. ASSUME NEW p \in Paragraphs, NEW h \in Hashes, Extract(p, h)
      PROVE  Grow /\ Current1
  <2>1. /\ queue' = queue /\ source' = [source EXCEPT ![p] = h]
        /\ texts' = [i \in DOMAIN texts |->
                        IF queue[i].para = p /\ queue[i].status # "done"
                           THEN texts[i] \cup {h} ELSE texts[i]]
    BY <1>7 DEF Extract
  <2>2. source \in [Paragraphs -> Hashes]
    BY DEF TypeOK
  <2>3. \A i \in DOMAIN queue : texts'[i] =
           IF queue[i].para = p /\ queue[i].status # "done" THEN texts[i] \cup {h} ELSE texts[i]
    BY <1>1, <2>1
  <2>4. ASSUME NEW i \in DOMAIN queue, queue[i].status # "done"
        PROVE  source'[queue[i].para] \in texts'[i]
    <3>1. queue[i] \in QueueRow
      BY <1>1, ElementOfSeq
    <3>2. queue[i].para \in Paragraphs
      BY <3>1 DEF QueueRow
    <3>3. CASE queue[i].para = p
      <4>1. texts'[i] = texts[i] \cup {h}
        BY <2>3, <2>4, <3>3
      <4>2. source'[queue[i].para] = h
        BY <2>1, <2>2, <3>3
      <4> QED
        BY <4>1, <4>2
    <3>4. CASE queue[i].para # p
      BY <1>2, <2>1, <2>2, <2>3, <2>4, <3>2, <3>4
    <3> QED
      BY <3>3, <3>4
  <2>5. Grow
    BY <2>3
  <2>6. Current1
    BY <2>1, <2>4
  <2> QED
    BY <2>5, <2>6
<1>8. CASE \/ \E w \in Workers : \/ Start(w) \/ Select(w) \/ Stop(w) \/ Reuse(w) \/ Miss(w)
                                \/ Answer(w) \/ AddRule(w) \/ AddEdge(w) \/ PutCache(w)
                                \/ Crash(w)
           \/ \E c \in Commands, h \in Hashes : Resolve(c, h)
           \/ ReviewStep \/ Abandon
  BY <1>3, <1>8 DEF Start, Select, Stop, Reuse, Miss, Answer, AddRule, AddEdge, PutCache, Crash,
     Resolve, ReviewStep, WriteNode, VerifyCache, EditCache, Settle, Abandon
<1>9. CASE UNCHANGED vars
  BY <1>3, <1>9 DEF vars
<1> QED
  BY <1>4, <1>5, <1>6, <1>7, <1>8, <1>9 DEF Next, Work

(* A worker's knowledge of its item, kept by every step of its own and of  *)
(* the humans.                                                             *)
LEMMA StepLedgerInv == OneWorker /\ TypeOK /\ LedgerInv /\ [Next]_vars => LedgerInv'
<1> SUFFICES ASSUME OneWorker, TypeOK, LedgerInv, [Next]_vars
             PROVE  LedgerInv'
  OBVIOUS
<1> DEFINE Knows(w) ==
              /\ HasRow(w) => queue[job[w].row].status # "done"
              /\ HasHash(w) => job[w].hash \in texts[job[w].row]
              /\ pc[w] = "finish" => IsCached(cache, job[w].hash)
<1>1. /\ pc \in [Workers -> PC] /\ job \in [Workers -> Job]
      /\ \A w \in Workers : HasRow(w) => job[w].row \in DOMAIN queue
      /\ \A w \in Workers : HasHash(w) => job[w].hash \in Hashes
      /\ \A w \in Workers : Knows(w)
  BY DEF TypeOK, LedgerInv
<1>2. ASSUME NEW w \in Workers, Knows(w)'
      PROVE  LedgerInv'
  <2>1. \A v \in Workers : v = w
    BY DEF OneWorker
  <2>2. \A i \in DOMAIN queue' :
           queue'[i].status # "done" => source'[queue'[i].para] \in texts'[i]
    BY TextsKept
  <2> QED
    BY <1>2, <2>1, <2>2 DEF LedgerInv
<1>3. ASSUME NEW w \in Workers, pc'[w] \in {"idle", "populate", "loop"}
      PROVE  LedgerInv'
  BY <1>2, <1>3 DEF HasRow, HasHash, HasDraft
<1>4. ASSUME NEW w \in Workers, pc'[w] = pc[w], job' = job,
             \A i \in DOMAIN queue : queue'[i].status = "done" <=> queue[i].status = "done"
      PROVE  LedgerInv'
  <2>1. HasRow(w)' => HasRow(w) /\ job[w].row \in DOMAIN queue
    BY <1>1, <1>4 DEF HasRow, HasHash, HasDraft
  <2>2. HasHash(w)' => HasHash(w) /\ HasRow(w) /\ job[w].hash \in Hashes
    BY <1>1, <1>4 DEF HasRow, HasHash, HasDraft
  <2>3. HasRow(w)' => queue'[job[w].row].status # "done"
    BY <1>1, <1>4, <2>1
  <2>4. HasHash(w)' => job[w].hash \in texts'[job[w].row]
    BY <1>1, <2>2, TextsKept
  <2>5. pc'[w] = "finish" => IsCached(cache, job[w].hash)'
    <3> SUFFICES ASSUME pc[w] = "finish" PROVE IsCached(cache, job[w].hash)'
      BY <1>4
    <3> DEFINE h == job[w].hash
    <3>1. job[w].hash \in Hashes /\ IsCached(cache, job[w].hash)
      BY <1>1 DEF HasHash
    <3>2. \A g \in Hashes : IsCached(cache, g) => cache'[g].text # Blank
      BY CachedKept DEF IsCached
    <3> QED
      BY <1>4, <3>1, <3>2 DEF IsCached
  <2> QED
    BY <1>2, <1>4, <2>3, <2>4, <2>5
<1>5. ASSUME NEW w \in Workers,
             \/ Start(w) \/ Recover(w) \/ Stop(w) \/ Fail(w) \/ MarkDone(w) \/ Crash(w)
      PROVE  LedgerInv'
  BY <1>1, <1>3, <1>5 DEF Start, Recover, Stop, Fail, MarkDone, Crash, Goto
<1>6. ASSUME NEW w \in Workers, AddItem(w)
      PROVE  LedgerInv'
  BY <1>3, <1>6 DEF AddItem
<1>7. ASSUME NEW w \in Workers, Select(w)
      PROVE  LedgerInv'
  <2>1. PICK i \in DOMAIN queue : IsNext(queue, i) /\ job' = [job EXCEPT ![w].row = i]
    BY <1>7 DEF Select
  <2>2. job'[w].row = i /\ pc'[w] = "claim" /\ queue' = queue
    BY <1>1, <1>7, <2>1 DEF Select, Goto, Job
  <2>3. queue[i].status # "done"
    BY <2>1 DEF IsNext, RowsIn
  <2> QED
    BY <1>2, <2>2, <2>3 DEF HasRow, HasHash, HasDraft
<1>8. ASSUME NEW w \in Workers, Claim(w)
      PROVE  LedgerInv'
  <2>1. job' = job /\ pc[w] = "claim" /\ pc'[w] = "examine" /\ ~MarkDone(w)
    BY <1>1, <1>8 DEF Claim, MarkDone, Goto
  <2>2. queue'[job[w].row].status # "done"
    BY <1>8, <2>1, QueueEffect
  <2> QED
    BY <1>2, <2>1, <2>2 DEF HasRow, HasHash, HasDraft
<1>9. ASSUME NEW w \in Workers, Reuse(w) \/ Miss(w)
      PROVE  LedgerInv'
  <2> DEFINE h == source[queue[job[w].row].para]
  <2>1. /\ pc[w] = "examine" /\ queue' = queue /\ texts' = texts /\ cache' = cache
        /\ job' = [job EXCEPT ![w].hash = h]
        /\ pc' = [pc EXCEPT ![w] = IF Reuse(w) THEN "finish" ELSE "call"]
        /\ Reuse(w) => IsFresh(cache, h)
    BY <1>9 DEF Reuse, Miss, Goto
  <2>2. job'[w].row = job[w].row /\ job'[w].hash = h
    BY <1>1, <2>1 DEF Job
  <2>3. pc'[w] \in {"finish", "call"} /\ (pc'[w] = "finish" => IsFresh(cache, h))
    BY <1>1, <2>1
  <2>4. job[w].row \in DOMAIN queue /\ queue[job[w].row].status # "done"
    BY <1>1, <2>1 DEF HasRow
  <2>5. h \in texts[job[w].row]
    BY <2>4 DEF LedgerInv
  <2> HIDE DEF h
  <2>6. pc'[w] = "finish" => IsCached(cache, job[w].hash)'
    BY <2>1, <2>2, <2>3 DEF IsFresh, IsCached
  <2> QED
    BY <1>2, <2>1, <2>2, <2>4, <2>5, <2>6
<1>10. ASSUME NEW w \in Workers, Answer(w) \/ AddRule(w) \/ AddEdge(w) \/ PutCache(w)
       PROVE  LedgerInv'
  <2>1. /\ HasRow(w) /\ HasHash(w)
        /\ queue' = queue /\ texts' = texts
        /\ pc'[w] = "finish" => PutCache(w)
    BY <1>1, <1>10 DEF Answer, AddRule, AddEdge, PutCache, Goto, HasRow, HasHash, HasDraft
  <2>2. job'[w].row = job[w].row /\ job'[w].hash = job[w].hash
    <3>1. CASE Answer(w)
      BY <1>1, <3>1 DEF Answer, Job
    <3>2. CASE AddRule(w) \/ AddEdge(w) \/ PutCache(w)
      BY <3>2 DEF AddRule, AddEdge, PutCache
    <3> QED
      BY <1>10, <3>1, <3>2
  <2>3. PutCache(w) => IsCached(cache, job[w].hash)'
    <3> SUFFICES ASSUME PutCache(w) PROVE IsCached(cache, job[w].hash)'
      OBVIOUS
    <3>1. job[w].draft # Blank /\ job[w].hash \in Hashes
      BY DEF PutCache, TypeOK, HasHash, HasDraft
    <3>2. cache'[job[w].hash].text # Blank
      BY <3>1 DEF PutCache, Put, TypeOK
    <3> QED
      BY <2>2, <3>2 DEF IsCached
  <2> QED
    BY <1>1, <1>2, <2>1, <2>2, <2>3
<1>11. ASSUME NEW w \in Workers,
              \/ \E c \in Commands, h \in Hashes : Resolve(c, h)
              \/ ReviewStep \/ Abandon
              \/ \E p \in Paragraphs, h \in Hashes : Extract(p, h)
              \/ UNCHANGED vars
       PROVE  LedgerInv'
  <2>1. pc' = pc /\ job' = job /\ queue' = queue
    BY <1>11 DEF Resolve, ReviewStep, WriteNode, VerifyCache, EditCache, Settle, Abandon, Extract,
       vars
  <2> QED
    BY <1>4, <2>1
<1>12. CASE Workers = {}
  BY <1>12, TextsKept DEF LedgerInv
<1> HIDE DEF Knows
<1> QED
  BY <1>5, <1>6, <1>7, <1>8, <1>9, <1>10, <1>11, <1>12 DEF Next, Work

-----------------------------------------------------------------------------
(* The refinement.                                                         *)

LEMMA InitLedger == Init => Ledger!Init
<1> SUFFICES ASSUME Init PROVE Items = << >> /\ Known = {}
  BY DEF Ledger!Init, Items, Known, OpenOr
<1>1. queue = << >> /\ \A h \in Hashes : ~IsCached(cache, h)
  BY DEF Init, NoRows, NoRow, IsCached
<1>2. DOMAIN queue = {}
  BY <1>1
<1> QED
  BY <1>1, <1>2 DEF Items, Known

LedgerItem == [para : Paragraphs, texts : SUBSET Hashes, state : {"open", "done"}]

(* The items of any queue and its texts.                                   *)
LEMMA ItemsType ==
    ASSUME NEW q \in Seq(QueueRow), NEW x \in Seq(SUBSET Hashes), Len(x) = Len(q)
    PROVE  LET I == [i \in DOMAIN q |->
                       [para |-> q[i].para, texts |-> x[i], state |-> OpenOr(q[i].status)]]
           IN  /\ I \in Seq(LedgerItem)
               /\ Len(I) = Len(q)
               /\ \A i \in DOMAIN q : I[i] =
                     [para |-> q[i].para, texts |-> x[i], state |-> OpenOr(q[i].status)]
<1> DEFINE I == [i \in DOMAIN q |->
                   [para |-> q[i].para, texts |-> x[i], state |-> OpenOr(q[i].status)]]
<1>1. DOMAIN q = 1 .. Len(q) /\ DOMAIN x = 1 .. Len(q)
  BY LenProperties
<1>2. ASSUME NEW i \in DOMAIN q
      PROVE  [para |-> q[i].para, texts |-> x[i], state |-> OpenOr(q[i].status)] \in LedgerItem
  <2>1. q[i] \in QueueRow /\ x[i] \in SUBSET Hashes
    BY <1>1, ElementOfSeq
  <2>2. q[i].para \in Paragraphs /\ OpenOr(q[i].status) \in {"open", "done"}
    BY <2>1 DEF QueueRow, OpenOr
  <2> QED
    BY <2>1, <2>2 DEF LedgerItem
<1>3. I \in [DOMAIN q -> LedgerItem]
  BY <1>2
<1>4. \A i \in DOMAIN q : I[i] =
         [para |-> q[i].para, texts |-> x[i], state |-> OpenOr(q[i].status)]
  OBVIOUS
<1> HIDE DEF I
<1>5. I \in Seq(LedgerItem) /\ Len(I) = Len(q)
  BY <1>3, SameLength
<1> QED
  BY <1>4, <1>5 DEF I

(* Changing one field of an item.                                          *)
LEMMA ItemUpdate ==
    ASSUME NEW r \in LedgerItem, NEW h
    PROVE  /\ [r EXCEPT !.texts = @ \cup {h}] =
                 [para |-> r.para, texts |-> r.texts \cup {h}, state |-> r.state]
           /\ [r EXCEPT !.state = "done"] =
                 [para |-> r.para, texts |-> r.texts, state |-> "done"]
<1>1. [r EXCEPT !.texts = @ \cup {h}] =
         [para |-> r.para, texts |-> r.texts \cup {h}, state |-> r.state]
  BY SMT DEF LedgerItem
<1>2. [r EXCEPT !.state = "done"] = [para |-> r.para, texts |-> r.texts, state |-> "done"]
  BY SMT DEF LedgerItem
<1> QED
  BY <1>1, <1>2

(* A step that finishes no row and changes no row's paragraph or texts     *)
(* leaves the items as they are.                                           *)
LEMMA SameItems ==
    ASSUME DOMAIN queue' = DOMAIN queue,
           \A i \in DOMAIN queue : /\ queue'[i].para = queue[i].para
                                   /\ queue'[i].status = "done" <=> queue[i].status = "done"
                                   /\ texts'[i] = texts[i]
    PROVE  Items' = Items
<1>1. ASSUME NEW i \in DOMAIN queue
      PROVE  OpenOr(queue'[i].status) = OpenOr(queue[i].status)
  <2>1. queue'[i].status = "done" <=> queue[i].status = "done"
    OBVIOUS
  <2>2. CASE queue[i].status = "done"
    BY <2>1, <2>2 DEF OpenOr
  <2>3. CASE queue[i].status # "done"
    BY <2>1, <2>3 DEF OpenOr
  <2> QED
    BY <2>2, <2>3
<1>2. \A i \in DOMAIN queue :
         /\ queue'[i].para = queue[i].para /\ texts'[i] = texts[i]
         /\ OpenOr(queue'[i].status) = OpenOr(queue[i].status)
  BY <1>1
<1>3. \A i \in DOMAIN queue :
         [para |-> queue'[i].para, texts |-> texts'[i], state |-> OpenOr(queue'[i].status)] =
         [para |-> queue[i].para, texts |-> texts[i], state |-> OpenOr(queue[i].status)]
  BY <1>2
<1>4. [i \in DOMAIN queue' |->
         [para |-> queue'[i].para, texts |-> texts'[i], state |-> OpenOr(queue'[i].status)]] =
      [i \in DOMAIN queue |->
         [para |-> queue[i].para, texts |-> texts[i], state |-> OpenOr(queue[i].status)]]
  BY <1>3, Zenon
<1> QED
  BY <1>4 DEF Items

(* A step that caches no new narration leaves what is known as it is.      *)
LEMMA SameKnown ==
    ASSUME TypeOK, [Next]_vars, \A w \in Workers : ~PutCache(w)
    PROVE  Known' = Known
<1>1. \A h \in Hashes : IsCached(cache, h) => IsCached(cache, h)'
  BY CachedKept
<1>2. \A h \in Hashes : IsCached(cache, h)' => IsCached(cache, h)
  BY NewlyCached
<1> QED
  BY <1>1, <1>2 DEF Known

LEMMA StepLedger ==
    OneWorker /\ TypeOK /\ LedgerInv /\ [Next]_vars => [Ledger!Next]_<<Items, Known>>
<1> SUFFICES ASSUME OneWorker, TypeOK, LedgerInv, [Next]_vars
             PROVE  Ledger!Next \/ UNCHANGED <<Items, Known>>
  OBVIOUS
<1>1. /\ queue \in Seq(QueueRow) /\ texts \in Seq(SUBSET Hashes) /\ Len(texts) = Len(queue)
      /\ DOMAIN queue = 1 .. Len(queue) /\ DOMAIN texts = 1 .. Len(queue) /\ Len(queue) \in Nat
  BY LenProperties DEF TypeOK
<1>3. ASSUME NEW w \in Workers, AddItem(w)
      PROVE  Ledger!Next
  <2>1. PICK p \in Paragraphs, r \in Risks :
           queue' = Added(queue, p, r) /\ texts' = Append(texts, {source[p]})
    BY <1>3 DEF AddItem, TypeOK
  <2>2. source[p] \in Hashes
    BY DEF TypeOK
  <2>3. /\ DOMAIN Added(queue, p, r) = 1 .. Len(queue) + 1
        /\ \A i \in DOMAIN queue : Added(queue, p, r)[i] = queue[i]
        /\ Added(queue, p, r)[Len(queue) + 1] = [para |-> p, risk |-> r, status |-> "pending"]
    BY <1>1, AddedProperties
  <2>4. /\ \A i \in 1 .. Len(queue) : texts'[i] = texts[i]
        /\ texts'[Len(queue) + 1] = {source[p]}
    BY <1>1, <2>1, <2>2, AppendProperties
  <2> DEFINE item == [para |-> p, texts |-> {source[p]}, state |-> "open"]
  <2>5. Items' = Append(Items, item)
    <3>1. /\ Items \in Seq(LedgerItem) /\ Len(Items) = Len(queue)
          /\ \A i \in DOMAIN queue : Items[i] =
                [para |-> queue[i].para, texts |-> texts[i], state |-> OpenOr(queue[i].status)]
      BY <1>1, ItemsType DEF Items
    <3>2. /\ Items' \in Seq(LedgerItem) /\ Len(Items') = Len(queue')
          /\ \A i \in DOMAIN queue' : Items'[i] =
                [para |-> queue'[i].para, texts |-> texts'[i], state |-> OpenOr(queue'[i].status)]
      <4>1. TypeOK'
        BY StepTypeOK
      <4>2. queue' \in Seq(QueueRow) /\ texts' \in Seq(SUBSET Hashes) /\ Len(texts') = Len(queue')
        BY <4>1 DEF TypeOK
      <4> QED
        BY <4>2, ItemsType DEF Items
    <3>3. Len(queue') = Len(queue) + 1
      BY <1>1, <2>1, AddedProperties
    <3>4. item \in LedgerItem
      BY <2>2 DEF LedgerItem
    <3> HIDE DEF item
    <3>5. /\ Append(Items, item) \in Seq(LedgerItem)
          /\ Len(Append(Items, item)) = Len(queue) + 1
          /\ \A i \in 1 .. Len(queue) : Append(Items, item)[i] = Items[i]
          /\ Append(Items, item)[Len(queue) + 1] = item
      BY <3>1, <3>4, AppendProperties
    <3>6. ASSUME NEW i \in 1 .. Len(queue)
          PROVE  Items'[i] = Items[i]
      <4>1. queue'[i] = queue[i] /\ texts'[i] = texts[i] /\ i \in DOMAIN queue'
        <5>1. DOMAIN queue' = 1 .. Len(queue) + 1 /\ queue'[i] = queue[i]
          BY <1>1, <2>1, <2>3
        <5>2. i \in 1 .. Len(queue) + 1
          BY <1>1
        <5> QED
          BY <2>4, <5>1, <5>2, Zenon
      <4>2. Items[i] = [para |-> queue[i].para, texts |-> texts[i],
                        state |-> OpenOr(queue[i].status)]
        BY <1>1, <3>1
      <4>3. Items'[i] = [para |-> queue'[i].para, texts |-> texts'[i],
                         state |-> OpenOr(queue'[i].status)]
        BY <3>2, <4>1
      <4> QED
        BY <4>1, <4>2, <4>3, Zenon
    <3>7. Items'[Len(queue) + 1] = item
      <4>1. /\ queue'[Len(queue) + 1].para = p
            /\ OpenOr(queue'[Len(queue) + 1].status) = "open"
        <5>1. queue'[Len(queue) + 1] = [para |-> p, risk |-> r, status |-> "pending"]
          BY <2>1, <2>3
        <5> QED
          BY <5>1 DEF OpenOr
      <4>2. Len(queue) + 1 \in DOMAIN queue'
        BY <1>1, <2>1, <2>3
      <4> QED
        BY <2>4, <3>2, <4>1, <4>2 DEF item
    <3>8. \A i \in 1 .. Len(Items') : Items'[i] = Append(Items, item)[i]
      <4>1. ASSUME NEW i \in 1 .. Len(queue) + 1
            PROVE  Items'[i] = Append(Items, item)[i]
        <5>1. CASE i \in 1 .. Len(queue)
          BY <3>5, <3>6, <5>1
        <5>2. CASE i = Len(queue) + 1
          BY <3>5, <3>7, <5>2
        <5>3. i \in 1 .. Len(queue) \/ i = Len(queue) + 1
          BY <1>1
        <5> QED
          BY <5>1, <5>2, <5>3
      <4>2. 1 .. Len(Items') = 1 .. Len(queue) + 1
        BY <3>2, <3>3
      <4> QED
        BY <4>1, <4>2
    <3>9. Len(Items') = Len(Append(Items, item))
      BY <3>2, <3>3, <3>5
    <3> QED
      BY <3>2, <3>5, <3>8, <3>9, SeqEqual
  <2>6. \A v \in Workers : ~PutCache(v)
    <3>1. queue' # queue
      BY <1>1, <2>1, <2>3
    <3> QED
      BY <3>1 DEF PutCache
  <2>7. Known' = Known
    BY <2>6, SameKnown
  <2> QED
    BY <2>2, <2>5, <2>7 DEF Ledger!Next, Ledger!Submit, Items, Known, OpenOr
<1>4. ASSUME NEW p \in Paragraphs, NEW h \in Hashes, Extract(p, h)
      PROVE  Ledger!Next
  <2>0. \A i \in DOMAIN queue : Items[i] \in LedgerItem
    <3>1. Items \in Seq(LedgerItem) /\ Len(Items) = Len(queue)
      BY <1>1, ItemsType DEF Items
    <3> QED
      BY <1>1, <3>1, ElementOfSeq
  <2>1. /\ queue' = queue /\ cache' = cache
        /\ texts' = [i \in DOMAIN texts |->
                        IF queue[i].para = p /\ queue[i].status # "done"
                           THEN texts[i] \cup {h} ELSE texts[i]]
    BY <1>4 DEF Extract
  <2>2. Known' = Known
    BY <2>1 DEF Known, IsCached
  <2>3. Items' = [i \in DOMAIN Items |->
                    IF Items[i].para = p /\ Items[i].state = "open"
                       THEN [Items[i] EXCEPT !.texts = @ \cup {h}]
                       ELSE Items[i]]
    <3>1. ASSUME NEW i \in DOMAIN queue
          PROVE  [para |-> queue'[i].para, texts |-> texts'[i], state |-> OpenOr(queue'[i].status)] =
                    IF Items[i].para = p /\ Items[i].state = "open"
                       THEN [Items[i] EXCEPT !.texts = @ \cup {h}]
                       ELSE Items[i]
      <4>1. Items[i] = [para |-> queue[i].para, texts |-> texts[i],
                        state |-> OpenOr(queue[i].status)]
        BY DEF Items
      <4>2. CASE queue[i].para = p /\ queue[i].status # "done"
        <5>1. texts'[i] = texts[i] \cup {h}
          BY <1>1, <2>1, <4>2
        <5>2. Items[i].para = p /\ Items[i].state = "open"
          BY <4>1, <4>2 DEF OpenOr
        <5>3. [Items[i] EXCEPT !.texts = @ \cup {h}] =
                [para |-> queue[i].para, texts |-> texts[i] \cup {h},
                 state |-> OpenOr(queue[i].status)]
          <6>1. /\ Items[i].para = queue[i].para /\ Items[i].texts = texts[i]
                /\ Items[i].state = OpenOr(queue[i].status)
            BY <4>1
          <6>2. Items[i] \in LedgerItem
            BY <2>0
          <6> QED
            BY <6>1, <6>2, ItemUpdate
        <5> QED
          BY <2>1, <5>1, <5>2, <5>3, Zenon
      <4>3. CASE ~(queue[i].para = p /\ queue[i].status # "done")
        <5>1. texts'[i] = texts[i]
          BY <1>1, <2>1, <4>3
        <5> QED
          BY <2>1, <4>1, <4>3, <5>1 DEF OpenOr
      <4> QED
        BY <4>2, <4>3
    <3>2. DOMAIN Items = DOMAIN queue /\ DOMAIN queue' = DOMAIN queue
      BY <2>1 DEF Items
    <3> QED
      BY <3>1, <3>2 DEF Items
  <2> QED
    BY <2>2, <2>3 DEF Ledger!Next, Ledger!Change, Items, Known, OpenOr
<1>5. ASSUME NEW w \in Workers, PutCache(w)
      PROVE  Ledger!Next
  <2>1. Items' = Items
    BY <1>5, SameItems DEF PutCache
  <2>2. job[w].hash \in Hashes /\ job[w].draft # Blank
    BY <1>5 DEF PutCache, TypeOK, HasHash, HasDraft
  <2>3. Known' = Known \cup {job[w].hash}
    <3>1. cache \in [Hashes -> CacheRow]
      BY DEF TypeOK
    <3>2. \A h \in Hashes : cache'[h].text # Blank <=> h = job[w].hash \/ cache[h].text # Blank
      BY <1>5, <2>2, <3>1 DEF PutCache, Put
    <3> QED
      BY <2>2, <3>2 DEF Known, IsCached
  <2> QED
    BY <2>1, <2>2, <2>3 DEF Ledger!Next, Ledger!Learn, Items, Known, OpenOr
<1>6. ASSUME NEW w \in Workers, Recover(w) \/ Claim(w) \/ Fail(w)
      PROVE  UNCHANGED <<Items, Known>>
  <2>1. cache' = cache /\ texts' = texts
    BY <1>6 DEF Recover, Claim, Fail
  <2>2. (Claim(w) \/ Fail(w)) => queue[job[w].row].status # "done" /\ ~MarkDone(w)
    BY DEF LedgerInv, Claim, Fail, MarkDone, HasRow, HasHash
  <2>3. /\ DOMAIN queue' = DOMAIN queue
        /\ \A i \in DOMAIN queue : /\ queue'[i].para = queue[i].para
                                   /\ queue'[i].status = "done" <=> queue[i].status = "done"
    <3>1. CASE Recover(w)
      BY <3>1, QueueEffect
    <3>2. CASE Claim(w) \/ Fail(w)
      BY <2>2, <3>2, QueueEffect
    <3> QED
      BY <1>6, <3>1, <3>2
  <2>4. Items' = Items
    BY <2>1, <2>3, SameItems
  <2>5. Known' = Known
    BY <2>1 DEF Known, IsCached
  <2> QED
    BY <2>4, <2>5
<1>7. ASSUME NEW w \in Workers, MarkDone(w)
      PROVE  Ledger!Next
  <2> DEFINE row == job[w].row
  <2>0. \A i \in DOMAIN queue : Items[i] \in LedgerItem
    <3>1. Items \in Seq(LedgerItem) /\ Len(Items) = Len(queue)
      BY <1>1, ItemsType DEF Items
    <3> QED
      BY <1>1, <3>1, ElementOfSeq
  <2>1. /\ cache' = cache /\ texts' = texts /\ pc[w] = "finish"
    BY <1>7 DEF MarkDone
  <2>2. /\ row \in DOMAIN queue /\ DOMAIN queue' = DOMAIN queue
        /\ \A i \in DOMAIN queue :
              /\ queue'[i].para = queue[i].para
              /\ queue'[i].status = "done" <=> IF i = row THEN TRUE ELSE queue[i].status = "done"
    BY <1>7, QueueEffect
  <2>3. /\ queue[row].status # "done" /\ job[w].hash \in texts[row]
        /\ IsCached(cache, job[w].hash) /\ job[w].hash \in Hashes
    BY <2>1 DEF LedgerInv, TypeOK, HasRow, HasHash
  <2> HIDE DEF row
  <2>4. \A i \in DOMAIN queue : Items[i] =
           [para |-> queue[i].para, texts |-> texts[i], state |-> OpenOr(queue[i].status)]
    BY DEF Items
  <2>5. Items[row].state = "open" /\ Items[row].texts = texts[row]
    <3>1. Items[row] = [para |-> queue[row].para, texts |-> texts[row],
                        state |-> OpenOr(queue[row].status)]
      BY <2>2, <2>4
    <3>2. OpenOr(queue[row].status) = "open"
      BY <2>3 DEF OpenOr
    <3> QED
      BY <3>1, <3>2
  <2>6. job[w].hash \in Items[row].texts \cap Known
    BY <2>3, <2>5 DEF Known
  <2>7. Items' = [Items EXCEPT ![row].state = "done"]
    <3>1. ASSUME NEW i \in DOMAIN queue
          PROVE  [para |-> queue'[i].para, texts |-> texts'[i], state |-> OpenOr(queue'[i].status)] =
                    IF i = row THEN [Items[i] EXCEPT !.state = "done"] ELSE Items[i]
      <4>1. CASE i = row
        <5>1. OpenOr(queue'[i].status) = "done"
          BY <2>2, <4>1 DEF OpenOr
        <5>2. [Items[i] EXCEPT !.state = "done"] =
                [para |-> queue[i].para, texts |-> texts[i], state |-> "done"]
          <6>1. Items[i].para = queue[i].para /\ Items[i].texts = texts[i]
            <7>1. Items[i] = [para |-> queue[i].para, texts |-> texts[i],
                              state |-> OpenOr(queue[i].status)]
              BY <2>4
            <7> QED
              BY <7>1
          <6>2. Items[i] \in LedgerItem
            BY <2>0
          <6> QED
            BY <6>1, <6>2, ItemUpdate
        <5>3. queue'[i].para = queue[i].para
          BY <2>2
        <5> QED
          BY <2>1, <4>1, <5>1, <5>2, <5>3, Zenon
      <4>2. CASE i # row
        <5>1. OpenOr(queue'[i].status) = OpenOr(queue[i].status)
          BY <2>2, <4>2 DEF OpenOr
        <5>2. queue'[i].para = queue[i].para
          BY <2>2
        <5> QED
          BY <2>1, <2>4, <4>2, <5>1, <5>2, Zenon
      <4> QED
        BY <4>1, <4>2
    <3>2. DOMAIN Items = DOMAIN queue /\ DOMAIN queue' = DOMAIN queue
      BY <2>2 DEF Items
    <3>3. Items' = [i \in DOMAIN queue |->
                      IF i = row THEN [Items[i] EXCEPT !.state = "done"] ELSE Items[i]]
      BY <3>1, <3>2 DEF Items
    <3>4. [Items EXCEPT ![row].state = "done"] = [i \in DOMAIN Items |->
                      IF i = row THEN [Items[i] EXCEPT !.state = "done"] ELSE Items[i]]
      OBVIOUS
    <3> QED
      BY <3>2, <3>3, <3>4
  <2>8. Known' = Known
    BY <2>1 DEF Known, IsCached
  <2>9. row \in DOMAIN Items
    BY <2>2 DEF Items
  <2> QED
    BY <2>5, <2>6, <2>7, <2>8, <2>9 DEF Ledger!Next, Ledger!Finish, Items, Known, OpenOr
<1>8. CASE \/ \E w \in Workers : \/ Start(w) \/ Select(w) \/ Stop(w) \/ Reuse(w) \/ Miss(w)
                                \/ Answer(w) \/ AddRule(w) \/ AddEdge(w) \/ Crash(w)
           \/ \E c \in Commands, h \in Hashes : Resolve(c, h)
           \/ WriteNode \/ Abandon \/ UNCHANGED vars
  <2>1. UNCHANGED <<queue, texts, cache>>
    BY <1>8 DEF Start, Select, Stop, Reuse, Miss, Answer, AddRule, AddEdge, Crash, Resolve,
       WriteNode, Abandon, vars
  <2>2. Items' = Items
    BY <2>1, SameItems
  <2>3. Known' = Known
    BY <2>1 DEF Known, IsCached
  <2> QED
    BY <2>2, <2>3
<1>9. CASE VerifyCache \/ EditCache \/ Settle
  <2>1. UNCHANGED <<queue, texts>>
    BY <1>9 DEF VerifyCache, EditCache, Settle
  <2>2. Items' = Items
    BY <2>1, SameItems
  <2>3. \A w \in Workers : ~PutCache(w)
    <3>1. review' # review
      <4>1. review \in Review
        BY <1>9 DEF VerifyCache, EditCache, Settle, TypeOK
      <4> QED
        BY <1>9, <4>1 DEF VerifyCache, EditCache, Settle, Review
    <3> QED
      BY <3>1 DEF PutCache
  <2> QED
    BY <2>2, <2>3, SameKnown
<1> QED
  BY <1>3, <1>4, <1>5, <1>6, <1>7, <1>8, <1>9 DEF Next, Work, ReviewStep

(* Queue and cache keep a ledger: each item is finished once, and only     *)
(* when a text its paragraph had in the meantime has been narrated.        *)
THEOREM KeepsTheLedger == ASSUME OneWorker PROVE Spec => KeepsLedger
<1>1. Init => Items = << >> /\ Known = {}
  BY InitLedger DEF Ledger!Init, Items, Known, OpenOr
<1>2. TypeOK /\ LedgerInv /\ [Next]_vars => LedgerInv'
  BY StepLedgerInv
<1>3. TypeOK /\ LedgerInv /\ [Next]_vars => [Ledger!Next]_<<Items, Known>>
  BY StepLedger
<1>4. KeepsLedger <=> Ledger!Init /\ [][Ledger!Next]_<<Items, Known>>
  BY DEF KeepsLedger, Ledger!Spec, Items, Known, OpenOr
<1> QED
  BY <1>2, <1>3, <1>4, InitLedger, InitLedgerInv, TypeCorrect, PTL DEF Spec
==============================================================================
