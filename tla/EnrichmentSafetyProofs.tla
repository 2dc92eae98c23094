----------------------- MODULE EnrichmentSafetyProofs -----------------------
(***************************************************************************)
(* The safety properties of Enrichment, for every value of the constants.  *)
(* Each is strengthened to an invariant that also says what the processes  *)
(* know in the middle of an item.                                          *)
(***************************************************************************)
EXTENDS EnrichmentProofs, FiniteSetTheorems

USE BlankAssumption, RisksAssumption, EnrichmentAssumption
    DEF storeVars, workerVars, ghostVars

(* `brain enrich` is meant to run as one process: its claim on a row is    *)
(* not atomic (Select, Claim), and Recover takes every claim back.         *)
OneWorker == \A v, w \in Workers : v = w

-----------------------------------------------------------------------------
(* The budget.                                                             *)

(* A worker that is on its way to a call has budget left.                  *)
BudgetInv ==
    /\ Overspend
    /\ \A w \in Workers : pc[w] \in {"claim", "examine", "call"} => tokens[w] < Budget

LEMMA InitBudget == Init => BudgetInv
  BY DEF Init, InitProcesses, BudgetInv, Overspend

LEMMA StepBudget == TypeOK /\ BudgetInv /\ [Next]_vars => BudgetInv'
<1> SUFFICES ASSUME TypeOK, BudgetInv, [Next]_vars
             PROVE  BudgetInv'
  OBVIOUS
<1> USE DEF BudgetInv, Overspend
<1>1. tokens \in [Workers -> Nat] /\ pc \in [Workers -> PC]
  BY DEF TypeOK
<1>2. CASE UNCHANGED <<tokens, pc>>
  BY <1>2
<1>3. ASSUME NEW w \in Workers, Answer(w)
      PROVE  BudgetInv'
  <2>1. PICK c \in Costs : tokens' = [tokens EXCEPT ![w] = @ + c]
    BY <1>3 DEF Answer
  <2>2. c \in Nat /\ c <= MaxCost
    <3> HIDE DEF BudgetInv, Overspend
    <3> QED
      OBVIOUS
  <2>3. tokens'[w] = tokens[w] + c /\ \A v \in Workers \ {w} : tokens'[v] = tokens[v]
    BY <1>1, <2>1
  <2>4. \A v \in Workers : pc'[v] = IF v = w THEN "node" ELSE pc[v]
    BY <1>1, <1>3 DEF Answer, Goto
  <2>5. tokens[w] + c < Budget + MaxCost
    <3>1. pc[w] = "call"
      BY <1>3 DEF Answer
    <3>2. tokens[w] < Budget
      BY <3>1
    <3> HIDE DEF BudgetInv, Overspend
    <3> QED
      BY <1>1, <2>2, <3>2
  <2>6. ASSUME NEW v \in Workers
        PROVE  /\ tokens'[v] = 0 \/ tokens'[v] < Budget + MaxCost
               /\ pc'[v] \in {"claim", "examine", "call"} => tokens'[v] < Budget
    <3>1. CASE v = w
      BY <2>3, <2>4, <2>5, <3>1
    <3>2. CASE v # w
      BY <2>3, <2>4, <3>2
    <3> QED
      BY <3>1, <3>2
  <2> QED
    BY <2>6
<1>4. ASSUME NEW w \in Workers, Start(w) \/ Crash(w)
      PROVE  BudgetInv'
  BY <1>1, <1>4 DEF Start, Crash, Goto
<1>5. ASSUME NEW w \in Workers, Select(w)
      PROVE  BudgetInv'
  BY <1>1, <1>5 DEF Select, Goto
<1>6. ASSUME NEW w \in Workers,
             \/ Recover(w) \/ Stop(w) \/ Claim(w) \/ Reuse(w) \/ Miss(w) \/ Fail(w)
             \/ AddRule(w) \/ AddEdge(w) \/ PutCache(w) \/ MarkDone(w)
      PROVE  BudgetInv'
  <2>1. tokens' = tokens /\ \E l \in PC :
           /\ pc' = [pc EXCEPT ![w] = l]
           /\ l \in {"examine", "call"} => pc[w] \in {"claim", "examine"}
           /\ l # "claim"
    BY <1>6 DEF Recover, Stop, Claim, Reuse, Miss, Fail, AddRule, AddEdge, PutCache, MarkDone,
       Goto, PC
  <2> QED
    BY <1>1, <2>1
<1>7. CASE \E c \in Commands, h \in Hashes : Resolve(c, h)
  BY <1>2, <1>7 DEF Resolve, workerVars
<1>8. CASE ReviewStep \/ Abandon
  BY <1>2, <1>8 DEF ReviewStep, WriteNode, VerifyCache, EditCache, Settle, Abandon, workerVars
<1>9. CASE \E p \in Paragraphs, h \in Hashes : Extract(p, h)
  BY <1>2, <1>9 DEF Extract, workerVars
<1>10. ASSUME NEW w \in Workers, AddItem(w)
       PROVE  BudgetInv'
  BY <1>2, <1>10 DEF AddItem
<1> HIDE DEF BudgetInv, Overspend
<1>11. CASE UNCHANGED vars
  BY <1>2, <1>11 DEF vars
<1> QED
  BY <1>11, <1>3, <1>4, <1>5, <1>6, <1>7, <1>8, <1>9, <1>10 DEF Next, Work

(* However many workers run and crash, and whatever the calls cost, no run *)
(* spends a full call's cost beyond its budget.                            *)
THEOREM BudgetHolds == Spec => []Overspend
<1>1. BudgetInv => Overspend
  BY DEF BudgetInv
<1> QED
  BY <1>1, InitBudget, StepBudget, TypeCorrect, PTL DEF Spec

-----------------------------------------------------------------------------
(* The claims on the queue.                                                *)

(* Which rows the worker's program counter allows to be claimed.           *)
ClaimInv ==
    /\ OneClaim
    /\ \A w \in Workers :
          /\ pc[w] \in {"loop", "claim"} => RowsIn(queue, "in_progress") = {}
          /\ (HasRow(w) /\ pc[w] # "claim")
                => RowsIn(queue, "in_progress") \subseteq {job[w].row}

LEMMA InitClaim == Init => ClaimInv
<1> SUFFICES ASSUME Init PROVE ClaimInv
  OBVIOUS
<1>1. RowsIn(queue, "in_progress") = {}
  BY DEF Init, RowsIn
<1> QED
  BY <1>1 DEF Init, InitProcesses, ClaimInv, OneClaim, HasRow, HasHash, HasDraft

LEMMA StepClaim == OneWorker /\ TypeOK /\ ClaimInv /\ [Next]_vars => ClaimInv'
<1> SUFFICES ASSUME OneWorker, TypeOK, ClaimInv, [Next]_vars
             PROVE  ClaimInv'
  OBVIOUS
<1> DEFINE Claimed == RowsIn(queue, "in_progress")
           Allowed(w, S) ==
              /\ pc'[w] \in {"loop", "claim"} => S = {}
              /\ pc'[w] \in {"examine", "call", "node", "edge", "cache", "finish"}
                    => S \subseteq {job'[w].row}
<1>1. /\ queue \in Seq(QueueRow) /\ pc \in [Workers -> PC] /\ job \in [Workers -> Job]
      /\ \A w \in Workers : HasRow(w) => job[w].row \in DOMAIN queue
  BY DEF TypeOK
<1>2. \A i, j \in Claimed : i = j
  BY DEF ClaimInv, OneClaim
<1>3. ASSUME NEW w \in Workers,
             \A i, j \in Claimed' : i = j,
             Allowed(w, Claimed')
      PROVE  ClaimInv'
  <2>1. \A v \in Workers : v = w
    BY DEF OneWorker
  <2>2. (HasRow(w) /\ pc[w] # "claim")' =>
            pc'[w] \in {"examine", "call", "node", "edge", "cache", "finish"}
    BY DEF HasRow, HasHash, HasDraft
  <2>3. /\ pc'[w] \in {"loop", "claim"} => Claimed' = {}
        /\ (HasRow(w) /\ pc[w] # "claim")' => Claimed' \subseteq {job'[w].row}
    BY <1>3, <2>2
  <2> QED
    BY <1>3, <2>1, <2>3 DEF ClaimInv, OneClaim
<1>4. ASSUME NEW w \in Workers
      PROVE  /\ pc[w] \in {"loop", "claim"} => Claimed = {}
             /\ pc[w] \in {"examine", "call", "node", "edge", "cache", "finish"}
                   => Claimed \subseteq {job[w].row} /\ job[w].row \in DOMAIN queue
             /\ pc[w] = "claim" => job[w].row \in DOMAIN queue
  BY <1>1 DEF ClaimInv, HasRow, HasHash, HasDraft
<1>5. CASE UNCHANGED <<queue, pc, job>>
  BY <1>5 DEF ClaimInv, OneClaim, HasRow, HasHash, HasDraft
<1>6. ASSUME NEW w \in Workers,
             Start(w) \/ Select(w) \/ Stop(w) \/ Reuse(w) \/ Miss(w) \/ Answer(w)
             \/ AddRule(w) \/ AddEdge(w) \/ PutCache(w) \/ Crash(w)
      PROVE  ClaimInv'
  <2>1. queue' = queue
    BY <1>6 DEF Start, Select, Stop, Reuse, Miss, Answer, AddRule, AddEdge, PutCache, Crash
  <2>2. \/ pc'[w] \in {"idle", "populate"}
        \/ pc'[w] = "claim" /\ pc[w] = "loop"
        \/ /\ pc[w] \in {"examine", "call", "node", "edge", "cache"}
           /\ pc'[w] \in {"call", "node", "edge", "cache", "finish"}
           /\ job'[w].row = job[w].row
    <3>1. CASE Start(w) \/ Stop(w) \/ Crash(w)
      BY <1>1, <3>1 DEF Start, Stop, Crash, Goto
    <3>2. CASE Select(w)
      BY <1>1, <3>2 DEF Select, Goto
    <3>3. CASE Reuse(w) \/ Miss(w)
      BY <1>1, <3>3 DEF Reuse, Miss, Goto, Job
    <3>4. CASE Answer(w)
      BY <1>1, <3>4 DEF Answer, Goto, Job
    <3>5. CASE AddRule(w) \/ AddEdge(w) \/ PutCache(w)
      BY <1>1, <3>5 DEF AddRule, AddEdge, PutCache, Goto
    <3> QED
      BY <1>6, <3>1, <3>2, <3>3, <3>4, <3>5
  <2>3. Allowed(w, Claimed)
    BY <1>4, <2>2
  <2> QED
    BY <1>2, <1>3, <2>1, <2>3
<1>7. ASSUME NEW w \in Workers, AddItem(w)
      PROVE  ClaimInv'
  <2>1. Claimed' = Claimed
    BY <1>1, <1>7, ClaimedRows DEF AddItem, TypeOK
  <2>2. pc'[w] = "populate"
    BY <1>7 DEF AddItem
  <2> QED
    BY <1>2, <1>3, <2>1, <2>2
<1>8. ASSUME NEW w \in Workers, Recover(w)
      PROVE  ClaimInv'
  <2>1. Claimed' = {}
    BY <1>1, <1>8, ClaimedRows DEF Recover
  <2> QED
    BY <1>3, <2>1
<1>9. ASSUME NEW w \in Workers, Claim(w)
      PROVE  ClaimInv'
  <2>1. Claimed = {} /\ job[w].row \in DOMAIN queue
    BY <1>4, <1>9 DEF Claim
  <2>2. Claimed' = {job[w].row}
    BY <1>1, <1>9, <2>1, ClaimedRows DEF Claim
  <2>3. pc'[w] = "examine" /\ job' = job
    BY <1>1, <1>9 DEF Claim, Goto
  <2> QED
    BY <1>3, <2>2, <2>3
<1>10. ASSUME NEW w \in Workers, Fail(w) \/ MarkDone(w)
       PROVE  ClaimInv'
  <2>1. pc[w] \in {"call", "finish"} /\ pc'[w] = "loop"
    BY <1>1, <1>10 DEF Fail, MarkDone, Goto
  <2>2. Claimed \subseteq {job[w].row} /\ job[w].row \in DOMAIN queue
    BY <1>4, <2>1
  <2>3. Claimed' = Claimed \ {job[w].row}
    BY <1>1, <1>10, <2>2, ClaimedRows DEF Fail, MarkDone
  <2>4. Claimed' = {}
    BY <2>2, <2>3
  <2> QED
    BY <1>3, <2>4
<1>11. CASE \/ \E c \in Commands, h \in Hashes : Resolve(c, h)
            \/ ReviewStep \/ Abandon
            \/ \E p \in Paragraphs, h \in Hashes : Extract(p, h)
  BY <1>5, <1>11 DEF Resolve, ReviewStep, WriteNode, VerifyCache, EditCache, Settle, Abandon,
     Extract
<1>12. CASE UNCHANGED vars
  BY <1>5, <1>12 DEF vars
<1> HIDE DEF Claimed, Allowed
<1> QED
  BY <1>6, <1>7, <1>8, <1>9, <1>10, <1>11, <1>12 DEF Next, Work

(* With one worker at a time, a claim a crash left behind is taken back    *)
(* before the next is laid: never are two rows in progress.                *)
THEOREM ClaimsAreTakenBack == ASSUME OneWorker PROVE Spec => []OneClaim
<1>1. ClaimInv => OneClaim
  BY DEF ClaimInv
<1>2. TypeOK /\ ClaimInv /\ [Next]_vars => ClaimInv'
  BY StepClaim
<1> QED
  BY <1>1, <1>2, InitClaim, TypeCorrect, PTL DEF Spec

-----------------------------------------------------------------------------
(* What the graph knows of a cached narration.                             *)

(* How far the worker has come with writing a rule, and that a review does *)
(* not write a node back without its text.                                 *)
GroundInv ==
    /\ Grounded
    /\ \A w \in Workers : pc[w] \in {"edge", "cache"} => IsRule(job[w].hash)
    /\ \A w \in Workers : pc[w] = "cache" =>
          <<queue[job[w].row].para, job[w].hash>> \in impl
    /\ review # NoReview => review.node.text # Blank

LEMMA InitGround == Init => GroundInv
<1> SUFFICES ASSUME Init PROVE GroundInv
  OBVIOUS
<1>1. \A h \in Hashes : ~IsCached(cache, h)
  BY DEF Init, NoRows, NoRow, IsCached
<1> QED
  BY <1>1 DEF Init, InitProcesses, GroundInv, Grounded

(* A row stays in the queue and stays its paragraph's.                     *)
LEMMA RowsKept ==
    ASSUME TypeOK, [Next]_vars
    PROVE  \A i \in DOMAIN queue : i \in DOMAIN queue' /\ queue'[i].para = queue[i].para
<1> DEFINE Kept == \A i \in DOMAIN queue : i \in DOMAIN queue' /\ queue'[i].para = queue[i].para
<1>1. queue \in Seq(QueueRow)
  BY DEF TypeOK
<1>2. CASE queue' = queue
  BY <1>2
<1>3. ASSUME NEW w \in Workers, AddItem(w)
      PROVE  Kept
  <2>1. PICK p \in Paragraphs, r \in Risks : queue' = Added(queue, p, r)
    BY <1>3 DEF AddItem, TypeOK
  <2>2. /\ DOMAIN Added(queue, p, r) = 1 .. Len(queue) + 1
        /\ \A i \in DOMAIN queue : Added(queue, p, r)[i] = queue[i]
    BY <1>1, AddedProperties
  <2>3. DOMAIN queue = 1 .. Len(queue) /\ Len(queue) \in Nat
    BY <1>1, LenProperties
  <2> QED
    BY <2>1, <2>2, <2>3
<1>4. ASSUME NEW w \in Workers, Recover(w)
      PROVE  Kept
  <2>1. /\ DOMAIN queue' = DOMAIN queue
        /\ \A j \in DOMAIN queue : queue'[j] =
              [para |-> queue[j].para, risk |-> queue[j].risk,
               status |-> IF queue[j].status = "in_progress" THEN "pending" ELSE queue[j].status]
    BY <1>1, <1>4, ResetProperties DEF Recover
  <2> QED
    BY <2>1
<1>5. ASSUME NEW w \in Workers, Claim(w) \/ Fail(w) \/ MarkDone(w)
      PROVE  Kept
  <2>1. job[w].row \in DOMAIN queue
    BY <1>5 DEF Claim, Fail, MarkDone, TypeOK, HasRow, HasHash
  <2>2. PICK s \in Status : queue' = SetStatus(queue, job[w].row, s)
    BY <1>5 DEF Claim, Fail, MarkDone, Status
  <2>3. /\ DOMAIN queue' = DOMAIN queue
        /\ \A j \in DOMAIN queue : queue'[j] =
              [para |-> queue[j].para, risk |-> queue[j].risk,
               status |-> IF j = job[w].row THEN s ELSE queue[j].status]
    BY <1>1, <2>1, <2>2, SetStatusProperties
  <2> QED
    BY <2>3
<1>6. CASE \/ \E w \in Workers : \/ Start(w) \/ Select(w) \/ Stop(w) \/ Reuse(w) \/ Miss(w)
                                \/ Answer(w) \/ AddRule(w) \/ AddEdge(w) \/ PutCache(w)
                                \/ Crash(w)
           \/ \E c \in Commands, h \in Hashes : Resolve(c, h)
           \/ ReviewStep \/ Abandon
           \/ \E p \in Paragraphs, h \in Hashes : Extract(p, h)
  BY <1>2, <1>6 DEF Start, Select, Stop, Reuse, Miss, Answer, AddRule, AddEdge, PutCache, Crash,
     Resolve, ReviewStep, WriteNode, VerifyCache, EditCache, Settle, Abandon, Extract
<1>7. CASE UNCHANGED vars
  BY <1>2, <1>7 DEF vars
<1> QED
  BY <1>3, <1>4, <1>5, <1>6, <1>7 DEF Next, Work

(* A rule and an edge once in the graph stay there: nothing deletes, and   *)
(* whoever replaces a rule has a text for it.                              *)
LEMMA GraphKept ==
    ASSUME TypeOK, GroundInv, [Next]_vars
    PROVE  /\ \A h \in Hashes : IsRule(h) => IsRule(h)'
           /\ impl \subseteq impl'
           /\ \A e \in impl' : e \in impl \/ IsRule(e[2])'
<1> DEFINE Kept == /\ \A h \in Hashes : IsRule(h) => IsRule(h)'
                   /\ impl \subseteq impl'
                   /\ \A e \in impl' : e \in impl \/ IsRule(e[2])'
<1>1. CASE UNCHANGED <<rules, impl>>
  BY <1>1 DEF IsRule
<1>2. ASSUME NEW w \in Workers, AddRule(w)
      PROVE  Kept
  <2>1. job[w].draft \in Narrations /\ job[w].hash \in Hashes
    BY <1>2 DEF AddRule, TypeOK, HasHash, HasDraft
  <2>2. \A h \in Hashes : IsRule(h) => IsRule(h)'
    BY <1>2, <2>1 DEF AddRule, IsRule, TypeOK
  <2> QED
    BY <1>2, <2>2 DEF AddRule
<1>3. ASSUME NEW w \in Workers, AddEdge(w)
      PROVE  Kept
  <2>1. IsRule(job[w].hash) /\ rules' = rules
    BY <1>3 DEF AddEdge, GroundInv
  <2>2. impl' = impl \cup {<<queue[job[w].row].para, job[w].hash>>}
    BY <1>3 DEF AddEdge
  <2> QED
    BY <2>1, <2>2 DEF IsRule
<1>4. CASE WriteNode
  <2>1. review \in Review /\ review.node.text # Blank
    BY <1>4 DEF WriteNode, GroundInv, TypeOK
  <2>2. review.node \in Rule /\ review.cmd \in Commands
    BY <2>1 DEF Review
  <2>3. Reviewed(review.cmd, review.node).text # Blank
    BY <2>1, <2>2 DEF Reviewed, Commands, Rule
  <2>4. \A h \in Hashes : IsRule(h) => IsRule(h)'
    BY <1>4, <2>3 DEF WriteNode, IsRule, TypeOK
  <2> QED
    BY <1>4, <2>4 DEF WriteNode
<1>5. CASE \/ \E w \in Workers : \/ Start(w) \/ AddItem(w) \/ Recover(w) \/ Select(w) \/ Stop(w)
                                \/ Claim(w) \/ Reuse(w) \/ Miss(w) \/ Answer(w) \/ Fail(w)
                                \/ PutCache(w) \/ MarkDone(w) \/ Crash(w)
           \/ \E c \in Commands, h \in Hashes : Resolve(c, h)
           \/ VerifyCache \/ EditCache \/ Settle \/ Abandon
           \/ \E p \in Paragraphs, h \in Hashes : Extract(p, h)
  BY <1>1, <1>5 DEF Start, AddItem, Recover, Select, Stop, Claim, Reuse, Miss, Answer, Fail,
     PutCache, MarkDone, Crash, Resolve, VerifyCache, EditCache, Settle, Abandon, Extract
<1>6. CASE UNCHANGED vars
  BY <1>1, <1>6 DEF vars
<1> QED
  BY <1>2, <1>3, <1>4, <1>5, <1>6 DEF Next, Work, ReviewStep

(* Only PutCache gives a hash its first cached narration.                  *)
LEMMA NewlyCached ==
    ASSUME TypeOK, [Next]_vars, NEW h \in Hashes, IsCached(cache, h)'
    PROVE  IsCached(cache, h) \/ \E w \in Workers : PutCache(w) /\ job[w].hash = h
<1>1. CASE cache' = cache
  BY <1>1 DEF IsCached
<1>2. ASSUME NEW w \in Workers, PutCache(w)
      PROVE  IsCached(cache, h) \/ job[w].hash = h
  <2>1. job[w].draft \in Texts /\ job[w].hash \in Hashes /\ FALSE \in BOOLEAN
    BY <1>2 DEF PutCache, TypeOK, HasHash, HasDraft, Texts
  <2>2. cache \in [Hashes -> CacheRow]
    BY DEF TypeOK
  <2>3. h # job[w].hash => cache'[h] = cache[h]
    BY <1>2, <2>1, <2>2 DEF PutCache, Put
  <2> QED
    BY <2>3 DEF IsCached
<1>3. CASE VerifyCache \/ EditCache \/ Settle
  <2>1. review \in Review /\ cache \in [Hashes -> CacheRow]
    BY <1>3 DEF VerifyCache, EditCache, Settle, TypeOK
  <2>2. review.rule \in Hashes
    BY <2>1 DEF Review
  <2>3. CASE VerifyCache
    BY <2>1, <2>2, <2>3, MarkVerifiedType DEF VerifyCache, IsCached
  <2>4. CASE EditCache
    <3>1. CASE IsCached(cache, review.rule)
      <4>1. h # review.rule => cache'[h] = cache[h]
        BY <2>1, <2>2, <2>4, <3>1 DEF EditCache, Put
      <4> QED
        BY <3>1, <4>1 DEF IsCached
    <3>2. CASE ~IsCached(cache, review.rule)
      BY <1>1, <2>4, <3>2 DEF EditCache
    <3> QED
      BY <3>1, <3>2
  <2>5. CASE Settle
    <3> DEFINE s == review.cmd = "flag"
    <3>1. s \in BOOLEAN
      OBVIOUS
    <3>2. cache' = MarkStale(cache, review.rule, s)
      BY <2>5 DEF Settle
    <3> HIDE DEF s
    <3>3. cache'[h].text = cache[h].text
      BY <2>1, <2>2, <3>1, <3>2, MarkStaleType
    <3> QED
      BY <3>3 DEF IsCached
  <2> QED
    BY <1>3, <2>3, <2>4, <2>5
<1>4. CASE \/ \E w \in Workers : \/ Start(w) \/ AddItem(w) \/ Recover(w) \/ Select(w) \/ Stop(w)
                                \/ Claim(w) \/ Reuse(w) \/ Miss(w) \/ Answer(w) \/ Fail(w)
                                \/ AddRule(w) \/ AddEdge(w) \/ MarkDone(w) \/ Crash(w)
           \/ \E c \in Commands, g \in Hashes : Resolve(c, g)
           \/ WriteNode \/ Abandon
           \/ \E p \in Paragraphs, g \in Hashes : Extract(p, g)
  BY <1>1, <1>4 DEF Start, AddItem, Recover, Select, Stop, Claim, Reuse, Miss, Answer, Fail,
     AddRule, AddEdge, MarkDone, Crash, Resolve, WriteNode, Abandon, Extract
<1>5. CASE UNCHANGED vars
  BY <1>1, <1>5 DEF vars
<1> QED
  BY <1>2, <1>3, <1>4, <1>5 DEF Next, Work, ReviewStep

(* What a worker knows while it writes: each step of the order rule, edge, *)
(* cache hands the next one what it needs.                                 *)
LEMMA StepWriting ==
    ASSUME TypeOK, GroundInv, [Next]_vars, NEW w \in Workers
    PROVE  /\ pc'[w] \in {"edge", "cache"} => IsRule(job[w].hash)'
           /\ pc'[w] = "cache" => <<queue'[job'[w].row].para, job'[w].hash>> \in impl'
<1> DEFINE Known == /\ pc'[w] \in {"edge", "cache"} => IsRule(job[w].hash)'
                    /\ pc'[w] = "cache" => <<queue'[job'[w].row].para, job'[w].hash>> \in impl'
<1>1. /\ pc \in [Workers -> PC] /\ job \in [Workers -> Job]
      /\ pc[w] \in {"edge", "cache"} => IsRule(job[w].hash)
      /\ pc[w] = "cache" => <<queue[job[w].row].para, job[w].hash>> \in impl
      /\ HasHash(w) => job[w].hash \in Hashes /\ job[w].row \in DOMAIN queue
      /\ HasDraft(w) => job[w].draft \in Narrations
  BY DEF TypeOK, GroundInv, HasRow, HasHash
<1>2. CASE pc'[w] = pc[w] /\ job'[w] = job[w]
  <2>1. pc[w] \in {"edge", "cache"} => job[w].hash \in Hashes /\ job[w].row \in DOMAIN queue
    BY <1>1 DEF HasHash, HasDraft
  <2>2. pc'[w] \in {"edge", "cache"} => IsRule(job[w].hash)'
    <3> SUFFICES ASSUME pc[w] \in {"edge", "cache"} PROVE IsRule(job[w].hash)'
      BY <1>2
    <3>1. IsRule(job[w].hash) /\ rules'[job[w].hash].text # Blank
      BY <1>1, <2>1, GraphKept DEF IsRule
    <3> QED
      BY <1>2, <3>1 DEF IsRule
  <2>3. pc'[w] = "cache" => <<queue'[job'[w].row].para, job'[w].hash>> \in impl'
    <3> SUFFICES ASSUME pc[w] = "cache" PROVE <<queue[job[w].row].para, job[w].hash>> \in impl'
      BY <1>2, <2>1, RowsKept
    <3> QED
      BY <1>1, GraphKept
  <2> QED
    BY <2>2, <2>3
<1>3. CASE pc'[w] \notin {"edge", "cache"}
  BY <1>3
<1>4. CASE AddRule(w)
  <2>1. job[w].draft # Blank /\ job[w].hash \in Hashes
    BY <1>1, <1>4 DEF AddRule, HasHash, HasDraft
  <2>2. IsRule(job[w].hash)'
    BY <1>4, <2>1 DEF AddRule, IsRule, TypeOK
  <2>3. pc'[w] = "edge"
    BY <1>1, <1>4 DEF AddRule, Goto
  <2> QED
    BY <2>2, <2>3
<1>5. CASE AddEdge(w)
  BY <1>1, <1>5 DEF AddEdge, Goto, IsRule
<1>6. CASE \E v \in Workers : v # w /\ (Start(v) \/ Work(v) \/ Crash(v))
  <2>1. PICK v \in Workers : v # w /\ (Start(v) \/ Work(v) \/ Crash(v))
    BY <1>6
  <2>2. pc'[w] = pc[w]
    BY <1>1, <2>1 DEF Work, Start, AddItem, Recover, Select, Stop, Claim, Reuse, Miss, Answer,
       Fail, AddRule, AddEdge, PutCache, MarkDone, Crash, Goto
  <2>3. job'[w] = job[w]
    BY <1>1, <2>1 DEF Work, Start, AddItem, Recover, Select, Stop, Claim, Reuse, Miss, Answer,
       Fail, AddRule, AddEdge, PutCache, MarkDone, Crash, LetGo
  <2> QED
    BY <1>2, <2>2, <2>3
<1>7. CASE \/ Start(w) \/ AddItem(w) \/ Recover(w) \/ Select(w) \/ Stop(w) \/ Claim(w) \/ Reuse(w)
           \/ Miss(w) \/ Answer(w) \/ Fail(w) \/ PutCache(w) \/ MarkDone(w) \/ Crash(w)
  BY <1>1, <1>3, <1>7 DEF Start, AddItem, Recover, Select, Stop, Claim, Reuse, Miss, Answer, Fail,
     PutCache, MarkDone, Crash, Goto
<1>8. CASE \/ \E c \in Commands, h \in Hashes : Resolve(c, h)
           \/ ReviewStep \/ Abandon
           \/ \E p \in Paragraphs, h \in Hashes : Extract(p, h)
  BY <1>2, <1>8 DEF Resolve, ReviewStep, WriteNode, VerifyCache, EditCache, Settle, Abandon,
     Extract
<1>9. CASE UNCHANGED vars
  BY <1>2, <1>9 DEF vars
<1> QED
  BY <1>4, <1>5, <1>6, <1>7, <1>8, <1>9 DEF Next, Work

LEMMA StepGround == TypeOK /\ GroundInv /\ [Next]_vars => GroundInv'
<1> SUFFICES ASSUME TypeOK, GroundInv, [Next]_vars
             PROVE  GroundInv'
  OBVIOUS
<1>1. ASSUME NEW h \in Hashes, IsCached(cache, h)'
      PROVE  \E p \in Paragraphs : <<p, h>> \in impl'
  <2>1. CASE IsCached(cache, h)
    BY <2>1, GraphKept DEF GroundInv, Grounded
  <2>2. CASE \E w \in Workers : PutCache(w) /\ job[w].hash = h
    <3>1. PICK w \in Workers : PutCache(w) /\ job[w].hash = h
      BY <2>2
    <3>2. <<queue[job[w].row].para, h>> \in impl
      BY <3>1 DEF PutCache, GroundInv
    <3>3. queue[job[w].row].para \in Paragraphs
      BY <3>2 DEF TypeOK
    <3> QED
      BY <3>2, <3>3, GraphKept
  <2> QED
    BY <1>1, <2>1, <2>2, NewlyCached
<1>2. \A e \in impl' : IsRule(e[2])'
  <2>1. \A e \in impl : e[2] \in Hashes /\ IsRule(e[2])
    BY DEF GroundInv, Grounded, TypeOK
  <2>2. \A h \in Hashes : IsRule(h) => IsRule(h)'
    BY GraphKept
  <2>3. \A e \in impl' : e \in impl \/ IsRule(e[2])'
    BY GraphKept
  <2> QED
    BY <2>1, <2>2, <2>3
<1>3. review' # NoReview => review'.node.text # Blank
  <2>1. CASE review' = review \/ review' = NoReview
    BY <2>1 DEF GroundInv
  <2>2. ASSUME NEW c \in Commands, NEW h \in Hashes, Resolve(c, h)
        PROVE  review'.node.text # Blank
    BY <2>2 DEF Resolve, IsRule
  <2>3. CASE WriteNode \/ VerifyCache \/ EditCache
    <3>1. review \in Review /\ review.node.text # Blank
      BY <2>3 DEF WriteNode, VerifyCache, EditCache, TypeOK, GroundInv
    <3>2. review' = NoReview \/ review'.node = review.node
      BY <2>3, <3>1 DEF WriteNode, VerifyCache, EditCache, Review
    <3> QED
      BY <3>1, <3>2
  <2>4. CASE Settle \/ Abandon
    BY <2>1, <2>4 DEF Settle, Abandon
  <2>5. CASE \/ \E w \in Workers : Start(w) \/ Work(w) \/ Crash(w)
             \/ \E p \in Paragraphs, h \in Hashes : Extract(p, h)
    BY <2>1, <2>5 DEF Start, Work, AddItem, Recover, Select, Stop, Claim, Reuse, Miss, Answer, Fail,
       AddRule, AddEdge, PutCache, MarkDone, Crash, Extract
  <2>6. CASE UNCHANGED vars
    BY <2>1, <2>6 DEF vars
  <2> QED
    BY <2>2, <2>3, <2>4, <2>5, <2>6 DEF Next, ReviewStep
<1> QED
  BY <1>1, <1>2, <1>3, StepWriting DEF GroundInv, Grounded

(* Whoever crashes, reviews or runs at the same time: a cached narration   *)
(* has its rule in the graph, on an edge from a paragraph.                 *)
THEOREM GroundedAlways == Spec => []Grounded
<1>1. GroundInv => Grounded
  BY DEF GroundInv
<1> QED
  BY <1>1, InitGround, StepGround, TypeCorrect, PTL DEF Spec

-----------------------------------------------------------------------------
(* What has been paid for.                                                 *)

(* A payment that no event has excused is in the cache, or still in a      *)
(* worker's hands; and a worker about to pay owes nothing for the hash.    *)
Secured(h) == IsFresh(cache, h) \/ \E w \in Workers : Holds(w, h)

PaidInv ==
    /\ \A h \in Hashes : paid[h] <= pardons[h] + (IF Secured(h) THEN 1 ELSE 0)
    /\ \A w \in Workers : pc[w] = "call" => paid[job[w].hash] <= pardons[job[w].hash]

LEMMA InitPaid == Init => PaidInv
  BY DEF Init, InitProcesses, Nothing, PaidInv, Secured

(* The statements on narration_cache that keep a fresh row fresh.          *)
LEMMA FreshKept ==
    ASSUME NEW c \in [Hashes -> CacheRow], NEW h \in Hashes, NEW g \in Hashes, IsFresh(c, h)
    PROVE  /\ \A t \in Texts, v \in BOOLEAN : IsFresh(Put(c, g, t, v), h)
           /\ IsFresh(MarkVerified(c, g), h)
           /\ IsFresh(MarkStale(c, g, FALSE), h)
<1>1. ASSUME NEW t \in Texts, NEW v \in BOOLEAN
      PROVE  IsFresh(Put(c, g, t, v), h)
  <2>1. t # Blank
    BY DEF Texts
  <2>2. Put(c, g, t, v)[h] = IF h = g THEN [text |-> t, verified |-> v, stale |-> FALSE] ELSE c[h]
    BY DEF Put
  <2> QED
    BY <2>1, <2>2 DEF IsFresh, IsCached
<1>2. IsFresh(MarkVerified(c, g), h)
  BY MarkVerifiedType DEF IsFresh, IsCached
<1>3. IsFresh(MarkStale(c, g, FALSE), h)
  <2>1. MarkStale(c, g, FALSE)[h].text = c[h].text /\ ~MarkStale(c, g, FALSE)[h].stale
    BY DEF MarkStale, IsFresh, IsCached, CacheRow
  <2> QED
    BY <2>1 DEF IsFresh, IsCached
<1> QED
  BY <1>1, <1>2, <1>3

(* A review makes nothing less fresh, but for a flag.                      *)
LEMMA ReviewKeepsFresh ==
    ASSUME TypeOK, NEW h \in Hashes, IsFresh(cache, h),
           VerifyCache \/ EditCache \/ (Settle /\ review.cmd # "flag")
    PROVE  IsFresh(cache, h)'
<1>1. review \in Review /\ cache \in [Hashes -> CacheRow]
  BY DEF VerifyCache, EditCache, Settle, TypeOK
<1>2. review.rule \in Hashes
  BY <1>1 DEF Review
<1>3. CASE VerifyCache
  BY <1>1, <1>2, <1>3, FreshKept DEF VerifyCache
<1>4. CASE EditCache
  <2>1. Correction \in Texts /\ TRUE \in BOOLEAN
    BY DEF Texts
  <2>2. CASE IsCached(cache, review.rule)
    <3>1. cache' = Put(cache, review.rule, Correction, TRUE)
      BY <1>4, <2>2 DEF EditCache
    <3>2. IsFresh(Put(cache, review.rule, Correction, TRUE), h)
      BY <1>1, <1>2, <2>1, FreshKept
    <3> QED
      BY <3>1, <3>2 DEF IsFresh, IsCached
  <2>3. CASE ~IsCached(cache, review.rule)
    BY <1>4, <2>3 DEF EditCache, IsFresh, IsCached
  <2> QED
    BY <2>2, <2>3
<1>5. CASE Settle /\ review.cmd # "flag"
  <2>1. cache' = MarkStale(cache, review.rule, FALSE)
    <3>1. (review.cmd = "flag") = FALSE
      BY <1>5
    <3> QED
      BY <1>5, <3>1 DEF Settle
  <2> QED
    BY <1>1, <1>2, <2>1, FreshKept
<1> QED
  BY <1>3, <1>4, <1>5

LEMMA StepPaid == OneWorker /\ TypeOK /\ PaidInv /\ [Next]_vars => PaidInv'
<1> SUFFICES ASSUME OneWorker, TypeOK, PaidInv, [Next]_vars
             PROVE  PaidInv'
  OBVIOUS
<1>1. /\ paid \in [Hashes -> Nat] /\ pardons \in [Hashes -> Nat]
      /\ pc \in [Workers -> PC] /\ job \in [Workers -> Job]
      /\ cache \in [Hashes -> CacheRow]
      /\ \A w \in Workers : HasHash(w) => job[w].hash \in Hashes
  BY DEF TypeOK
<1>2. ASSUME \A h \in Hashes : Secured(h) => Secured(h)',
             \A w \in Workers : pc'[w] = "call" => pc[w] = "call" /\ job'[w].hash = job[w].hash,
             paid' = paid, pardons' = pardons
      PROVE  PaidInv'
  <2>1. ASSUME NEW h \in Hashes
        PROVE  paid'[h] <= pardons'[h] + (IF Secured(h)' THEN 1 ELSE 0)
    <3>1. paid[h] <= pardons[h] + (IF Secured(h) THEN 1 ELSE 0)
      BY DEF PaidInv
    <3>2. Secured(h) => Secured(h)'
      BY <1>2
    <3>3. paid[h] \in Nat /\ pardons[h] \in Nat
      BY <1>1
    <3>4. paid[h] <= pardons[h] + (IF Secured(h)' THEN 1 ELSE 0)
      BY <3>1, <3>2, <3>3
    <3> QED
      BY <1>2, <3>4
  <2> QED
    BY <1>2, <2>1 DEF PaidInv
<1>3. ASSUME cache' = cache,
             \A w \in Workers : HasDraft(w) => HasDraft(w)' /\ job'[w].hash = job[w].hash
      PROVE  \A h \in Hashes : Secured(h) => Secured(h)'
  BY <1>3 DEF Secured, Holds
<1>4. CASE UNCHANGED <<cache, pc, job, paid, pardons>>
  BY <1>2, <1>3, <1>4 DEF HasDraft
<1>5. ASSUME NEW w \in Workers,
             \/ Start(w) \/ AddItem(w) \/ Recover(w) \/ Select(w) \/ Stop(w) \/ Claim(w)
             \/ Reuse(w) \/ Fail(w) \/ AddRule(w) \/ AddEdge(w) \/ MarkDone(w)
      PROVE  PaidInv'
  <2>1. \A v \in Workers : v = w
    BY DEF OneWorker
  <2>2. cache' = cache /\ paid' = paid /\ pardons' = pardons
    BY <1>5 DEF Start, AddItem, Recover, Select, Stop, Claim, Reuse, Fail, AddRule, AddEdge,
       MarkDone
  <2>3. pc'[w] # "call"
    BY <1>1, <1>5 DEF Start, AddItem, Recover, Select, Stop, Claim, Reuse, Fail, AddRule, AddEdge,
       MarkDone, Goto
  <2>4. HasDraft(w) => HasDraft(w)' /\ job' = job
    BY <1>1, <1>5 DEF Start, AddItem, Recover, Select, Stop, Claim, Reuse, Fail, AddRule, AddEdge,
       MarkDone, Goto, HasDraft
  <2>5. \A h \in Hashes : Secured(h) => Secured(h)'
    BY <1>3, <2>1, <2>2, <2>4
  <2> QED
    BY <1>2, <2>1, <2>2, <2>3, <2>5
<1>6. ASSUME NEW w \in Workers, Miss(w)
      PROVE  PaidInv'
  <2> DEFINE g == source[queue[job[w].row].para]
  <2>1. \A v \in Workers : v = w
    BY DEF OneWorker
  <2>2. /\ cache' = cache /\ paid' = paid /\ pardons' = pardons
        /\ pc[w] = "examine" /\ ~IsFresh(cache, g)
        /\ job' = [job EXCEPT ![w].hash = g]
    BY <1>6 DEF Miss
  <2>3. job'[w].hash = g
    BY <1>1, <2>2 DEF Job
  <2>4. TypeOK' /\ pc'[w] = "call"
    <3>1. TypeOK'
      BY <1>6, ItemStepTypeOK
    <3>2. pc'[w] = "call"
      BY <1>1, <1>6 DEF Miss, Goto
    <3> QED
      BY <3>1, <3>2
  <2>5. g \in Hashes
    BY <2>3, <2>4 DEF TypeOK, HasHash
  <2> HIDE DEF g
  <2>6. \A h \in Hashes : Secured(h) => Secured(h)'
    BY <1>3, <2>1, <2>2 DEF HasDraft
  <2>7. ~Secured(g)
    BY <2>1, <2>2 DEF Secured, Holds, HasDraft
  <2>8. paid[g] <= pardons[g]
    <3>1. paid[g] <= pardons[g] + (IF Secured(g) THEN 1 ELSE 0)
      BY <2>5 DEF PaidInv
    <3> QED
      BY <1>1, <2>5, <2>7, <3>1
  <2>9. ASSUME NEW h \in Hashes
        PROVE  paid'[h] <= pardons'[h] + (IF Secured(h)' THEN 1 ELSE 0)
    <3>1. paid[h] <= pardons[h] + (IF Secured(h) THEN 1 ELSE 0)
      BY DEF PaidInv
    <3>2. paid[h] \in Nat /\ pardons[h] \in Nat
      BY <1>1
    <3>3. paid[h] <= pardons[h] + (IF Secured(h)' THEN 1 ELSE 0)
      BY <2>6, <3>1, <3>2
    <3> QED
      BY <2>2, <3>3
  <2> QED
    BY <2>1, <2>2, <2>3, <2>8, <2>9 DEF PaidInv
<1>7. ASSUME NEW w \in Workers, Answer(w)
      PROVE  PaidInv'
  <2>1. \A v \in Workers : v = w
    BY DEF OneWorker
  <2>2. /\ cache' = cache /\ pardons' = pardons /\ pc[w] = "call" /\ pc'[w] = "node"
        /\ paid' = [paid EXCEPT ![job[w].hash] = @ + 1]
    BY <1>1, <1>7 DEF Answer, Goto
  <2>3. job[w].hash \in Hashes /\ job'[w].hash = job[w].hash
    BY <1>1, <1>7 DEF Answer, HasHash, Job
  <2>4. ASSUME NEW h \in Hashes, h = job[w].hash
        PROVE  Secured(h)'
    BY <2>2, <2>3, <2>4 DEF Secured, Holds, HasDraft
  <2>5. \A h \in Hashes : Secured(h) => Secured(h)'
    BY <1>3, <2>1, <2>2 DEF HasDraft
  <2>6. paid[job[w].hash] <= pardons[job[w].hash]
    BY <2>2 DEF PaidInv
  <2>7. ASSUME NEW h \in Hashes
        PROVE  paid'[h] <= pardons[h] + (IF Secured(h)' THEN 1 ELSE 0)
    <3>1. paid[h] <= pardons[h] + (IF Secured(h) THEN 1 ELSE 0)
      BY DEF PaidInv
    <3>2. paid[h] \in Nat /\ pardons[h] \in Nat
      BY <1>1
    <3>3. CASE h = job[w].hash
      <4>1. paid'[h] = paid[h] + 1
        BY <1>1, <2>2, <3>3
      <4>2. paid[h] <= pardons[h] /\ Secured(h)'
        BY <2>4, <2>6, <3>3
      <4> QED
        BY <3>2, <4>1, <4>2
    <3>4. CASE h # job[w].hash
      <4>1. paid'[h] = paid[h]
        BY <1>1, <2>2, <3>4
      <4>2. Secured(h) => Secured(h)'
        BY <2>5
      <4> QED
        BY <3>1, <3>2, <4>1, <4>2
    <3> QED
      BY <3>3, <3>4
  <2> QED
    BY <2>1, <2>2, <2>7 DEF PaidInv
<1>8. ASSUME NEW w \in Workers, PutCache(w)
      PROVE  PaidInv'
  <2>1. \A v \in Workers : v = w
    BY DEF OneWorker
  <2>2. job[w].hash \in Hashes /\ job[w].draft \in Texts /\ FALSE \in BOOLEAN
    BY <1>8 DEF PutCache, TypeOK, HasHash, HasDraft, Texts
  <2>3. cache' = Put(cache, job[w].hash, job[w].draft, FALSE)
    BY <1>8 DEF PutCache
  <2>4. \A h \in Hashes : IsFresh(cache, h) => IsFresh(cache, h)'
    BY <1>1, <2>2, <2>3, FreshKept
  <2>5. IsFresh(cache, job[w].hash)'
    <3>1. cache'[job[w].hash] = [text |-> job[w].draft, verified |-> FALSE, stale |-> FALSE]
      BY <1>1, <2>2, <2>3 DEF Put
    <3>2. job[w].draft # Blank /\ job' = job
      BY <2>2, <1>8 DEF PutCache, Texts
    <3> QED
      BY <3>1, <3>2 DEF IsFresh, IsCached
  <2>6. job' = job
    BY <1>8 DEF PutCache
  <2>7. \A h \in Hashes : Secured(h) => Secured(h)'
    BY <2>1, <2>4, <2>5, <2>6 DEF Secured, Holds
  <2>8. pc'[w] # "call" /\ paid' = paid /\ pardons' = pardons
    BY <1>1, <1>8 DEF PutCache, Goto
  <2> QED
    BY <1>2, <2>1, <2>7, <2>8
<1>9. ASSUME NEW w \in Workers, Crash(w)
      PROVE  PaidInv'
  <2>1. \A v \in Workers : v = w
    BY DEF OneWorker
  <2>2. /\ pardons' = [h \in Hashes |-> IF Holds(w, h) THEN pardons[h] + 1 ELSE pardons[h]]
        /\ paid' = paid /\ cache' = cache /\ pc'[w] = "idle"
    BY <1>1, <1>9 DEF Crash, Goto
  <2>3. ASSUME NEW h \in Hashes
        PROVE  paid[h] <= pardons'[h] + (IF Secured(h)' THEN 1 ELSE 0)
    <3>1. paid[h] <= pardons[h] + (IF Secured(h) THEN 1 ELSE 0)
      BY DEF PaidInv
    <3>2. paid[h] \in Nat /\ pardons[h] \in Nat
      BY <1>1
    <3>3. CASE Holds(w, h)
      <4>1. pardons'[h] = pardons[h] + 1
        BY <2>2, <3>3
      <4> QED
        BY <3>1, <3>2, <4>1
    <3>4. CASE ~Holds(w, h)
      <4>1. Secured(h) => Secured(h)'
        BY <2>1, <2>2, <3>4 DEF Secured
      <4>2. pardons'[h] = pardons[h]
        BY <2>2, <3>4
      <4> QED
        BY <3>1, <3>2, <4>1, <4>2
    <3> QED
      BY <3>3, <3>4
  <2> QED
    BY <2>1, <2>2, <2>3 DEF PaidInv
<1>10. CASE \/ \E c \in Commands, h \in Hashes : Resolve(c, h)
            \/ WriteNode \/ Abandon
            \/ \E p \in Paragraphs, h \in Hashes : Extract(p, h)
  BY <1>4, <1>10 DEF Resolve, WriteNode, Abandon, Extract
<1>11. CASE VerifyCache \/ EditCache \/ (Settle /\ review.cmd # "flag")
  <2>1. /\ pc' = pc /\ job' = job /\ paid' = paid /\ pardons' = pardons
    BY <1>11 DEF VerifyCache, EditCache, Settle
  <2>2. \A h \in Hashes : IsFresh(cache, h) => IsFresh(cache, h)'
    BY <1>11, ReviewKeepsFresh
  <2>3. \A h \in Hashes : Secured(h) => Secured(h)'
    BY <2>1, <2>2 DEF Secured, Holds, HasDraft
  <2> QED
    BY <1>2, <2>1, <2>3
<1>12. CASE Settle /\ review.cmd = "flag"
  <2>1. review \in Review
    BY <1>12 DEF Settle, TypeOK
  <2>2. review.rule \in Hashes
    BY <2>1 DEF Review
  <2> DEFINE r == review.rule
  <2>3. /\ pc' = pc /\ job' = job /\ paid' = paid
        /\ pardons' = IF IsCached(cache, r) THEN [pardons EXCEPT ![r] = @ + 1] ELSE pardons
    BY <1>12 DEF Settle
  <2>4. cache' = MarkStale(cache, r, TRUE)
    <3>1. (review.cmd = "flag") = TRUE
      BY <1>12
    <3> QED
      BY <1>12, <3>1 DEF Settle
  <2> HIDE DEF r
  <2>5. CASE ~IsCached(cache, r)
    BY <1>4, <2>3, <2>4, <2>5 DEF MarkStale
  <2>6. CASE IsCached(cache, r)
    <3>1. \A h \in Hashes : pardons'[h] = IF h = r THEN pardons[h] + 1 ELSE pardons[h]
      BY <1>1, <2>3, <2>6
    <3>2. ASSUME NEW h \in Hashes, h # r, Secured(h)
          PROVE  Secured(h)'
      <4>1. cache'[h] = cache[h]
        BY <1>1, <2>4, <2>6, <3>2 DEF MarkStale
      <4> QED
        BY <2>3, <3>2, <4>1 DEF Secured, Holds, HasDraft, IsFresh, IsCached
    <3>3. ASSUME NEW h \in Hashes
          PROVE  paid[h] <= pardons'[h] + (IF Secured(h)' THEN 1 ELSE 0)
      <4>1. paid[h] <= pardons[h] + (IF Secured(h) THEN 1 ELSE 0)
        BY DEF PaidInv
      <4>2. paid[h] \in Nat /\ pardons[h] \in Nat
        BY <1>1
      <4>3. CASE h = r
        BY <3>1, <4>1, <4>2, <4>3
      <4>4. CASE h # r
        <5>1. pardons'[h] = pardons[h] /\ (Secured(h) => Secured(h)')
          BY <3>1, <3>2, <4>4
        <5> QED
          BY <4>1, <4>2, <5>1
      <4> QED
        BY <4>3, <4>4
    <3>4. ASSUME NEW w \in Workers, pc[w] = "call"
          PROVE  paid[job[w].hash] <= pardons'[job[w].hash]
      <4>1. job[w].hash \in Hashes /\ paid[job[w].hash] <= pardons[job[w].hash]
        BY <1>1, <3>4 DEF PaidInv, HasHash
      <4> QED
        BY <1>1, <3>1, <4>1
    <3> QED
      BY <2>3, <3>3, <3>4 DEF PaidInv
  <2> QED
    BY <2>5, <2>6
<1>13. CASE UNCHANGED vars
  BY <1>4, <1>13 DEF vars
<1> QED
  BY <1>5, <1>6, <1>7, <1>8, <1>9, <1>10, <1>11, <1>12, <1>13 DEF Next, Work, ReviewStep

(* Whatever is queued, failed, reviewed and changed in whatever order, one *)
(* worker at a time pays for a hash once, and once more for each flag and  *)
(* each crash that lost the answer.                                        *)
THEOREM NeverPaidTwice == ASSUME OneWorker PROVE Spec => []PaidOnce
<1>1. TypeOK /\ PaidInv => PaidOnce
  <2> SUFFICES ASSUME TypeOK, PaidInv, NEW h \in Hashes PROVE paid[h] <= 1 + pardons[h]
    BY DEF PaidOnce
  <2>1. paid[h] <= pardons[h] + (IF Secured(h) THEN 1 ELSE 0)
    BY DEF PaidInv
  <2>2. paid[h] \in Nat /\ pardons[h] \in Nat
    BY DEF TypeOK
  <2> QED
    BY <2>1, <2>2
<1>2. TypeOK /\ PaidInv /\ [Next]_vars => PaidInv'
  BY StepPaid
<1> QED
  BY <1>1, <1>2, InitPaid, TypeCorrect, PTL DEF Spec

-----------------------------------------------------------------------------
(* What several processes pay.                                             *)

Callers(h) == {w \in Workers : pc[w] = "call" /\ job[w].hash = h}

Holders(h) == {w \in Workers : Holds(w, h)}

(* The payments for h since it was pardoned last are at most: while it is  *)
(* not fresh, one for each process that holds an answer; once it is fresh, *)
(* one for each process that is not about to ask.                          *)
Spare(h) == IF IsFresh(cache, h) THEN Cardinality(Workers) - Cardinality(Callers(h))
                                 ELSE Cardinality(Holders(h))

ShareInv == \A h \in Hashes : paid[h] <= Cardinality(Workers) * pardons[h] + Spare(h)

LEMMA Shares ==
    ASSUME NEW k \in Nat, NEW n \in Nat
    PROVE  k * n \in Nat /\ k * (n + 1) = k * n + k
  OBVIOUS

LEMMA SpareBound ==
    ASSUME IsFiniteSet(Workers), NEW h
    PROVE  /\ Cardinality(Workers) \in Nat
           /\ Spare(h) \in 0 .. Cardinality(Workers)
           /\ Spare(h)' \in 0 .. Cardinality(Workers)
<1>1. /\ Callers(h) \subseteq Workers /\ Holders(h) \subseteq Workers
      /\ Callers(h)' \subseteq Workers /\ Holders(h)' \subseteq Workers
  BY DEF Callers, Holders
<1>2. \A S \in SUBSET Workers : /\ Cardinality(S) \in Nat
                                /\ Cardinality(S) <= Cardinality(Workers)
  BY FS_Subset, FS_CardinalityType
<1>3. Cardinality(Workers) \in Nat
  BY FS_CardinalityType
<1> QED
  BY <1>1, <1>2, <1>3 DEF Spare

(* When the share of a hash does not shrink.                               *)
LEMMA SpareGrows ==
    ASSUME IsFiniteSet(Workers), NEW h,
           IsFresh(cache, h) => IsFresh(cache, h)' /\ Callers(h)' \subseteq Callers(h),
           ~IsFresh(cache, h) /\ ~IsFresh(cache, h)' => Holders(h) \subseteq Holders(h)',
           ~IsFresh(cache, h) /\ IsFresh(cache, h)' => Holders(h) \cap Callers(h)' = {}
    PROVE  Spare(h) <= Spare(h)'
<1>1. /\ Callers(h) \subseteq Workers /\ Holders(h) \subseteq Workers
      /\ Callers(h)' \subseteq Workers /\ Holders(h)' \subseteq Workers
  BY DEF Callers, Holders
<1>2. \A S \in SUBSET Workers : IsFiniteSet(S) /\ Cardinality(S) \in Nat
  BY FS_Subset, FS_CardinalityType
<1>3. Cardinality(Workers) \in Nat
  BY FS_CardinalityType
<1>4. CASE IsFresh(cache, h)
  <2>1. Cardinality(Callers(h)') <= Cardinality(Callers(h))
    BY <1>1, <1>2, <1>4, FS_Subset
  <2> QED
    BY <1>1, <1>2, <1>3, <1>4, <2>1 DEF Spare
<1>5. CASE ~IsFresh(cache, h) /\ ~IsFresh(cache, h)'
  <2>1. Cardinality(Holders(h)) <= Cardinality(Holders(h)')
    BY <1>1, <1>2, <1>5, FS_Subset
  <2> QED
    BY <1>5, <2>1 DEF Spare
<1>6. CASE ~IsFresh(cache, h) /\ IsFresh(cache, h)'
  <2> DEFINE H == Holders(h)
             C == Callers(h)'
  <2>1. H \cap C = {} /\ H \subseteq Workers /\ C \subseteq Workers
    BY <1>1, <1>6
  <2>2. Spare(h) = Cardinality(H) /\ Spare(h)' = Cardinality(Workers) - Cardinality(C)
    BY <1>6 DEF Spare
  <2> HIDE DEF H, C
  <2>3. IsFiniteSet(H) /\ IsFiniteSet(C) /\ Cardinality(H) \in Nat /\ Cardinality(C) \in Nat
    BY <1>2, <2>1
  <2>4. Cardinality(H \cup C) = Cardinality(H) + Cardinality(C)
    BY <2>1, <2>3, FS_Union, FS_EmptySet
  <2>5. H \cup C \subseteq Workers
    BY <2>1
  <2>6. Cardinality(H \cup C) <= Cardinality(Workers)
    BY <2>5, FS_Subset
  <2> QED
    BY <1>3, <2>2, <2>3, <2>4, <2>6
<1> QED
  BY <1>4, <1>5, <1>6

(* A step that pays nothing and pardons nothing.                           *)
LEMMA ShareKept ==
    ASSUME IsFiniteSet(Workers), TypeOK, ShareInv, NEW h \in Hashes,
           paid'[h] = paid[h], pardons'[h] = pardons[h], Spare(h) <= Spare(h)'
    PROVE  paid'[h] <= Cardinality(Workers) * pardons'[h] + Spare(h)'
<1>1. /\ paid[h] \in Nat /\ pardons[h] \in Nat /\ Cardinality(Workers) \in Nat
      /\ Spare(h) \in Nat /\ Spare(h)' \in Nat
  BY SpareBound DEF TypeOK
<1>2. paid[h] <= Cardinality(Workers) * pardons[h] + Spare(h)
  BY DEF ShareInv
<1> DEFINE c == Cardinality(Workers) * pardons[h]
<1>3. c \in Nat
  BY <1>1, Shares
<1>4. paid[h] <= c + Spare(h) /\ Cardinality(Workers) * pardons'[h] = c
  BY <1>2
<1> HIDE DEF c
<1> QED
  BY <1>1, <1>3, <1>4

(* A pardon is good for one payment of each process.                       *)
LEMMA SharePardoned ==
    ASSUME IsFiniteSet(Workers), TypeOK, ShareInv, NEW h \in Hashes,
           paid'[h] = paid[h], pardons'[h] = pardons[h] + 1
    PROVE  paid'[h] <= Cardinality(Workers) * pardons'[h] + Spare(h)'
<1> DEFINE k == Cardinality(Workers)
           c == Cardinality(Workers) * pardons[h]
<1>1. /\ paid[h] \in Nat /\ pardons[h] \in Nat /\ k \in Nat
      /\ Spare(h) \in 0 .. k /\ Spare(h)' \in Nat
  BY SpareBound DEF TypeOK
<1>2. paid[h] <= c + Spare(h)
  BY DEF ShareInv
<1>3. c \in Nat /\ k * pardons'[h] = c + k
  BY <1>1, Shares
<1> HIDE DEF c
<1>4. paid'[h] <= c + k + Spare(h)'
  <2> HIDE DEF k
  <2> QED
    BY <1>1, <1>2, <1>3
<1> QED
  BY <1>3, <1>4

LEMMA InitShare == IsFiniteSet(Workers) /\ Init => ShareInv
<1> SUFFICES ASSUME IsFiniteSet(Workers), Init, NEW h \in Hashes
             PROVE  paid[h] <= Cardinality(Workers) * pardons[h] + Spare(h)
  BY DEF ShareInv
<1>1. paid[h] = 0 /\ pardons[h] = 0 /\ Cardinality(Workers) \in Nat /\ Spare(h) \in Nat
  BY SpareBound DEF Init, Nothing
<1>2. Cardinality(Workers) * pardons[h] = 0
  BY <1>1
<1> QED
  BY <1>1, <1>2

LEMMA StepShare == IsFiniteSet(Workers) /\ TypeOK /\ ShareInv /\ [Next]_vars => ShareInv'
<1> SUFFICES ASSUME IsFiniteSet(Workers), TypeOK, ShareInv, [Next]_vars, NEW h \in Hashes
             PROVE  paid'[h] <= Cardinality(Workers) * pardons'[h] + Spare(h)'
  BY DEF ShareInv
<1>1. /\ paid \in [Hashes -> Nat] /\ pardons \in [Hashes -> Nat]
      /\ pc \in [Workers -> PC] /\ job \in [Workers -> Job]
      /\ cache \in [Hashes -> CacheRow]
      /\ \A w \in Workers : HasHash(w) => job[w].hash \in Hashes
  BY DEF TypeOK
<1>2. ASSUME cache' = cache, paid' = paid, pardons' = pardons,
             \A w \in Workers : w \in Callers(h)' /\ IsFresh(cache, h) => w \in Callers(h),
             \A w \in Workers : HasDraft(w) => HasDraft(w)' /\ job'[w].hash = job[w].hash
      PROVE  paid'[h] <= Cardinality(Workers) * pardons'[h] + Spare(h)'
  <2>1. Spare(h) <= Spare(h)'
    BY <1>2, SpareGrows DEF Callers, Holders, Holds, IsFresh, IsCached
  <2> QED
    BY <1>2, <2>1, ShareKept
<1>3. CASE UNCHANGED <<cache, pc, job, paid, pardons>>
  BY <1>2, <1>3 DEF HasDraft, Callers
<1>4. ASSUME NEW w \in Workers,
             \/ Start(w) \/ AddItem(w) \/ Recover(w) \/ Select(w) \/ Stop(w) \/ Claim(w)
             \/ Reuse(w) \/ Fail(w) \/ AddRule(w) \/ AddEdge(w) \/ MarkDone(w)
      PROVE  paid'[h] <= Cardinality(Workers) * pardons'[h] + Spare(h)'
  <2>1. cache' = cache /\ paid' = paid /\ pardons' = pardons
    BY <1>4 DEF Start, AddItem, Recover, Select, Stop, Claim, Reuse, Fail, AddRule, AddEdge,
       MarkDone
  <2>2. \A v \in Workers : v # w => pc'[v] = pc[v] /\ job'[v] = job[v]
    BY <1>1, <1>4 DEF Start, AddItem, Recover, Select, Stop, Claim, Reuse, Fail, AddRule, AddEdge,
       MarkDone, Goto, LetGo
  <2>3. AddItem(w) \/ pc'[w] # "call"
    BY <1>1, <1>4 DEF Start, Recover, Select, Stop, Claim, Reuse, Fail, AddRule, AddEdge,
       MarkDone, Goto
  <2>4. HasDraft(w) => HasDraft(w)' /\ job' = job
    BY <1>1, <1>4 DEF Start, AddItem, Recover, Select, Stop, Claim, Reuse, Fail, AddRule, AddEdge,
       MarkDone, Goto, HasDraft
  <2>5. AddItem(w) => pc' = pc /\ job' = job
    BY DEF AddItem
  <2>6. \A v \in Workers : v \in Callers(h)' => v \in Callers(h)
    BY <2>2, <2>3, <2>5 DEF Callers
  <2>7. \A v \in Workers : HasDraft(v) => HasDraft(v)' /\ job'[v].hash = job[v].hash
    BY <2>2, <2>4 DEF HasDraft
  <2> QED
    BY <1>2, <2>1, <2>6, <2>7
<1>5. ASSUME NEW w \in Workers, Miss(w)
      PROVE  paid'[h] <= Cardinality(Workers) * pardons'[h] + Spare(h)'
  <2> DEFINE g == source[queue[job[w].row].para]
  <2>1. /\ cache' = cache /\ paid' = paid /\ pardons' = pardons
        /\ pc[w] = "examine" /\ ~IsFresh(cache, g)
        /\ pc' = [pc EXCEPT ![w] = "call"] /\ job' = [job EXCEPT ![w].hash = g]
    BY <1>5 DEF Miss, Goto
  <2>2. job'[w].hash = g
    BY <1>1, <2>1 DEF Job
  <2> HIDE DEF g
  <2>3. \A v \in Workers : v # w => pc'[v] = pc[v] /\ job'[v] = job[v]
    BY <1>1, <2>1
  <2>4. \A v \in Workers : v \in Callers(h)' /\ IsFresh(cache, h) => v \in Callers(h)
    BY <2>1, <2>2, <2>3 DEF Callers
  <2>5. \A v \in Workers : HasDraft(v) => HasDraft(v)' /\ job'[v].hash = job[v].hash
    BY <2>1, <2>3 DEF HasDraft
  <2> QED
    BY <1>2, <2>1, <2>4, <2>5
<1>6. ASSUME NEW w \in Workers, Answer(w)
      PROVE  paid'[h] <= Cardinality(Workers) * pardons'[h] + Spare(h)'
  <2>1. /\ cache' = cache /\ pardons' = pardons /\ pc[w] = "call" /\ pc'[w] = "node"
        /\ paid' = [paid EXCEPT ![job[w].hash] = @ + 1]
        /\ \A v \in Workers : v # w => pc'[v] = pc[v] /\ job'[v] = job[v]
    BY <1>1, <1>6 DEF Answer, Goto
  <2>2. job[w].hash \in Hashes /\ job'[w].hash = job[w].hash
    BY <1>1, <1>6 DEF Answer, HasHash, Job
  <2>3. IsFresh(cache, h)' <=> IsFresh(cache, h)
    BY <2>1 DEF IsFresh, IsCached
  <2>4. CASE h # job[w].hash
    <3>1. Callers(h)' = Callers(h) /\ Holders(h)' = Holders(h)
      BY <2>1, <2>2, <2>4 DEF Callers, Holders, Holds, HasDraft
    <3>2. Spare(h) <= Spare(h)'
      BY <2>3, <3>1, SpareGrows
    <3>3. paid'[h] = paid[h]
      BY <1>1, <2>1, <2>4
    <3> QED
      BY <2>1, <3>2, <3>3, ShareKept
  <2>5. CASE h = job[w].hash
    <3>1. /\ w \in Callers(h) /\ Callers(h)' = Callers(h) \ {w}
          /\ w \notin Holders(h) /\ Holders(h)' = Holders(h) \cup {w}
      BY <2>1, <2>2, <2>5 DEF Callers, Holders, Holds, HasDraft
    <3>2. IsFiniteSet(Callers(h)) /\ IsFiniteSet(Holders(h))
      BY FS_Subset DEF Callers, Holders
    <3>3. /\ Cardinality(Callers(h)) \in Nat /\ Cardinality(Holders(h)) \in Nat
          /\ Cardinality(Workers) \in Nat
      BY <3>2, FS_CardinalityType
    <3>4. /\ Cardinality(Callers(h)') = Cardinality(Callers(h)) - 1
          /\ Cardinality(Holders(h)') = Cardinality(Holders(h)) + 1
      <4>1. Cardinality(Callers(h) \ {w}) = Cardinality(Callers(h)) - 1
        BY <3>1, <3>2, FS_RemoveElement
      <4>2. Cardinality(Holders(h) \cup {w}) = Cardinality(Holders(h)) + 1
        BY <3>1, <3>2, FS_AddElement
      <4> QED
        BY <3>1, <4>1, <4>2
    <3>5. Spare(h)' = Spare(h) + 1
      BY <2>3, <3>3, <3>4 DEF Spare
    <3>6. paid'[h] = paid[h] + 1 /\ pardons'[h] = pardons[h]
      BY <1>1, <2>1, <2>5
    <3>7. /\ paid[h] <= Cardinality(Workers) * pardons[h] + Spare(h)
          /\ paid[h] \in Nat /\ Cardinality(Workers) * pardons[h] \in Nat /\ Spare(h) \in Nat
      BY <1>1, <3>3, Shares, SpareBound DEF ShareInv
    <3> DEFINE c == Cardinality(Workers) * pardons[h]
    <3>8. /\ paid[h] <= c + Spare(h) /\ c \in Nat
          /\ Cardinality(Workers) * pardons'[h] = c
      BY <3>6, <3>7
    <3> HIDE DEF c
    <3> QED
      BY <3>5, <3>6, <3>7, <3>8
  <2> QED
    BY <2>4, <2>5
<1>7. ASSUME NEW w \in Workers, PutCache(w)
      PROVE  paid'[h] <= Cardinality(Workers) * pardons'[h] + Spare(h)'
  <2>1. /\ pc[w] = "cache" /\ pc'[w] = "finish" /\ job' = job
        /\ paid' = paid /\ pardons' = pardons
        /\ cache' = Put(cache, job[w].hash, job[w].draft, FALSE)
        /\ \A v \in Workers : v # w => pc'[v] = pc[v]
    BY <1>1, <1>7 DEF PutCache, Goto
  <2>2. job[w].hash \in Hashes /\ job[w].draft \in Texts /\ FALSE \in BOOLEAN
    BY <1>7 DEF PutCache, TypeOK, HasHash, HasDraft, Texts
  <2>3. Callers(h)' = Callers(h)
    BY <2>1 DEF Callers
  <2>4. IsFresh(cache, h) => IsFresh(cache, h)'
    BY <1>1, <2>1, <2>2, FreshKept
  <2>5. h = job[w].hash => IsFresh(cache, h)'
    <3>1. cache'[job[w].hash] = [text |-> job[w].draft, verified |-> FALSE, stale |-> FALSE]
      BY <1>1, <2>1, <2>2 DEF Put
    <3>2. job[w].draft # Blank
      BY <2>2 DEF Texts
    <3> QED
      BY <3>1, <3>2 DEF IsFresh, IsCached
  <2>6. h # job[w].hash => Holders(h) \subseteq Holders(h)'
    BY <2>1 DEF Holders, Holds, HasDraft
  <2>7. Holders(h) \cap Callers(h) = {}
    BY DEF Holders, Callers, Holds, HasDraft
  <2>8. Spare(h) <= Spare(h)'
    BY <2>3, <2>4, <2>5, <2>6, <2>7, SpareGrows
  <2> QED
    BY <2>1, <2>8, ShareKept
<1>8. ASSUME NEW w \in Workers, Crash(w)
      PROVE  paid'[h] <= Cardinality(Workers) * pardons'[h] + Spare(h)'
  <2>1. /\ pardons' = [g \in Hashes |-> IF Holds(w, g) THEN pardons[g] + 1 ELSE pardons[g]]
        /\ paid' = paid /\ cache' = cache /\ pc'[w] = "idle"
        /\ \A v \in Workers : v # w => pc'[v] = pc[v] /\ job'[v] = job[v]
    BY <1>1, <1>8 DEF Crash, Goto, LetGo
  <2>2. CASE Holds(w, h)
    BY <2>1, <2>2, SharePardoned
  <2>3. CASE ~Holds(w, h)
    <3>1. Callers(h)' \subseteq Callers(h) /\ Holders(h) \subseteq Holders(h)'
      BY <2>1, <2>3 DEF Callers, Holders, Holds, HasDraft
    <3>2. IsFresh(cache, h)' <=> IsFresh(cache, h)
      BY <2>1 DEF IsFresh, IsCached
    <3>3. Spare(h) <= Spare(h)'
      BY <3>1, <3>2, SpareGrows
    <3> QED
      BY <2>1, <2>3, <3>3, ShareKept
  <2> QED
    BY <2>2, <2>3
<1>9. CASE \/ \E c \in Commands, g \in Hashes : Resolve(c, g)
           \/ WriteNode \/ Abandon
           \/ \E p \in Paragraphs, g \in Hashes : Extract(p, g)
  BY <1>3, <1>9 DEF Resolve, WriteNode, Abandon, Extract
<1>10. CASE VerifyCache \/ EditCache \/ (Settle /\ review.cmd # "flag")
  <2>1. pc' = pc /\ job' = job /\ paid' = paid /\ pardons' = pardons
    BY <1>10 DEF VerifyCache, EditCache, Settle
  <2>2. IsFresh(cache, h) => IsFresh(cache, h)'
    BY <1>10, ReviewKeepsFresh
  <2>3. Callers(h)' = Callers(h) /\ Holders(h)' = Holders(h)
    BY <2>1 DEF Callers, Holders, Holds, HasDraft
  <2>4. Holders(h) \cap Callers(h) = {}
    BY DEF Holders, Callers, Holds, HasDraft
  <2>5. Spare(h) <= Spare(h)'
    BY <2>2, <2>3, <2>4, SpareGrows
  <2> QED
    BY <2>1, <2>5, ShareKept
<1>11. CASE Settle /\ review.cmd = "flag"
  <2> DEFINE r == review.rule
  <2>1. r \in Hashes
    BY <1>11 DEF Settle, TypeOK, Review
  <2>2. /\ pc' = pc /\ job' = job /\ paid' = paid
        /\ pardons' = IF IsCached(cache, r) THEN [pardons EXCEPT ![r] = @ + 1] ELSE pardons
    BY <1>11 DEF Settle
  <2>3. cache' = MarkStale(cache, r, TRUE)
    <3>1. (review.cmd = "flag") = TRUE
      BY <1>11
    <3> QED
      BY <1>11, <3>1 DEF Settle
  <2> HIDE DEF r
  <2>4. CASE ~IsCached(cache, r)
    BY <1>3, <2>2, <2>3, <2>4 DEF MarkStale
  <2>5. CASE IsCached(cache, r) /\ h = r
    <3>1. paid'[h] = paid[h] /\ pardons'[h] = pardons[h] + 1
      BY <1>1, <2>1, <2>2, <2>5
    <3> QED
      BY <3>1, SharePardoned
  <2>6. CASE IsCached(cache, r) /\ h # r
    <3>1. paid'[h] = paid[h] /\ pardons'[h] = pardons[h] /\ cache'[h] = cache[h]
      BY <1>1, <2>1, <2>2, <2>3, <2>6 DEF MarkStale
    <3>2. Callers(h)' = Callers(h) /\ Holders(h)' = Holders(h)
      BY <2>2 DEF Callers, Holders, Holds, HasDraft
    <3>3. IsFresh(cache, h)' <=> IsFresh(cache, h)
      BY <3>1 DEF IsFresh, IsCached
    <3>4. Spare(h) <= Spare(h)'
      BY <3>2, <3>3, SpareGrows
    <3> QED
      BY <3>1, <3>4, ShareKept
  <2> QED
    BY <2>4, <2>5, <2>6
<1>12. CASE UNCHANGED vars
  BY <1>3, <1>12 DEF vars
<1> QED
  BY <1>4, <1>5, <1>6, <1>7, <1>8, <1>9, <1>10, <1>11, <1>12 DEF Next, Work, ReviewStep

(* Any number of enrich processes on one store, crashes, reviews and edits *)
(* in any order: although they claim each other's rows, they pay for a     *)
(* hash at most once each, and once each more for every pardon.            *)
THEOREM NoProcessPaysTwice == ASSUME IsFiniteSet(Workers) PROVE Spec => []PaidPerWorker
<1>1. TypeOK /\ ShareInv => PaidPerWorker
  <2> SUFFICES ASSUME TypeOK, ShareInv, NEW h \in Hashes
               PROVE  paid[h] <= Cardinality(Workers) * (1 + pardons[h])
    BY DEF PaidPerWorker
  <2> DEFINE k == Cardinality(Workers)
             c == Cardinality(Workers) * pardons[h]
  <2>1. /\ paid[h] \in Nat /\ pardons[h] \in Nat /\ k \in Nat /\ Spare(h) \in 0 .. k
        /\ paid[h] <= c + Spare(h)
    BY SpareBound DEF TypeOK, ShareInv
  <2>2. c \in Nat /\ k * (pardons[h] + 1) = c + k /\ 1 + pardons[h] = pardons[h] + 1
    BY <2>1, Shares
  <2> HIDE DEF c
  <2>3. paid[h] <= c + k
    <3> HIDE DEF k
    <3> QED
      BY <2>1, <2>2
  <2> QED
    BY <2>2, <2>3
<1>2. IsFiniteSet(Workers) /\ TypeOK /\ ShareInv /\ [Next]_vars => ShareInv'
  BY StepShare
<1> QED
  BY <1>1, <1>2, InitShare, TypeCorrect, PTL DEF Spec

-----------------------------------------------------------------------------
(* Completed reviews.  What a human approved stays approved, for commands  *)
(* that run one after another and do not die.  Otherwise it does not hold: *)
(* a run that dies between the node and the cached narration leaves a rule *)
(* that a verify cannot shield.                                            *)
Sequential == OneWorker /\ ~ReviewWhileEnriching /\ Max["crash"] = 0

-----------------------------------------------------------------------------
(* The strengthened invariant.                                             *)

AloneInv == review # NoReview => \A w \in Workers : pc[w] = "idle"

(* Between the node and the cached narration.                              *)
Writes(h) == \E w \in Workers : pc[w] \in {"edge", "cache"} /\ job[w].hash = h

(* The review has written the node and not finished with the cache.        *)
InReview(h) == review # NoReview /\ review.rule = h /\ review.step # "write"

(* Graph and cache tell the same story, but for what is being written.     *)
StoryInv ==
    \A h \in Hashes :
        /\ IsRule(h) => IsCached(cache, h) \/ Writes(h)
        /\ IsCached(cache, h) => \/ cache[h].text = rules[h].text
                                 \/ Writes(h)
                                 \/ InReview(h) /\ review.cmd = "edit" /\ review.step = "cache"
        /\ rules[h].verified => IsFresh(cache, h) \/ (InReview(h) /\ review.cmd # "flag")

(* A worker narrates only what is not fresh, so nothing that is verified.  *)
ItemInv ==
    \A w \in Workers :
        /\ pc[w] \in {"call", "node", "edge", "cache"} => ~IsFresh(cache, job[w].hash)
        /\ pc[w] \in {"edge", "cache"} => /\ rules[job[w].hash].text = job[w].draft
                                          /\ ~rules[job[w].hash].verified

(* A review knows the node as it is, and its rule is cached.               *)
ReviewInv ==
    review # NoReview =>
        /\ IsCached(cache, review.rule)
        /\ review.step = "write" => review.node = rules[review.rule]
        /\ review.step = "cache" => review.cmd # "flag"
        /\ review.step # "write" /\ review.cmd = "edit" => rules[review.rule].text = Correction
        /\ review.step # "write" /\ review.cmd = "flag" => ~rules[review.rule].verified

SequentialInv == AloneInv /\ StoryInv /\ ItemInv /\ ReviewInv

LEMMA InitSequential == Init => SequentialInv
  BY DEF Init, InitProcesses, NoRules, NoRule, NoRows, NoRow, SequentialInv, AloneInv, StoryInv,
     ItemInv, ReviewInv, IsRule, IsCached

-----------------------------------------------------------------------------
(* Steps.                                                                  *)

LEMMA NobodyDies == Sequential /\ TypeOK => ~Happens("crash")
  BY EventNames DEF Sequential, TypeOK, Happens

(* While a worker runs there is no review.                                 *)
LEMMA WorkerIsAlone ==
    ASSUME Sequential, AloneInv, NEW w \in Workers, Start(w) \/ Work(w)
    PROVE  review = NoReview /\ review' = NoReview
<1>1. CASE Start(w)
  BY <1>1 DEF Start, Sequential
<1>2. CASE Work(w)
  <2>1. pc[w] # "idle" /\ review' = review
    BY <1>2 DEF Work, AddItem, Recover, Select, Stop, Claim, Reuse, Miss, Answer, Fail, AddRule,
       AddEdge, PutCache, MarkDone
  <2> QED
    BY <2>1 DEF AloneInv
<1> QED
  BY <1>1, <1>2

LEMMA WorkerKeepsSequential ==
    ASSUME Sequential, TypeOK, SequentialInv, NEW w \in Workers, Start(w) \/ Work(w)
    PROVE  SequentialInv'
<1>1. review = NoReview /\ review' = NoReview
  BY WorkerIsAlone DEF SequentialInv
<1>2. \A v \in Workers : v = w
  BY DEF Sequential, OneWorker
<1>3. /\ pc \in [Workers -> PC] /\ job \in [Workers -> Job]
      /\ rules \in [Hashes -> Rule] /\ cache \in [Hashes -> CacheRow]
      /\ HasHash(w) => job[w].hash \in Hashes
      /\ HasDraft(w) => job[w].draft \in Narrations
  BY DEF TypeOK
<1>4. AloneInv' /\ ReviewInv'
  BY <1>1 DEF AloneInv, ReviewInv
<1>5. \A h \in Hashes :
         /\ IsRule(h) => IsCached(cache, h) \/ Writes(h)
         /\ IsCached(cache, h) => cache[h].text = rules[h].text \/ Writes(h)
         /\ rules[h].verified => IsFresh(cache, h)
  BY <1>1 DEF SequentialInv, StoryInv, InReview
<1>6. CASE \/ Start(w) \/ AddItem(w) \/ Recover(w) \/ Select(w) \/ Stop(w) \/ Claim(w)
           \/ Reuse(w) \/ Fail(w) \/ MarkDone(w)
  <2>1. /\ rules' = rules /\ cache' = cache
        /\ pc[w] \notin {"edge", "cache"}
        /\ pc'[w] \notin {"call", "node", "edge", "cache"}
    BY <1>3, <1>6 DEF Start, AddItem, Recover, Select, Stop, Claim, Reuse, Fail, MarkDone, Goto
  <2>2. \A h \in Hashes : ~Writes(h) /\ ~Writes(h)'
    BY <1>2, <2>1 DEF Writes
  <2>3. StoryInv'
    BY <1>5, <2>1, <2>2 DEF StoryInv, IsRule, IsCached, IsFresh
  <2>4. ItemInv'
    BY <1>2, <2>1 DEF ItemInv
  <2> QED
    BY <1>4, <2>3, <2>4 DEF SequentialInv
<1>7. CASE Miss(w) \/ Answer(w)
  <2>1. /\ rules' = rules /\ cache' = cache
        /\ pc[w] \notin {"edge", "cache"} /\ pc'[w] \in {"call", "node"}
    BY <1>3, <1>7 DEF Miss, Answer, Goto
  <2>2. \A h \in Hashes : ~Writes(h) /\ ~Writes(h)'
    BY <1>2, <2>1 DEF Writes
  <2>3. StoryInv'
    BY <1>5, <2>1, <2>2 DEF StoryInv, IsRule, IsCached, IsFresh
  <2>4. ~IsFresh(cache, job'[w].hash)
    <3>1. CASE Miss(w)
      BY <1>3, <3>1 DEF Miss, Job
    <3>2. CASE Answer(w)
      BY <1>3, <3>2 DEF Answer, Job, SequentialInv, ItemInv
    <3> QED
      BY <1>7, <3>1, <3>2
  <2>5. ItemInv'
    BY <1>2, <2>1, <2>4 DEF ItemInv, IsFresh, IsCached
  <2> QED
    BY <1>4, <2>3, <2>5 DEF SequentialInv
<1>8. CASE AddRule(w)
  <2> DEFINE g == job[w].hash
  <2>1. /\ pc[w] = "node" /\ pc'[w] = "edge" /\ job' = job /\ cache' = cache
        /\ rules' = [rules EXCEPT ![g] =
                        [text |-> job[w].draft, verified |-> FALSE, flagged |-> FALSE]]
    BY <1>3, <1>8 DEF AddRule, Goto
  <2>2. g \in Hashes
    BY <1>3, <2>1 DEF HasHash, HasDraft
  <2>3. ~IsFresh(cache, g)
    BY <2>1 DEF SequentialInv, ItemInv
  <2>4. \A h \in Hashes : ~Writes(h) /\ (Writes(h)' <=> h = g)
    BY <1>2, <2>1 DEF Writes
  <2> HIDE DEF g
  <2>5. /\ rules'[g].text = job[w].draft /\ ~rules'[g].verified
        /\ \A h \in Hashes \ {g} : rules'[h] = rules[h]
    BY <1>3, <2>1, <2>2
  <2>6. StoryInv'
    BY <1>5, <2>1, <2>4, <2>5 DEF StoryInv, IsRule, IsCached, IsFresh
  <2>7. ItemInv'
    BY <1>2, <2>1, <2>3, <2>5 DEF ItemInv, IsFresh, IsCached, g
  <2> QED
    BY <1>4, <2>6, <2>7 DEF SequentialInv
<1>9. CASE AddEdge(w)
  <2>1. /\ pc[w] = "edge" /\ pc'[w] = "cache" /\ job' = job
        /\ cache' = cache /\ rules' = rules
    BY <1>3, <1>9 DEF AddEdge, Goto
  <2>2. \A h \in Hashes : Writes(h)' <=> Writes(h)
    BY <1>2, <2>1 DEF Writes
  <2>3. StoryInv'
    BY <1>5, <2>1, <2>2 DEF StoryInv, IsRule, IsCached, IsFresh
  <2>4. ItemInv'
    BY <1>2, <2>1 DEF SequentialInv, ItemInv, IsFresh, IsCached
  <2> QED
    BY <1>4, <2>3, <2>4 DEF SequentialInv
<1>10. CASE PutCache(w)
  <2> DEFINE g == job[w].hash
  <2>1. /\ pc[w] = "cache" /\ pc'[w] = "finish" /\ job' = job /\ rules' = rules
        /\ cache' = Put(cache, g, job[w].draft, FALSE)
    BY <1>3, <1>10 DEF PutCache, Goto
  <2>2. g \in Hashes /\ job[w].draft \in Texts /\ job[w].draft # Blank /\ FALSE \in BOOLEAN
    BY <1>3, <2>1 DEF HasHash, HasDraft, Texts
  <2>3. rules[g].text = job[w].draft /\ ~rules[g].verified
    BY <2>1 DEF SequentialInv, ItemInv
  <2>4. \A h \in Hashes : (Writes(h) => h = g) /\ ~Writes(h)'
    BY <1>2, <2>1 DEF Writes
  <2> HIDE DEF g
  <2>5. \A h \in Hashes : cache'[h] =
           IF h = g THEN [text |-> job[w].draft, verified |-> FALSE, stale |-> FALSE] ELSE cache[h]
    BY <1>3, <2>1, <2>2 DEF Put
  <2>6. ASSUME NEW h \in Hashes
        PROVE  /\ IsRule(h)' => IsCached(cache, h)'
               /\ IsCached(cache, h)' => cache'[h].text = rules'[h].text
               /\ rules'[h].verified => IsFresh(cache, h)'
    <3>1. CASE h = g
      <4>1. cache'[h] = [text |-> job[w].draft, verified |-> FALSE, stale |-> FALSE]
        BY <2>5, <3>1
      <4>2. cache'[h].text = job[w].draft /\ cache'[h].stale = FALSE
        BY <4>1
      <4>3. rules'[h].text = job[w].draft /\ ~rules'[h].verified
        BY <2>1, <2>3, <3>1
      <4> QED
        BY <2>2, <4>2, <4>3 DEF IsCached, IsFresh
    <3>2. CASE h # g
      BY <1>5, <2>1, <2>4, <2>5, <3>2 DEF IsRule, IsCached, IsFresh
    <3> QED
      BY <3>1, <3>2
  <2>7. StoryInv' /\ ItemInv'
    BY <1>2, <2>1, <2>6 DEF StoryInv, ItemInv
  <2> QED
    BY <1>4, <2>7 DEF SequentialInv
<1> QED
  BY <1>6, <1>7, <1>8, <1>9, <1>10 DEF Work

LEMMA HumanKeepsSequential ==
    ASSUME Sequential, TypeOK, SequentialInv,
           \/ \E c \in Commands, h \in Hashes : Resolve(c, h)
           \/ ReviewStep
           \/ \E p \in Paragraphs, h \in Hashes : Extract(p, h)
    PROVE  SequentialInv'
<1>1. /\ rules \in [Hashes -> Rule] /\ cache \in [Hashes -> CacheRow]
      /\ review # NoReview => review \in Review
  BY DEF TypeOK
<1>2. pc' = pc /\ job' = job
  BY DEF Resolve, ReviewStep, WriteNode, VerifyCache, EditCache, Settle, Extract
<1>3. ASSUME NEW p \in Paragraphs, NEW h \in Hashes, Extract(p, h)
      PROVE  SequentialInv'
  BY <1>2, <1>3 DEF Extract, SequentialInv, AloneInv, StoryInv, ItemInv, ReviewInv, Writes,
     InReview, IsRule, IsCached, IsFresh
<1>4. ASSUME \A w \in Workers : pc[w] = "idle"
      PROVE  AloneInv' /\ ItemInv' /\ \A h \in Hashes : ~Writes(h) /\ ~Writes(h)'
  BY <1>2, <1>4 DEF AloneInv, ItemInv, Writes
<1>5. ASSUME NEW c \in Commands, NEW h \in Hashes, Resolve(c, h)
      PROVE  SequentialInv'
  <2>1. /\ \A w \in Workers : pc[w] = "idle"
        /\ review = NoReview /\ rules' = rules /\ cache' = cache /\ IsRule(h)
        /\ review' = [step |-> "write", cmd |-> c, rule |-> h, node |-> rules[h]]
    BY <1>5 DEF Resolve, Sequential
  <2>2. \A g \in Hashes : ~InReview(g) /\ ~InReview(g)'
    BY <2>1 DEF InReview
  <2>3. StoryInv'
    BY <1>4, <2>1, <2>2 DEF SequentialInv, StoryInv, IsRule, IsCached, IsFresh
  <2>4. IsCached(cache, h)
    BY <1>4, <2>1 DEF SequentialInv, StoryInv
  <2>5. ReviewInv'
    BY <2>1, <2>4 DEF ReviewInv, IsCached
  <2> QED
    BY <1>4, <2>1, <2>3, <2>5 DEF SequentialInv
<1>6. ASSUME review # NoReview
      PROVE  /\ AloneInv' /\ ItemInv' /\ \A h \in Hashes : ~Writes(h) /\ ~Writes(h)'
             /\ review \in Review /\ review.rule \in Hashes /\ IsCached(cache, review.rule)
             /\ review.cmd \in Commands
             /\ \A h \in Hashes :
                   /\ IsRule(h) => IsCached(cache, h)
                   /\ IsCached(cache, h) =>
                         \/ cache[h].text = rules[h].text
                         \/ h = review.rule /\ review.cmd = "edit" /\ review.step = "cache"
                   /\ rules[h].verified =>
                         \/ IsFresh(cache, h)
                         \/ h = review.rule /\ review.cmd # "flag" /\ review.step # "write"
  <2>1. \A w \in Workers : pc[w] = "idle"
    BY <1>6 DEF SequentialInv, AloneInv
  <2>2. review \in Review /\ review.rule \in Hashes /\ review.cmd \in Commands
    BY <1>1, <1>6 DEF Review
  <2> QED
    BY <1>4, <1>6, <2>1, <2>2 DEF SequentialInv, StoryInv, ReviewInv, InReview
<1>7. CASE WriteNode
  <2> DEFINE r == review.rule
  <2>1. /\ review # NoReview /\ review.step = "write" /\ cache' = cache
        /\ rules' = [rules EXCEPT ![r] = Reviewed(review.cmd, review.node)]
        /\ review' = [review EXCEPT !.step = IF review.cmd = "flag" THEN "stale" ELSE "cache"]
    BY <1>7 DEF WriteNode
  <2>2. review.node = rules[r]
    BY <2>1 DEF SequentialInv, ReviewInv
  <2>3. /\ review' # NoReview /\ review'.rule = r /\ review'.cmd = review.cmd
        /\ review'.step = IF review.cmd = "flag" THEN "stale" ELSE "cache"
    BY <1>6, <2>1 DEF Review, NoReview
  <2>4. /\ \A h \in Hashes : h # r => rules'[h] = rules[h]
        /\ rules'[r] = Reviewed(review.cmd, rules[r])
    BY <1>1, <1>6, <2>1, <2>2
  <2>5. /\ review.cmd = "verify" => rules'[r].text = rules[r].text
        /\ review.cmd = "flag" => rules'[r].text = rules[r].text /\ ~rules'[r].verified
        /\ review.cmd = "edit" => rules'[r].text = Correction
    <3>1. rules[r] \in Rule
      BY <1>1, <1>6, <2>1
    <3> QED
      BY <2>4, <3>1 DEF Reviewed, Rule
  <2>6. ASSUME NEW h \in Hashes
        PROVE  /\ IsRule(h)' => IsCached(cache, h)'
               /\ IsCached(cache, h)' => \/ cache'[h].text = rules'[h].text
                                        \/ (InReview(h) /\ review.cmd = "edit" /\ review.step = "cache")'
               /\ rules'[h].verified => IsFresh(cache, h)' \/ (InReview(h) /\ review.cmd # "flag")'
    <3>1. CASE h = r
      <4>1. InReview(h)' /\ IsCached(cache, h)'
        BY <1>6, <2>1, <2>3, <3>1 DEF InReview, IsCached
      <4>2. IsCached(cache, h) => cache[h].text = rules[h].text
        BY <1>6, <2>1, <3>1
      <4>3. CASE review.cmd = "verify"
        BY <2>1, <2>3, <2>5, <3>1, <4>1, <4>2, <4>3 DEF IsCached
      <4>4. CASE review.cmd = "flag"
        BY <2>1, <2>3, <2>5, <3>1, <4>1, <4>2, <4>4 DEF IsCached
      <4>5. CASE review.cmd = "edit"
        BY <2>3, <4>1, <4>5
      <4> QED
        BY <1>6, <2>1, <4>3, <4>4, <4>5 DEF Commands
    <3>2. CASE h # r
      BY <1>6, <2>1, <2>4, <3>2 DEF IsRule, IsCached, IsFresh
    <3> QED
      BY <3>1, <3>2
  <2>7. StoryInv'
    BY <2>6 DEF StoryInv
  <2>8. ReviewInv'
    BY <1>6, <2>1, <2>3, <2>5 DEF ReviewInv, IsCached
  <2> QED
    BY <1>6, <2>1, <2>7, <2>8 DEF SequentialInv
<1>8. CASE VerifyCache
  <2> DEFINE r == review.rule
  <2>1. /\ review # NoReview /\ review.step = "cache" /\ review.cmd = "verify" /\ rules' = rules
        /\ cache' = MarkVerified(cache, r) /\ review' = [review EXCEPT !.step = "stale"]
    BY <1>8 DEF VerifyCache
  <2>2. /\ review' # NoReview /\ review'.rule = r /\ review'.cmd = review.cmd
        /\ review'.step = "stale"
    BY <1>6, <2>1 DEF Review, NoReview
  <2>3. \A h \in Hashes : cache'[h].text = cache[h].text /\ cache'[h].stale = cache[h].stale
    BY <1>1, <1>6, <2>1, MarkVerifiedType
  <2>4. \A h \in Hashes : (IsCached(cache, h)' <=> IsCached(cache, h))
                         /\ (IsFresh(cache, h)' <=> IsFresh(cache, h))
    BY <2>3 DEF IsCached, IsFresh
  <2>5. StoryInv'
    BY <1>6, <2>1, <2>2, <2>3, <2>4 DEF StoryInv, IsRule, InReview
  <2>6. ReviewInv'
    BY <1>6, <2>1, <2>2, <2>4 DEF ReviewInv, IsCached
  <2> QED
    BY <1>6, <2>1, <2>5, <2>6 DEF SequentialInv
<1>9. CASE EditCache
  <2> DEFINE r == review.rule
  <2>1. /\ review # NoReview /\ review.step = "cache" /\ review.cmd = "edit" /\ rules' = rules
        /\ cache' = Put(cache, r, Correction, TRUE) /\ review' = [review EXCEPT !.step = "stale"]
    BY <1>6, <1>9 DEF EditCache
  <2>2. /\ review' # NoReview /\ review'.rule = r /\ review'.cmd = review.cmd
        /\ review'.step = "stale"
    BY <1>6, <2>1 DEF Review, NoReview
  <2>3. rules[r].text = Correction
    BY <2>1 DEF SequentialInv, ReviewInv
  <2>4. Correction # Blank
    OBVIOUS
  <2>5. /\ \A h \in Hashes : h # r => cache'[h] = cache[h]
        /\ cache'[r].text = Correction /\ cache'[r].stale = FALSE
    BY <1>1, <1>6, <2>1 DEF Put
  <2>6. ASSUME NEW h \in Hashes
        PROVE  /\ IsRule(h)' => IsCached(cache, h)'
               /\ IsCached(cache, h)' => cache'[h].text = rules'[h].text
               /\ rules'[h].verified => IsFresh(cache, h)' \/ (InReview(h) /\ review.cmd # "flag")'
    <3>1. CASE h = r
      BY <2>1, <2>2, <2>3, <2>4, <2>5, <3>1 DEF IsCached, InReview
    <3>2. CASE h # r
      BY <1>6, <2>1, <2>5, <3>2 DEF IsRule, IsCached, IsFresh
    <3> QED
      BY <3>1, <3>2
  <2>7. StoryInv'
    BY <2>6 DEF StoryInv
  <2>8. IsCached(cache, r)'
    BY <2>2, <2>4, <2>5 DEF IsCached
  <2>9. ReviewInv'
    BY <2>1, <2>2, <2>3, <2>8 DEF ReviewInv, IsCached
  <2> QED
    BY <1>6, <2>1, <2>7, <2>9 DEF SequentialInv
<1>10. CASE Settle
  <2> DEFINE r == review.rule
             s == (review.cmd = "flag")
  <2>1. /\ review # NoReview /\ review.step = "stale" /\ rules' = rules
        /\ cache' = MarkStale(cache, r, s) /\ review' = NoReview
    BY <1>10 DEF Settle
  <2>2. s \in BOOLEAN /\ r \in Hashes
    BY <1>6, <2>1
  <2>3. \A h \in Hashes : /\ cache'[h].text = cache[h].text
                         /\ cache'[h].stale = IF h = r /\ IsCached(cache, r) THEN s ELSE cache[h].stale
    <3> HIDE DEF r, s
    <3> QED
      BY <1>1, <2>1, <2>2, MarkStaleType
  <2>4. \A h \in Hashes : IsCached(cache, h)' <=> IsCached(cache, h)
    BY <2>3 DEF IsCached
  <2>5. ASSUME NEW h \in Hashes
        PROVE  /\ IsRule(h)' => IsCached(cache, h)'
               /\ IsCached(cache, h)' => cache'[h].text = rules'[h].text
               /\ rules'[h].verified => IsFresh(cache, h)'
    <3>1. IsRule(h)' => IsCached(cache, h)'
      BY <1>6, <2>1, <2>4 DEF IsRule
    <3>2. IsCached(cache, h)' => cache'[h].text = rules'[h].text
      BY <1>6, <2>1, <2>3, <2>4
    <3>3. CASE h = r /\ review.cmd # "flag"
      <4>1. ~cache'[h].stale
        BY <1>6, <2>1, <2>3, <3>3
      <4>2. IsCached(cache, h)'
        BY <1>6, <2>1, <2>4, <3>3
      <4> QED
        BY <3>1, <3>2, <4>1, <4>2 DEF IsFresh, IsCached
    <3>4. CASE h = r /\ review.cmd = "flag"
      <4>1. ~rules[h].verified
        BY <2>1, <3>4 DEF SequentialInv, ReviewInv
      <4> QED
        BY <2>1, <3>1, <3>2, <4>1
    <3>5. CASE h # r
      <4>1. rules[h].verified => IsFresh(cache, h)
        BY <1>6, <2>1, <3>5
      <4>2. IsFresh(cache, h) => IsFresh(cache, h)'
        BY <2>3, <3>5 DEF IsFresh, IsCached
      <4> QED
        BY <2>1, <3>1, <3>2, <4>1, <4>2
    <3> QED
      BY <3>3, <3>4, <3>5
  <2>6. StoryInv'
    BY <2>5 DEF StoryInv
  <2>7. ReviewInv'
    BY <2>1 DEF ReviewInv
  <2> QED
    BY <1>6, <2>1, <2>6, <2>7 DEF SequentialInv
<1> QED
  BY <1>3, <1>5, <1>7, <1>8, <1>9, <1>10 DEF ReviewStep

LEMMA StepSequential == Sequential /\ TypeOK /\ SequentialInv /\ [Next]_vars => SequentialInv'
<1> SUFFICES ASSUME Sequential, TypeOK, SequentialInv, [Next]_vars
             PROVE  SequentialInv'
  OBVIOUS
<1>1. CASE UNCHANGED vars
  BY <1>1 DEF vars, SequentialInv, AloneInv, StoryInv, ItemInv, ReviewInv, Writes, InReview,
     IsRule, IsCached, IsFresh
<1>2. ~Abandon /\ \A w \in Workers : ~Crash(w)
  BY NobodyDies DEF Abandon, Crash
<1> QED
  BY <1>1, <1>2, WorkerKeepsSequential, HumanKeepsSequential DEF Next

-----------------------------------------------------------------------------
(* What completed reviews leave behind.                                    *)

LEMMA AtRest == SequentialInv => ApprovalIsShielded /\ FreshNarrationAgrees
  BY DEF SequentialInv, StoryInv, Writes, InReview, AllIdle, ApprovalIsShielded,
     FreshNarrationAgrees, IsFresh

(* Commands run one after another and nobody dies: whatever a human        *)
(* approved, enrich finds in the cache and leaves alone.                   *)
THEOREM ApprovalsAreShielded == ASSUME Sequential PROVE Spec => []ApprovalIsShielded
<1>1. TypeOK /\ SequentialInv /\ [Next]_vars => SequentialInv'
  BY StepSequential
<1> QED
  BY <1>1, AtRest, InitSequential, TypeCorrect, PTL DEF Spec

(* And the narration enrich would reuse is the one the graph shows.        *)
THEOREM GraphAndCacheAgree == ASSUME Sequential PROVE Spec => []FreshNarrationAgrees
<1>1. TypeOK /\ SequentialInv /\ [Next]_vars => SequentialInv'
  BY StepSequential
<1> QED
  BY <1>1, AtRest, InitSequential, TypeCorrect, PTL DEF Spec

(* A step that takes an approval away is a step of a human's flag.         *)
LEMMA StepKeepsApproval ==
    ASSUME Sequential, TypeOK, SequentialInv, [Next]_vars,
           NEW h \in Hashes, rules[h].verified, ~rules'[h].verified
    PROVE  review # NoReview /\ review.cmd = "flag"
<1>1. rules \in [Hashes -> Rule]
  BY DEF TypeOK
<1>2. rules' # rules
  OBVIOUS
<1>3. ASSUME NEW w \in Workers, AddRule(w)
      PROVE  FALSE
  <2>1. /\ pc[w] = "node" /\ job[w].hash \in Hashes
        /\ rules' = [rules EXCEPT ![job[w].hash] =
                        [text |-> job[w].draft, verified |-> FALSE, flagged |-> FALSE]]
    BY <1>3 DEF AddRule, TypeOK, HasHash, HasDraft
  <2>2. h = job[w].hash
    BY <1>1, <2>1
  <2>3. ~IsFresh(cache, h)
    BY <2>1, <2>2 DEF SequentialInv, ItemInv
  <2>4. review = NoReview
    BY <2>1 DEF SequentialInv, AloneInv
  <2> QED
    BY <2>3, <2>4 DEF SequentialInv, StoryInv, InReview
<1>4. CASE WriteNode
  <2>1. /\ review # NoReview /\ review \in Review
        /\ rules' = [rules EXCEPT ![review.rule] = Reviewed(review.cmd, review.node)]
    BY <1>4 DEF WriteNode, TypeOK
  <2>2. review.rule \in Hashes /\ review.node \in Rule /\ review.cmd \in Commands
    BY <2>1 DEF Review
  <2>3. rules'[h] = Reviewed(review.cmd, review.node)
    BY <1>1, <2>1, <2>2
  <2>4. review.cmd \in {"verify", "edit"} => Reviewed(review.cmd, review.node).verified
    BY <2>2 DEF Reviewed, Rule
  <2> QED
    BY <2>1, <2>2, <2>3, <2>4 DEF Commands
<1>5. \/ \E w \in Workers : AddRule(w)
      \/ WriteNode
  BY <1>2 DEF Next, Work, Start, AddItem, Recover, Select, Stop, Claim, Reuse, Miss, Answer, Fail,
     AddEdge, PutCache, MarkDone, Crash, Resolve, ReviewStep, VerifyCache, EditCache, Settle,
     Abandon, Extract, vars
<1> QED
  BY <1>3, <1>4, <1>5

(* An approval is taken away by nothing but a flag: enrich writes over no  *)
(* verified rule, however often it runs and whatever it finds stale.       *)
THEOREM ApprovalsAreKept == ASSUME Sequential PROVE Spec => ApprovalIsKept
<1> DEFINE Kept == \A h \in Hashes : rules[h].verified /\ ~rules'[h].verified
                                        => review # NoReview /\ review.cmd = "flag"
<1>1. TypeOK /\ SequentialInv /\ [Next]_vars => SequentialInv'
  BY StepSequential
<1>2. TypeOK /\ SequentialInv /\ [Next]_vars => [Kept]_vars
  BY StepKeepsApproval
<1> QED
  BY <1>1, <1>2, InitSequential, TypeCorrect, PTL DEF Spec, ApprovalIsKept
==============================================================================
