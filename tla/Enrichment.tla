----------------------------- MODULE Enrichment -----------------------------
(***************************************************************************)
(* `brain enrich`, the three review commands and re-extraction, over the   *)
(* tables they share in one SQLite file: the paragraph and BusinessRule    *)
(* nodes, the IMPLEMENTS_RULE edges, the narration cache and the           *)
(* enrichment queue.                                                       *)
(*                                                                         *)
(* Every step is at most one committed statement, because each statement   *)
(* of the code commits by itself: a process may die, and another may run,  *)
(* between any two.  A worker is one `brain enrich` process.               *)
(*                                                                         *)
(* A hash stands for the redacted source of a paragraph.  That source      *)
(* begins with the paragraph's name, so within one codebase the hash       *)
(* decides the rule's node id BusinessRule:<codebase>:<name>:<hash8>, and  *)
(* rules are indexed by it.                                                *)
(***************************************************************************)
EXTENDS EnrichmentQueue, NarrationCache, FiniteSets

CONSTANTS
    Workers,                \* `brain enrich` processes
    Budget,                 \* --budget, in output tokens
    Costs, MaxCost,         \* what one answered call can cost, and the dearest
    ReviewWhileEnriching,   \* may a human review while a worker runs?
    Max                     \* bounds: how often each event of Events happens

Events == {"start", "crash", "review", "extract"}

ASSUME EnrichmentAssumption ==
    /\ Budget \in Nat
    /\ MaxCost \in Nat
    /\ Costs \subseteq 0 .. MaxCost
    /\ ReviewWhileEnriching \in BOOLEAN
    /\ Max \in [Events -> Nat]

VARIABLES
    source,     \* source[p]: hash of the text paragraph p has now
    rules,      \* rules[h]: the BusinessRule node of hash h
    impl,       \* the IMPLEMENTS_RULE edges, <<paragraph, rule hash>>
    cache,      \* narration_cache
    queue,      \* enrichment_queue
    pc,         \* pc[w]: the statement worker w runs next
    todo,       \* todo[w]: triage candidates w has not queued yet
    job,        \* job[w]: w's queue row, the hash of the source it read for that
                \*         row, and the narration it has paid for and not yet cached
    tokens,     \* tokens[w]: result.tokens_used
    review,     \* the review command in progress
    count,      \* how often each event happened, bounded by Max
    \* observers: nothing below is read by a guard
    paid,       \* paid[h]: answered calls made for h
    pardons,    \* pardons[h]: events that justify paying for h again
    texts       \* texts[i]: the sources row i's paragraph had since it was queued

storeVars  == <<source, rules, impl, cache, queue>>
workerVars == <<pc, todo, job, tokens>>
ghostVars  == <<paid, pardons, texts>>
vars == <<storeVars, workerVars, review, count, ghostVars>>

-----------------------------------------------------------------------------

Rule == [text : Texts \cup {Blank}, verified : BOOLEAN, flagged : BOOLEAN]

NoRule == [text |-> Blank, verified |-> FALSE, flagged |-> FALSE]

IsRule(h) == rules[h].text # Blank

PC == {"idle", "populate", "loop", "claim", "examine", "call",
       "node", "edge", "cache", "finish"}

Job == [row : Nat, hash : Hashes \cup {Blank}, draft : Narrations \cup {Blank}]

NoJob == [row |-> 0, hash |-> Blank, draft |-> Blank]

HasDraft(w) == pc[w] \in {"node", "edge", "cache"}
HasHash(w)  == HasDraft(w) \/ pc[w] \in {"call", "finish"}
HasRow(w)   == HasHash(w) \/ pc[w] \in {"claim", "examine"}

Commands == {"verify", "flag", "edit"}

NoReview == [step |-> "none"]

Review == [step : {"write", "cache", "stale"}, cmd : Commands, rule : Hashes, node : Rule]

TypeOK ==
    /\ source \in [Paragraphs -> Hashes]
    /\ rules \in [Hashes -> Rule]
    /\ impl \subseteq Paragraphs \X Hashes
    /\ cache \in [Hashes -> CacheRow]
    /\ queue \in Seq(QueueRow)
    /\ pc \in [Workers -> PC]
    /\ todo \in [Workers -> SUBSET Paragraphs]
    /\ job \in [Workers -> Job]
    /\ \A w \in Workers : HasRow(w) => job[w].row \in DOMAIN queue
    /\ \A w \in Workers : HasHash(w) => job[w].hash \in Hashes
    /\ \A w \in Workers : HasDraft(w) => job[w].draft \in Narrations
    /\ tokens \in [Workers -> Nat]
    /\ review \in Review \cup {NoReview}
    /\ count \in [Events -> Nat]
    /\ paid \in [Hashes -> Nat]
    /\ pardons \in [Hashes -> Nat]
    /\ texts \in Seq(SUBSET Hashes)
    /\ Len(texts) = Len(queue)

NoRules == [h \in Hashes |-> NoRule]
NoRows  == [h \in Hashes |-> NoRow]
Nothing == [h \in Hashes |-> 0]

InitProcesses ==
    /\ pc = [w \in Workers |-> "idle"]
    /\ todo = [w \in Workers |-> {}]
    /\ job = [w \in Workers |-> NoJob]
    /\ tokens = [w \in Workers |-> 0]
    /\ review = NoReview
    /\ count = [e \in Events |-> 0]

(* A store extracted once and never enriched.                              *)
Init ==
    /\ source \in [Paragraphs -> Hashes]
    /\ rules = NoRules
    /\ impl = {}
    /\ cache = NoRows
    /\ queue = << >>
    /\ InitProcesses
    /\ paid = Nothing
    /\ pardons = Nothing
    /\ texts = << >>

(* A bound, not code: event e may still happen.                            *)
Happens(e) ==
    /\ count[e] < Max[e]
    /\ count' = [count EXCEPT ![e] = @ + 1]

Goto(w, l) == pc' = [pc EXCEPT ![w] = l]

(* The item's local variables are of no use any more.                      *)
LetGo(w) == job' = [job EXCEPT ![w] = NoJob]

-----------------------------------------------------------------------------
(* Triage and the filling of the queue.                                    *)

RulesOf(p) == {h \in Hashes : <<p, h>> \in impl /\ IsRule(h)}

(* _triage_candidates: the paragraphs without a rule for their present     *)
(* text that is not stale.  ("new", "stale" and "changed" only differ in   *)
(* the reason printed.)                                                    *)
Current(p) == \E h \in RulesOf(p) : h = source[p] /\ ~IsStale(cache, h)

Candidates == {p \in Paragraphs : ~Current(p)}

Start(w) ==
    /\ pc[w] = "idle"
    /\ ReviewWhileEnriching \/ review = NoReview
    /\ Happens("start")
    /\ todo' = [todo EXCEPT ![w] = Candidates]
    /\ tokens' = [tokens EXCEPT ![w] = 0]
    /\ Goto(w, "populate")
    /\ UNCHANGED <<storeVars, job, review, ghostVars>>

(* One queue.add; its risk is whatever combined_risk makes of the graph.   *)
AddItem(w) ==
    /\ pc[w] = "populate"
    /\ \E p \in todo[w], r \in Risks :
          /\ queue' = Added(queue, p, r)
          /\ texts' = Append(texts, {source[p]})
          /\ todo' = [todo EXCEPT ![w] = @ \ {p}]
    /\ UNCHANGED <<source, rules, impl, cache, pc, job, tokens,
                   review, count, paid, pardons>>

-----------------------------------------------------------------------------
(* Enricher.enrich_from_queue.                                             *)

(* A mutant of Recover that leaves a dead worker's claim as it is.         *)
RecoverNothing(w) ==
    /\ pc[w] = "populate"
    /\ todo[w] = {}
    /\ Goto(w, "loop")
    /\ UNCHANGED <<storeVars, todo, job, tokens, review, count, ghostVars>>

Recover(w) ==
    /\ pc[w] = "populate"
    /\ todo[w] = {}
    /\ queue' = ResetInProgress(queue)
    /\ Goto(w, "loop")
    /\ UNCHANGED <<source, rules, impl, cache, todo, job, tokens,
                   review, count, ghostVars>>

(* A mutant of Select that starts an item whatever the run has spent.      *)
SelectUnbudgeted(w) ==
    /\ pc[w] = "loop"
    /\ \E i \in DOMAIN queue : IsNext(queue, i) /\ job' = [job EXCEPT ![w].row = i]
    /\ Goto(w, "claim")
    /\ UNCHANGED <<storeVars, todo, tokens, review, count, ghostVars>>

Select(w) ==
    /\ pc[w] = "loop"
    /\ tokens[w] < Budget
    /\ \E i \in DOMAIN queue : IsNext(queue, i) /\ job' = [job EXCEPT ![w].row = i]
    /\ Goto(w, "claim")
    /\ UNCHANGED <<storeVars, todo, tokens, review, count, ghostVars>>

(* A mutant of Stop that waits for the budget to be spent.                 *)
StopWhenSpent(w) ==
    /\ pc[w] = "loop"
    /\ tokens[w] >= Budget
    /\ Goto(w, "idle")
    /\ UNCHANGED <<storeVars, todo, job, tokens, review, count, ghostVars>>

Stop(w) ==
    /\ pc[w] = "loop"
    /\ tokens[w] >= Budget \/ RowsIn(queue, "pending") = {}
    /\ Goto(w, "idle")
    /\ UNCHANGED <<storeVars, todo, job, tokens, review, count, ghostVars>>

Claim(w) ==
    /\ pc[w] = "claim"
    /\ queue' = SetStatus(queue, job[w].row, "in_progress")
    /\ Goto(w, "examine")
    /\ UNCHANGED <<source, rules, impl, cache, todo, job, tokens,
                   review, count, ghostVars>>

(* A mutant of Reuse that moves on without marking the row done.           *)
ReuseWithoutDone(w) ==
    LET h == source[queue[job[w].row].para] IN
    /\ pc[w] = "examine"
    /\ IsFresh(cache, h)
    /\ LetGo(w)
    /\ Goto(w, "loop")
    /\ UNCHANGED <<storeVars, todo, tokens, review, count, ghostVars>>

(* The source read is the paragraph's present one, not the one triage saw. *)
(* A cached narration that is not stale ends the item: neither node nor    *)
(* edge is written.                                                        *)
Reuse(w) ==
    LET h == source[queue[job[w].row].para] IN
    /\ pc[w] = "examine"
    /\ IsFresh(cache, h)
    /\ job' = [job EXCEPT ![w].hash = h]
    /\ Goto(w, "finish")
    /\ UNCHANGED <<storeVars, todo, tokens, review, count, ghostVars>>

(* A mutant of Miss that never looks into the cache.                       *)
MissAlways(w) ==
    LET h == source[queue[job[w].row].para] IN
    /\ pc[w] = "examine"
    /\ job' = [job EXCEPT ![w].hash = h]
    /\ Goto(w, "call")
    /\ UNCHANGED <<storeVars, todo, tokens, review, count, ghostVars>>

Miss(w) ==
    LET h == source[queue[job[w].row].para] IN
    /\ pc[w] = "examine"
    /\ ~IsFresh(cache, h)
    /\ job' = [job EXCEPT ![w].hash = h]
    /\ Goto(w, "call")
    /\ UNCHANGED <<storeVars, todo, tokens, review, count, ghostVars>>

(* adapter.complete returns: the answer is paid for, and held in memory.   *)
Answer(w) ==
    /\ pc[w] = "call"
    /\ \E t \in Narrations, c \in Costs :
          /\ job' = [job EXCEPT ![w].draft = t]
          /\ tokens' = [tokens EXCEPT ![w] = @ + c]
    /\ paid' = [paid EXCEPT ![job[w].hash] = @ + 1]
    /\ Goto(w, "node")
    /\ UNCHANGED <<storeVars, todo, review, count, pardons, texts>>

(* A mutant of Fail that writes a status the table does not have.          *)
FailForGood(w) ==
    /\ pc[w] = "call"
    /\ queue' = SetStatus(queue, job[w].row, "failed")
    /\ LetGo(w)
    /\ Goto(w, "loop")
    /\ UNCHANGED <<source, rules, impl, cache, todo, tokens,
                   review, count, ghostVars>>

(* adapter.complete raises: mark_failed, and the loop goes on.             *)
Fail(w) ==
    /\ pc[w] = "call"
    /\ queue' = SetStatus(queue, job[w].row, "pending")
    /\ LetGo(w)
    /\ Goto(w, "loop")
    /\ UNCHANGED <<source, rules, impl, cache, todo, tokens,
                   review, count, ghostVars>>

(* A mutant of AddRule that caches the answer before the graph has it.     *)
AddRuleAndCache(w) ==
    /\ pc[w] = "node"
    /\ rules' = [rules EXCEPT ![job[w].hash] =
                    [text |-> job[w].draft, verified |-> FALSE, flagged |-> FALSE]]
    /\ cache' = Put(cache, job[w].hash, job[w].draft, FALSE)
    /\ Goto(w, "edge")
    /\ UNCHANGED <<source, impl, queue, todo, job, tokens,
                   review, count, ghostVars>>

(* add_node replaces the whole node, human_verified included.              *)
AddRule(w) ==
    /\ pc[w] = "node"
    /\ rules' = [rules EXCEPT ![job[w].hash] =
                    [text |-> job[w].draft, verified |-> FALSE, flagged |-> FALSE]]
    /\ Goto(w, "edge")
    /\ UNCHANGED <<source, impl, cache, queue, todo, job, tokens,
                   review, count, ghostVars>>

(* add_edge: an edge already there is left alone.                          *)
AddEdge(w) ==
    /\ pc[w] = "edge"
    /\ impl' = impl \cup {<<queue[job[w].row].para, job[w].hash>>}
    /\ Goto(w, "cache")
    /\ UNCHANGED <<source, rules, cache, queue, todo, job, tokens,
                   review, count, ghostVars>>

PutCache(w) ==
    /\ pc[w] = "cache"
    /\ cache' = Put(cache, job[w].hash, job[w].draft, FALSE)
    /\ Goto(w, "finish")
    /\ UNCHANGED <<source, rules, impl, queue, todo, job, tokens,
                   review, count, ghostVars>>

MarkDone(w) ==
    /\ pc[w] = "finish"
    /\ queue' = SetStatus(queue, job[w].row, "done")
    /\ LetGo(w)
    /\ Goto(w, "loop")
    /\ UNCHANGED <<source, rules, impl, cache, todo, tokens,
                   review, count, ghostVars>>

(* The process dies; what it held in memory is lost, an answered call with *)
(* it.                                                                     *)
Holds(w, h) == HasDraft(w) /\ job[w].hash = h

Crash(w) ==
    /\ pc[w] # "idle"
    /\ Happens("crash")
    /\ LetGo(w)
    /\ todo' = [todo EXCEPT ![w] = {}]
    /\ tokens' = [tokens EXCEPT ![w] = 0]
    /\ Goto(w, "idle")
    /\ pardons' = [h \in Hashes |-> IF Holds(w, h) THEN pardons[h] + 1 ELSE pardons[h]]
    /\ UNCHANGED <<storeVars, review, paid, texts>>

-----------------------------------------------------------------------------
(* verify, flag and edit-rule: read the node, write it back changed, then  *)
(* bring the cache in line with it.                                        *)

Resolve(c, h) ==
    /\ review = NoReview
    /\ ReviewWhileEnriching \/ \A w \in Workers : pc[w] = "idle"
    /\ IsRule(h)
    /\ Happens("review")
    /\ review' = [step |-> "write", cmd |-> c, rule |-> h, node |-> rules[h]]
    /\ UNCHANGED <<storeVars, workerVars, ghostVars>>

(* What each command makes of the node; an edit keeps an earlier flag.     *)
Reviewed(c, n) ==
    CASE c = "verify" -> [n EXCEPT !.verified = TRUE, !.flagged = FALSE]
      [] c = "flag"   -> [n EXCEPT !.verified = FALSE, !.flagged = TRUE]
      [] c = "edit"   -> [n EXCEPT !.text = Correction, !.verified = TRUE]

WriteNode ==
    /\ review # NoReview
    /\ review.step = "write"
    /\ rules' = [rules EXCEPT ![review.rule] = Reviewed(review.cmd, review.node)]
    /\ review' = [review EXCEPT !.step = IF review.cmd = "flag" THEN "stale" ELSE "cache"]
    /\ UNCHANGED <<source, impl, cache, queue, workerVars, count, ghostVars>>

VerifyCache ==
    /\ review # NoReview
    /\ review.step = "cache" /\ review.cmd = "verify"
    /\ cache' = MarkVerified(cache, review.rule)
    /\ review' = [review EXCEPT !.step = "stale"]
    /\ UNCHANGED <<source, rules, impl, queue, workerVars, count, ghostVars>>

(* A mutant of EditCache that leaves the cached text as it was.            *)
EditCacheFlagOnly ==
    /\ review # NoReview
    /\ review.step = "cache" /\ review.cmd = "edit"
    /\ cache' = MarkVerified(cache, review.rule)
    /\ review' = IF IsCached(cache, review.rule) THEN [review EXCEPT !.step = "stale"] ELSE NoReview
    /\ UNCHANGED <<source, rules, impl, queue, workerVars, count, ghostVars>>

(* edit-rule touches the cache only if the hash has a row.                 *)
EditCache ==
    /\ review # NoReview
    /\ review.step = "cache" /\ review.cmd = "edit"
    /\ IF IsCached(cache, review.rule)
          THEN /\ cache' = Put(cache, review.rule, Correction, TRUE)
               /\ review' = [review EXCEPT !.step = "stale"]
          ELSE /\ review' = NoReview
               /\ UNCHANGED cache
    /\ UNCHANGED <<source, rules, impl, queue, workerVars, count, ghostVars>>

(* A mutant of Settle that raises the stale mark and never lowers it.      *)
SettleFlagOnly ==
    /\ review # NoReview
    /\ review.step = "stale"
    /\ cache' = IF review.cmd = "flag" THEN MarkStale(cache, review.rule, TRUE) ELSE cache
    /\ review' = NoReview
    /\ UNCHANGED <<source, rules, impl, queue, workerVars, count, ghostVars>>

(* mark_stale, TRUE for flag and FALSE for the other two.                  *)
Settle ==
    /\ review # NoReview
    /\ review.step = "stale"
    /\ cache' = MarkStale(cache, review.rule, review.cmd = "flag")
    /\ pardons' = IF review.cmd = "flag" /\ IsCached(cache, review.rule)
                     THEN [pardons EXCEPT ![review.rule] = @ + 1]
                     ELSE pardons
    /\ review' = NoReview
    /\ UNCHANGED <<source, rules, impl, queue, workerVars, count, paid, texts>>

(* The review process dies between two of its writes.                      *)
Abandon ==
    /\ review # NoReview
    /\ Happens("crash")
    /\ review' = NoReview
    /\ UNCHANGED <<storeVars, workerVars, ghostVars>>

-----------------------------------------------------------------------------
(* `brain extract` stores p again, with another text.                      *)
Extract(p, h) ==
    /\ h # source[p]
    /\ Happens("extract")
    /\ source' = [source EXCEPT ![p] = h]
    /\ texts' = [i \in DOMAIN texts |-> IF queue[i].para = p /\ queue[i].status # "done"
                                           THEN texts[i] \cup {h} ELSE texts[i]]
    /\ UNCHANGED <<rules, impl, cache, queue, workerVars, review, paid, pardons>>

Work(w) ==
    \/ AddItem(w) \/ Recover(w) \/ Select(w) \/ Stop(w) \/ Claim(w) \/ Reuse(w)
    \/ Miss(w) \/ Answer(w) \/ Fail(w) \/ AddRule(w) \/ AddEdge(w) \/ PutCache(w)
    \/ MarkDone(w)

ReviewStep == WriteNode \/ VerifyCache \/ EditCache \/ Settle

Next ==
    \/ \E w \in Workers : Start(w) \/ Work(w) \/ Crash(w)
    \/ \E c \in Commands, h \in Hashes : Resolve(c, h)
    \/ ReviewStep
    \/ Abandon
    \/ \E p \in Paragraphs, h \in Hashes : Extract(p, h)

Spec == Init /\ [][Next]_vars

(* A running process is scheduled, and a model that is asked again and     *)
(* again answers some time.  Nobody has to start one, review or extract.   *)
Fairness ==
    /\ \A w \in Workers : WF_vars(Work(w)) /\ SF_vars(Answer(w))
    /\ WF_vars(ReviewStep)

FairSpec == Spec /\ Fairness

-----------------------------------------------------------------------------
(* Properties.                                                             *)

(* A worker writes the rule, then the edge, then the cached narration, and *)
(* dies anywhere.  Whatever is cached is in the graph and reachable from a *)
(* paragraph - a cached hash is skipped for good, so a narration cached    *)
(* too early would never get its rule - and no edge dangles.               *)
Grounded ==
    /\ \A h \in Hashes : IsCached(cache, h) => \E p \in Paragraphs : <<p, h>> \in impl
    /\ \A e \in impl : IsRule(e[2])

(* "Never pay to learn the same thing twice": one worker pays for a hash   *)
(* once, and once more for every time the narration was flagged wrong or   *)
(* lost to a crash between the answer and the cache - however often        *)
(* enrich is run, the same source is queued, calls fail, texts change back *)
(* and forth, and humans review in the meantime.                           *)
PaidOnce == \A h \in Hashes : paid[h] <= 1 + pardons[h]

(* Two processes may claim one row, for next_pending reads and writes in   *)
(* two statements, and each may take back the other's claims: that costs   *)
(* at most one call more per process and hash, and no more.                *)
PaidPerWorker == \A h \in Hashes : paid[h] <= Cardinality(Workers) * (1 + pardons[h])

(* With one worker, at most one row is claimed: the claim a dead process   *)
(* leaves behind is taken back before the next claim is made.              *)
OneClaim == \A i, j \in RowsIn(queue, "in_progress") : i = j

(* The budget is looked at before an item, not before a call's cost is     *)
(* known: a run overspends by less than the dearest call.                  *)
Overspend == \A w \in Workers : tokens[w] = 0 \/ tokens[w] < Budget + MaxCost

(* The queue and the cache together keep a ledger: an item is finished     *)
(* once, and only when a text its paragraph had since it was queued has    *)
(* been narrated; what was narrated stays known.                           *)
Ledger == INSTANCE NarrationLedger WITH
    items <- [i \in DOMAIN queue |->
                 [para |-> queue[i].para, texts |-> texts[i],
                  state |-> IF queue[i].status = "done" THEN "done" ELSE "open"]],
    known <- {h \in Hashes : IsCached(cache, h)}

KeepsLedger == Ledger!Spec

AllIdle == review = NoReview /\ \A w \in Workers : pc[w] = "idle"

(* What a human approved is behind a cached narration that is not stale,   *)
(* which is all that keeps the next enrich from writing over it.           *)
ApprovalIsShielded ==
    AllIdle => \A h \in Hashes : rules[h].verified => IsFresh(cache, h)

(* Graph and cache tell the same story: a narration enrich would reuse is  *)
(* the text the rule node shows.                                           *)
FreshNarrationAgrees ==
    AllIdle => \A h \in Hashes : IsFresh(cache, h) => cache[h].text = rules[h].text

(* Only a human's flag takes an approval away: enrich never replaces a     *)
(* verified rule, an edited one included.                                  *)
ApprovalIsKept ==
    [][\A h \in Hashes : rules[h].verified /\ ~rules'[h].verified
                             => review # NoReview /\ review.cmd = "flag"]_vars

(* Every enrich run that does not crash comes to its end.                  *)
RunEnds == \A w \in Workers : pc[w] # "idle" ~> pc[w] = "idle"

(* Every row still open when a run enters its loop is done when the run    *)
(* has ended, unless the budget was spent first.                           *)
Open(i) == i \in DOMAIN queue /\ queue[i].status # "done"

QueueDrains ==
    \A w \in Workers : \A i \in 1 .. Max["start"] * Cardinality(Paragraphs) :
        (pc[w] = "loop" /\ Open(i)) ~> (~Open(i) \/ tokens[w] >= Budget)

-----------------------------------------------------------------------------
(* What the documentation says and the code does not do.                   *)

(* docs/ARCHITECTURE.md, 4.3: each unique hash is analysed once and the    *)
(* result fanned out to every node that shares it.                         *)
FannedOut ==
    AllIdle => \A i \in RowsIn(queue, "done") : \E h \in texts[i] : <<queue[i].para, h>> \in impl

(* docs/ARCHITECTURE.md, 8: when the underlying code changes, the verified *)
(* rule is flagged stale.  Even after an enrich run has narrated the new    *)
(* text, the old rule looks current.                                       *)
ChangedRuleIsStale ==
    AllIdle => \A e \in impl :
        (e[2] # source[e[1]] /\ Current(e[1])) => ~rules[e[2]].verified \/ IsStale(cache, e[2])

(* docs/ARCHITECTURE.md, 8: every correction updates the cached narration. *)
(* It does not when a worker died after add_node and before cache.put.     *)
CorrectionIsCached ==
    AllIdle => \A h \in Hashes : rules[h].text = Correction => cache[h].text = Correction
==============================================================================
