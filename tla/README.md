# A verification of mainframe-brain

mainframe-brain extracts a knowledge graph from mainframe sources (COBOL, JCL, DB2 DDL,
triggers, VSAM, BMS maps) into one SQLite file, lets a language model narrate the business rule
of each paragraph under a token budget, lets humans approve, flag and correct the narrations,
and answers questions about the graph. This directory holds TLA+ models of the program, the
TLC runs that check them, and proofs that TLAPS checks. Paths below are relative to
`src/mainframe_brain/`.

## 1. Inventory

| Component | State it keeps | Operations | What makes it correct |
|---|---|---|---|
| Graph store (`graph/sqlite_store.py`) | tables `nodes`, `edges`, `node_history`; a lock per connection | `add_node` (look up, then upsert and append to the history), `add_edge`, readers | nothing is lost, the history tells what happened to a node |
| Enrichment queue (`enrichment/queue.py`) | table `enrichment_queue` | `add`, `next_pending`, `mark_done`, `mark_failed`, `reset_in_progress` | an item is finished once, and only after its text was narrated; a dead run's claims are taken back |
| Narration cache (`enrichment/cache.py`) | table `narration_cache`, one row per hash of a redacted source | `get`, `put`, `mark_verified`, `mark_stale`, `is_stale` | what was paid for is not paid for again; what a human approved is not overwritten |
| Enricher (`enrichment/enricher.py`) | `tokens_used` of the run | the loop of `enrich_from_queue` | budget, order of the writes, crash safety, termination |
| Triage (`cli/commands/triage.py`, `triage/`, `cli/_common.py`) | none | candidates, risk scores, greedy choice under a budget | chosen items fit the budget, the riskiest first; what is due while it reads is listed, what is current is not |
| Review (`cli/commands/verify.py`) | none of its own | `verify`, `flag`, `edit-rule`: read the rule node, write it back, then bring the cache in line | an approval survives enrich, a flag leads to a new narration, a correction is what the cache answers |
| Extraction (`cli/commands/extract.py`, `extractors/`) | none | files in order, every extractor that can handle a file, nodes then edges | the graph does not depend on the order of the files; a failed file does not damage the rest |
| Graph queries (`analytics/graph_intelligence.py`, `cli/commands/query.py`, `impact.py`) | none | bounded searches from a node | exactly the nodes within the bound, at their distances |
| Read-only commands (`query`, `explore`) | none | the edges at a node, who invokes a program | they agree with each other and with the pages |
| Skills (`skills/`) | markdown files and a manifest | eight agents in sequence, each isolated by `try`; pages written one by one, the manifest last | one agent's failure costs no other agent's pages; the manifest tells what was written; pages of one run agree |
| Redaction (`redaction/`) | none | substitutions before any call | nothing leaves unredacted; the hash is that of the redacted text |

How they interact: every command is a process of its own that opens the same SQLite file. There
are no messages; all interaction is through the tables, and every statement commits by itself. The
hard behaviours follow from that: two commands may be interleaved statement by statement, a
process may die between any two statements, and what one step read may be stale when the next
step uses it. Language-model calls fail and are retried; their cost is known only afterwards.

The hazards, each with its line and the properties that would catch it, are listed in
`PROJECT.json`.

## 2. Modules

| Module | Models |
|---|---|
| `EnrichmentQueue` | the queue's table and the effect of each of its statements |
| `NarrationCache` | the cache's table and the effect of each of its statements |
| `Enrichment` | `brain enrich`, the three review commands and re-extraction, composed over the tables they share |
| `WorkQueue` | the score of a paragraph, and the greedy loop that fills the queue of `brain triage` |
| `Triage` | `brain triage`, read by read, beside everything in `Enrichment` |
| `NarrationLedger` | abstract specification: what queue and cache promise together, without processes, claims, failures and reviews |
| `GraphStore` | the effect of `add_node` and `add_edge` on the tables `nodes`, `edges`, `node_history` |
| `AdditiveGraph` | abstract specification: the graph is what a growing list of writes leaves behind |
| `Extraction` | `brain extract`: processes that walk the files and store what the extractors return, over `GraphStore` |
| `Extractors` | what each of the eight extractors returns for one artifact, and the registry |
| `ExtractedCode` | `Extraction` with the output of `Extractors`, and what the graph then says about the code |
| `Queries` | what the store's readers, `query` and `explore` answer on a graph |
| `Skills` | `brain generate-skills`, statement by statement, beside everything in `ExtractedCode` |
| `ImpactSearch` | the searches of `query "impact of"`, `brain impact` and the cascade depth, in a graph that may grow |
| `MCEnrichment`, `MCExtraction`, `MCExtractedCode`, `MCImpactSearch`, `MCTriage`, `MCSkills` | the instances TLC checks |
| `EnrichmentProofs` | lemmas about the queue's statements, and type correctness of `Enrichment` |
| `EnrichmentSafetyProofs` | its safety invariants, and what completed reviews leave behind |
| `LedgerProofs` | that it implements `NarrationLedger` |
| `TriageProofs` | that triage only reads, type correctness of `Triage`, and its safety invariants |
| `ExtractionProofs` | type correctness of `Extraction`, its safety invariants, and that it implements `AdditiveGraph` |
| `ExtractedCodeProofs` | what each extractor's result is like for any artifact, and the properties of `ExtractedCode` |
| `SkillsProofs` | that `generate-skills` only reads, type correctness of `Skills`, and its safety invariants |
| `SearchProofs` | type correctness of `ImpactSearch`, that the distances it reports are real, that `impact of` finds its radius and the depth search the farthest node |

### Enrichment: state and actions

`source`, `rules` and `impl` are the part of the graph that enrichment touches: the text of each
paragraph (as the hash of its redacted source), the `BusinessRule` node of each hash (its rule
text, `human_verified`, flagged) and the `IMPLEMENTS_RULE` edges. `cache` and `queue` are the two
tables. A worker is one `brain enrich` process: `pc[w]` is the statement it runs next, `todo[w]`
the candidates it has not queued, `job[w]` the local variables of the item in hand, `tokens[w]`
the run's `tokens_used`. `review` is the review command in progress. `paid`, `pardons` and `texts`
are observers: no guard reads them.

| Action | Code |
|---|---|
| `Start`, `AddItem` | `cli/commands/enrich.py` 25-77, with `_triage_candidates` as one snapshot |
| `Recover` | `reset_in_progress` at the head of `enrich_from_queue` |
| `Select`, `Claim` | budget test and `next_pending`: its SELECT and its UPDATE are two steps |
| `Stop` | budget spent, or nothing pending |
| `Reuse`, `Miss` | the node and the cache are read: a fresh narration ends the item |
| `Answer`, `Fail` | the call returns, or raises and the row goes back to pending |
| `AddRule`, `AddEdge`, `PutCache`, `MarkDone` | the four writes, in the order of the code |
| `Crash` | the process dies before any statement |
| `Resolve`, `WriteNode`, `VerifyCache`, `EditCache`, `Settle`, `Abandon` | `verify`, `flag`, `edit-rule`, and their death between two writes |
| `Extract` | re-extraction stores a paragraph with another text |

Modelling decisions:

- A step is at most one committed statement. The read of the node and of the cache are one step
  (`Reuse`, `Miss`): nothing but re-extraction writes the node's source and nothing but enrich and
  review write the cache, so with one worker the two reads can be brought together. A raising call
  and its `mark_failed` are one step, because a crash between them is a crash before the call.
- A hash stands for a redacted source, and for the rule's node id: the id is made of the paragraph's
  name and eight digits of the hash, and the source begins with the name. Collisions of the eight
  digits are left out.
- Of a queue row the model keeps paragraph, risk and status. `unit_hash` is stored and never read.
- Nodes are never deleted, so the branch for a missing source node cannot be taken; the branch for
  disabled redaction cannot be taken from the CLI, which always enables it.
- An answer that is JSON but not an object makes the run die with a `TypeError` after the call: that
  is a `Crash` after `Answer`. The variant `enrich(items)` has no caller in the CLI.
- A row's risk is any member of `Risks`: the scores are modelled in `WorkQueue`.

### Triage: state and actions

`Triage` extends `Enrichment` by one process that only reads. `stage` is what it does next; `seen` and
`sources` are the lists of edges and nodes it has read, `unread` the paragraphs `_triage_candidates`
has not come to, `judged` the one between its two looks at the stale marks, `found` the items. The
queue is `ranked`, `considered`, `chosen`, `used`, `skipped`. `spent` (what was used before each item),
`wasDue` and `stayedDue` (paragraphs without a current rule at some time, or all the time, while it
read), `edited` and `marked` (a text, a stale mark has changed meanwhile) are observers.

| Action | Code |
|---|---|
| `ReadEdges`, `ReadNodes` | `cli/_common.py` 63-77: two SELECTs, so a rule can be stored in between |
| `PassOver`, `Suspect` | 78-87: the rules of one paragraph and whether one of them is current |
| `Judge` | 88-89: the marks are read again, for the reason |
| `RankFound` | `cli/commands/triage.py` 24-51: scores, token estimates, the stable sort |
| `Select1` (`Take`, `Skip`) | 52-60, and the same loop in `triage/queue.py` 56-66 |
| `Report` | the queue is printed |
| `Others` | a step of `Enrichment`: enrich, review, re-extraction, crash |

- `any(cache.is_stale(...))` reads one mark per rule; the marks of one `any` are read in one step.
- A paragraph without a rule is new: enrich takes it, triage does not list it, as in the code.
- What another command does after triage's last read cannot reach it any more; `Others` is cut off
  there until the next run.
- `RiskScore` counts in ten-thousandths, the precision the code rounds to, with the default profile: no
  caller passes another one. What is measured of a paragraph and its length are given by its text.
- `dedup_by_hash` and `compute_diff` have no caller in the program.

### Extraction: state and actions

`nodes` (a function from ids), `edges` and `history` are the three tables. A process is one
`brain extract`: `pc[p]` is what it does next, `left[p]` the files it has not come to, `at[p]` the
file, the extractor's result and the item of the result it is at, `op[p]` what `add_node` found
when it looked the node up. `Output[f]` are the results for file `f`, one for each extractor that
handles it, in the order of the registry. `order`, `clean`, `complete` and `overlapped` are
observers: no guard reads them.

| Action | Code |
|---|---|
| `Start`, `Pick`, `Finish` | `cli/commands/extract.py` 19-34, 52-55: the store is opened, the files come in the order of `rglob` (any order), the run ends |
| `Ask`, `NextFile` | the loop over the extractors, 33-39 |
| `LookUp`, `AddNode` | `add_node` in `graph/sqlite_store.py` 104-160: its look-up, and the transaction with the upsert and the row of history; the lock is released in between |
| `AddEdge` | `add_edge`, 162-183: one commit per edge, an existing edge is kept and the new one ignored |
| `EndResult` | the result is stored and counted |
| `Fail` | an exception of the extractor or of the store: the rest of the result is given up, the next extractor is asked; also a `can_handle` that cannot read the file and answers no (`cics_bms` 64-67, `db2_ddl`, `sql_pl`, `triggers`), which the command does not report |
| `Crash` | the process dies; what is committed stays |

Modelling decisions:

- `build` runs the same loop and then reads the store for its summary; it is not an action of
  its own. The numbers a run counts and prints are left out.
- A node is its id and, in `Extractors`, what later properties tell apart: which extractor (or
  kind of mention) made it, how much of it was parsed, and the job of a JCL step. The upsert
  replaces the whole row, as `ON CONFLICT DO UPDATE` does for every column that matters here.
- An artifact is given by what the regular expressions of all extractors find in it: paragraphs
  with their PERFORMs, CALLs, SELECT clauses, cards, tables, triggers. The expressions themselves are not
  modelled.
- Three extractors search a COBOL source for its PROGRAM-ID, each by itself: COBOL in the content area of
  the lines that are no comments, CICS in the raw text with its comments, VSAM there too and with a blank
  allowed before the dot. So an artifact has three fields for what they find (`program`, `screenProgram`,
  `fileProgram`), any of which may be missing or another one's. `ProgramName` and `ScreenProgram` are in
  capitals and fall back to the file's name, `FileProgram` is as written and falls back to `unknown`. The
  edges whose extractor came to another name than the COBOL extractor are `Misread`.
- The names of a code base are the domain of `Upper`, its conversion to capitals (`UpperAssumption`: it
  stays among the names, and a name in capitals is its own).
- A run is `clean` if nothing has failed, whether or not the command has reported it.
- The nodes that a mention makes on demand (a CALL's or an EXEC PGM's placeholder program, the
  table in an EXEC SQL) are in the result, in the order of the code, because that order and the
  order of the files decide which version of a node stays.
- Logical units are counted by the commands and not stored, so they are left out, like the
  extractors that are stubs.

### Skills: state and actions

`Skills` extends `ExtractedCode` by the process of `generate-skills`. `agent` and `step` are its place:
which of the eight agents, which of the agent's statements; `got` is what the agent has read, `pages`
its skills; `disk` is the output directory, `listed` and `errors` the fields of the result, `manifest`
the last `manifest.json` written. `known` (an observer) is what the graph told when the run began.

| Action | Code |
|---|---|
| `StartSkills` | `skills/orchestrator.py` 57-68 |
| `ReadNext` | one SELECT at the head of an agent, in the order of `Reads` |
| `Draft` | one page about a program, a copybook or a job: `ProgramPage`, `CopybookPage`, `JobPage` |
| `Return` | the agent returns, with its `Reports` |
| `AgentFails` | `analyze` raises: 71-73, all its pages are lost |
| `Write`, `WriteFails` | 75-86, one file |
| `WriteManifest` | 88-99 |
| `SkillsCrash` | the process dies, or the manifest cannot be written: that is outside any `try` |

- Of a page the model keeps what it says of the graph: edges out and in, and rows. Markdown is left out.
- An agent's statements for one page are taken together; the lists it reads first are steps of their own.
- The graph of these runs has not been enriched, so the agents for tests and history return nothing,
  and the risk report is a page without rows.
- `write_text` empties a file before it fills it. A write that fails or dies leaves the file as it was or
  a page that is about `Nothing` (`CutOff`), and a death at the manifest may leave none (`NoManifest`).
- The manifest's numbers are left out; its `agents_with_errors` is a count. The errors themselves are in
  the result, which the command prints, so `NothingIsLeftOut` looks at `errors`.
- `Tangled` paragraphs (`goto_density` above one half) make the patterns report appear; its list of them
  is left out. The density is rounded to four digits in the code, which matters from 10 000 statements on.

### ImpactSearch: state and actions

`nodes` and `links` are the graph; `began` (an observer) is what it was when the search began. One
search of one `kind` is made in a behaviour. `todo` is `frontier` in `query.py` and `queue` in
`graph_intelligence.py`, `found` is `visited` there and `impact_nodes` here; `seen`, `frontier`,
`layer` (`nxt`) and `depth` are the variables of `_bfs_depth`.

| Action | Code |
|---|---|
| `StartQuery`, `QueryVisit`, `QueryPass` | `cli/commands/query.py` 125-146: the first id is taken, two hops at most |
| `StartImpact`, `ImpactVisit`, `ImpactPass`, `ImpactMiss` | `analytics/graph_intelligence.py` 75-108: the last id is taken; it has been seen, is too far, or has no node |
| `StartDepth`, `DepthVisit`, `DepthNext` | `triage/risk.py` 67-83: one read of `neighbors` per node, one level after the other |
| `Write` | an extraction in another process stores a node or an edge |

Each visit is one read of the edges, so a write can fall between any two visits. `ImpactVisit` reads
twice (`get_node`, `all_edges`) in one step, because nodes are never deleted. It puts an id at the end
once where the code may put it there twice: the second time it has been seen. The order of the rows of
the table, and of a Python set, is any order. Types of edges are left out; for a depth, `links` are the
edges of its type. Sorting and printing the result are left out.

## 3. Runs

| Run | Question |
|---|---|
| `enrich_safety` | with a worker that dies anywhere, a concurrent review and a re-extraction: `TypeOK`, `Grounded`, `PaidOnce`, `OneClaim`, `Overspend`, and `KeepsLedger` (refinement of `NarrationLedger`) |
| `enrich_sequential` | with commands that run one after another: `ApprovalIsShielded`, `FreshNarrationAgrees`, `ApprovalIsKept`, and under fairness `RunEnds` and `QueueDrains` |
| `enrich_fan_out` | violated, `FannedOut`: a cache hit gives the second paragraph of a text no rule |
| `enrich_concurrent` | two enrich processes, or one and `brain triage`, with a reviewer and an edit in between: `TriageTypeOK`, `FilledByRisk`, `ListedWasDue`, `DueIsListed`, `PaidPerWorker` |
| `enrich_changed_source` | violated, `ChangedRuleIsStale`: the rule of a text that is gone stays approved and fresh |
| `enrich_correction` | violated, `CorrectionIsCached`: a correction of a rule whose worker died before `cache.put` is not cached |
| `extract_store` | two processes, an exception and a death anywhere: `TypeOK`, `EdgesAfterNodes`, `HistoryTellsNew`, `RunIsComplete`, `EndsAsWalked`, and `KeepsHistory` (refinement of `AdditiveGraph`) |
| `skills` | a code base with an artifact of every kind, its files in every order: `SourcesAreNodes`, `CallsAreConnected`, `ProgramsAreOne`; and two runs of `generate-skills` over its graph, beside the last file of the extraction, with one failure: `SkillsTypeOK`, `CallersAreCalls`, `ManifestIsTrue`, `NothingIsLeftOut`, `PagesAgreeWithQueries` |
| `extract_placeholder` | violated, `PlaceholderIsUnresolved`: a caller that comes after its callee turns the callee's node into a placeholder |
| `extract_triggers` | violated, `ChainIsResolved`: the edge of a trigger chain leads to an id no trigger has |
| `searches` | the three searches with a concurrent write: `TypeOK`, `HopsAreReal`, `QueryFindsRadius`, `DepthIsFarthest`, and under fairness `SearchEnds` |
| `search_impact` | violated, `BlastRadius`: `brain impact` leaves out nodes within the depth |

Bounds (`Max`, `Budget`, the sets in the `.cfg` files): two paragraphs and two hashes are the
smallest graph with shared texts, a changed text, and two rows that compete for the claim; two
starts allow a restart after a crash or after a spent budget, and a second row for the same
paragraph; a budget of 3 with calls that cost 2 overspends; one crash falls between any two
statements. `enrich_sequential` has two narrations, so that a re-narration can be told from the
first one, and two reviews, so that a flag can follow a verify and the other way round.
`enrich_changed_source` starts in a state that one run and one `verify` lead to. Deadlock is not
checked in these runs because the system stops: every process ends and the bounds on restarts
are used up. Paragraphs and hashes are symmetric in `enrich_safety`: nothing compares
them except for equality, and that run checks safety only.

`enrich_concurrent` begins with two narrated paragraphs, one of which may be flagged or edited, and is
left either the starts of two enrich processes or one start and one triage run, besides one review
and one edit (`EitherBound`): three commands at once are not needed for any pair of them to meet
at every statement. The three texts of `MCMeasured` are one below the threshold, one whose score is capped and damped,
and one that costs more than the allowance, so the loop skips for both reasons and takes
a cheaper item after a dear one. The processes are symmetric: nothing compares them.

`extract_store` has two files that both write one node, with different contents, and three
results, so that there is a result after a failed one, a file after an interrupted one, and a version
to lose; two runs are one after the other or overlapped, and each may be the one that fails or dies. It
has about 170 000 states.

`skills` has a code base of six files in every order, on which extractors can disagree: a program all
three extractors name alike, with a file and a screen, so that edges of all of them start at its node
(`main.cbl`); one with a PROGRAM-ID in a comment alone, so that the COBOL extractor names it after the file, in
small letters, and its files and screens start at `OLD` (`sub.cob`); a CALL and a COPY in small letters; and a job
that runs the first program twice, once in small letters, so that two programs share one page. A source in which
the VSAM extractor alone finds a name, or none (`unknown`), is left to the theorems. The extraction has one run
without exceptions; what two runs, exceptions and deaths can do is the question of `extract_store` and of the
theorems. `generate-skills` runs at any time at which nothing but files of `Late` is left: that is `main.cbl`,
which calls and reads, so edges appear between any two of its statements. Two runs and one failure (of an agent,
a write or the process) let a page of a dead run, or an empty one, stand beside the manifest of the run before.
The view leaves out what no property reads and no later step depends on: the order in which writes and
errors came about, and of the nodes all but the ids and which paragraphs are tangled. It has about 420 000 states.
Deadlock is not checked because runs end. Extraction has no liveness property and needs no fairness: a run's
length is fixed by its files.

`searches` begins in each graph over six edges among four ids (`MCLinks`: cycles, an edge to itself,
two ways to one node, with and without a node for one id), and one write of any node or edge may come at any
moment. `--depth` is 2 instead of 3: the shortest graph in which a detour hides a node then has four nodes.
Weak fairness on the search's next visit is assumed: it is a loop without waits. Deadlock is not
checked because the search ends.

Fairness: weak fairness on a running worker's next statement and on a review's next statement, and
strong fairness on `Answer`, because the loop asks again at once after a failure and a
model that is asked again and again answers some time. Without that assumption the code does not
terminate: `mark_failed` makes the failed item the next one. Nothing is assumed about starting
commands or re-extraction, and the liveness properties are checked for runs that do not crash.

## 4. Proofs

The theorems hold for every value of the constants that satisfies the named assumptions.

Enrichment, for every set of paragraphs, hashes, narrations and workers, every budget and every bound
on the events (`RisksAssumption`, `BlankAssumption`, `EnrichmentAssumption`):

| Theorem | Statement | Argument |
|---|---|---|
| `TypeCorrect` | `Spec => []TypeOK` | one lemma per kind of step |
| `BudgetHolds` | `Spec => []Overspend`, for any number of workers | a worker on its way to a call has budget left |
| `GroundedAlways` | `Spec => []Grounded`, for any number of workers | while a rule is written, each step leaves what the next one needs; graph and edges only grow |
| `ClaimsAreTakenBack` | `Spec => []OneClaim`, one worker | the program counter says which rows can be claimed; between items none is |
| `NeverPaidTwice` | `Spec => []PaidOnce`, one worker | a payment that nothing excuses is in the cache and fresh, or in the worker's hands; a worker about to pay owes nothing |
| `NoProcessPaysTwice` | `Spec => []PaidPerWorker`, finitely many workers | `ShareInv`: since its last pardon a hash that is not fresh was paid for by the processes that hold an answer, a fresh one by no process that is about to ask |
| `KeepsTheLedger` | `Spec => KeepsLedger`, one worker | an open row remembers its paragraph's present text; what a worker is about to finish is open and narrated |

"One worker" is the hypothesis `OneWorker`: at most one enrich process at a time. It is needed:
`next_pending` is a SELECT and an UPDATE that does not look at the status again, so two processes can
claim one row, although its docstring says "atomically" (`enrichment/queue.py` 67). What is left
for several processes is `PaidPerWorker`.

Reviews, for commands that run one after another and do not die (`Sequential`: one worker, no
review while it runs, no crash):

| Theorem | Statement | Argument |
|---|---|---|
| `ApprovalsAreShielded` | `Spec => []ApprovalIsShielded` | `SequentialInv`: rule and cached narration appear and change together but for the statement that is between them (`StoryInv`); a review knows the node as it is (`ReviewInv`) |
| `GraphAndCacheAgree` | `Spec => []FreshNarrationAgrees` | the same |
| `ApprovalsAreKept` | `Spec => ApprovalIsKept` | a worker narrates only what is not fresh (`ItemInv`), so nothing that is verified |

The hypothesis is needed: a run that dies between `add_node` and `cache.put` leaves a rule without a cached
narration, and a `verify` of it has no row to shield it with.

Triage, for every measure of the paragraphs, every allowance and threshold, and any number of workers,
reviews, edits and crashes (`MeasuredAssumption`, `AllowanceAssumption`, and those of enrichment):

| Theorem | Statement | Argument |
|---|---|---|
| `TriageOnlyReads` | `TriageSpec => Spec` | no step of triage changes a variable of `Enrichment`, so every theorem above holds beside it |
| `TriageTyped` | `TriageSpec => []TriageTypeOK` | a score is at most the cap, whatever was measured |
| `QueueFilledByRisk` | `TriageSpec => []FilledByRisk` | `GreedySoFar`: what was used is the sum of what was taken, and an item left out did not fit then |
| `WhatIsListedWasDue` | `TriageSpec => []ListedWasDue` | `DueInv`: the edges read are still there, a rule stored since is for a paragraph that was due before (`SeenInv`), and a suspect was due when it was judged (`JudgedInv`); uses `GroundedAlways` |
| `WhatIsDueIsListed` | `TriageSpec => []DueIsListed` | `PendingInv`: what was due all the time and is not listed has not been come to, or is in hand |

Extraction, for every set of files and processes, every output of the extractors and every bound on
runs, exceptions and deaths (`OutputAssumption`, `BoundAssumption`):

| Theorem | Statement | Argument |
|---|---|---|
| `TypeCorrect` | `Spec => []TypeOK` | a step moves one process, to a position in its file's results; the others stay |
| `EdgesFollowNodes` | `Spec => []EdgesAfterNodes` | `ProgressInv`: the nodes a process has passed in the result at hand are stored, and nothing is ever taken from the store |
| `CompleteRuns` | `Spec => []RunIsComplete` | `RunInv`: while nothing has failed, all of every file left behind is stored, of the file at hand every result passed, and of that result every edge passed |
| `HistoryIsTrue` | `Spec => []HistoryTellsNew` | `HistoryInv`: the ids in the history are the ids in the table; without overlap one process at a time is between look-up and write, so what it found still holds |
| `StoreKeepsHistory` | `Spec => KeepsHistory` | `LastInv`: every node is what the last row of its id says, so the table is a function of the history, and `AddNode` and `AddEdge` are steps of `AdditiveGraph` |
| `WalkDecides` | `Spec => []EndsAsWalked` | while a run is clean and alone, the table shows, for each id its walk has written so far, the last write of it; the fold over the walk's files grows with the walk, one result at a time |
| `CodeDecides` | `Spec => []GraphIsTheCode`: after a run without exceptions the ids and edges in the graph are exactly those of the code, and a node that all results describe alike is as they describe it | `FoundInv`: a stored node is one that some result has; the rest from `EdgesAfterNodes` and `RunIsComplete` |

What the extractors return, for every set of files and every code base: `CodeAssumption` says that each
file holds an artifact of `Artifact`, with any names, and that `Output` is what
`Results` makes of it; `UpperAssumption` that capitals are names.

| Theorem | Statement | Argument |
|---|---|---|
| `CallsStayConnected` | `Spec => []CallsAreConnected` | `EdgesFit`: of each extractor's result, a CALL or an EXEC PGM leads from a node of the result to a program among its nodes; then `EdgesFollowNodes` |
| `ProgramsStayOne` | `Spec => []ProgramsAreOne` | `ResultsName`: a program among the nodes of a result has the name of the source or of a CALL, which are in capitals, or that of an EXEC PGM of the deck, card by card; then `FoundInv` |
| `EdgesStartAtNodes` | `Spec => []SourcesAreNodes` | each edge starts at a node of its own result, or at the program that the COBOL extractor makes of the same file, or is in `Misread`; then `CompleteRuns`. An edge in `Misread` starts at a program's id, and such a node is a source's or a placeholder with its CALL or EXEC PGM (`PlaceholdersAreMentioned`) |
| `PlaceholdersAreMentioned` | `Spec => []ProgramsAreTold`: after such a run each source's program has a node, its own unless another program calls it or a step executes it, and no placeholder is without that edge | `Mentioned`: in each extractor's result, a node for a program that is not the source's comes with the CALL or EXEC PGM of another node; of a deck, card by card; then `FoundInv` and `RunIsComplete` |

Skills, for every code base and any number of extractions, runs and failures beside it:

| Theorem | Statement | Argument |
|---|---|---|
| `SkillsOnlyRead` | `SkillsSpec => Spec` | no step of `generate-skills` changes a variable of `Extraction`, so the theorems above hold beside it |
| `SkillsTypeCorrect` | `SkillsSpec => []SkillsTypeOK` | one lemma per kind of step |
| `ManifestHolds` | `SkillsSpec => []ManifestIsTrue` | `RunsInv`: what is listed is of the present run, a page of the present run is listed unless it was emptied, and the last manifest is of an earlier run |
| `PagesAgree` | `SkillsSpec => []CallersAreCalls` | `DraftInv`: while the pages of programs are made, the list that their callers come from is still at hand, and a page's calls, read later, contain what that list has of them; `StageInv` keeps other agents' pages apart |
| `PagesTellTheGraph` | `SkillsSpec => []PagesAgreeWithQueries`: calls, tables and files whose both ends were stored when the run began are on the page | `ReadInv`: what an agent has read has what the graph told when the run began, and is still in the graph; `TellInv` says so of the pages |
| `RunsLeaveNothingOut` | `SkillsSpec => []NothingIsLeftOut` | `OwedInv`: what an agent that is done owed is listed or in the errors; what the one that is writing owes is so, or still to be written |

Searches, for every finite set of ids, every graph and depth, and any number of concurrent writes
(`GraphAssumption`, `SearchAssumption`):

| Theorem | Statement | Argument |
|---|---|---|
| `TypeCorrect` | `Spec => []TypeOK` | the bounds of two hops and of `--depth` are tested before a hit is noted |
| `HopsExist` | `Spec => []HopsAreReal` | `RealInv`: every id in the queue has a walk of its distance, every node of a level one of the level's depth; walks stay when the graph grows |
| `RadiusIsFound` | `Spec => []QueryFindsRadius` | `RadiusInv`: the queue holds noted ids at their distances and in that order, no noted id is more than one hop behind its first (`OrderInv`), and what was beside a visited id is noted at most one hop farther; a query that has ended has nothing left to visit below two hops |
| `DepthIsReached` | `Spec => []DepthIsFarthest` | `DepthInv`: what is beside a seen id is seen or in the level at hand, and every seen id has a walk no longer than its level; that a walk of any length stays among the seen ids is shown by its first step that leaves them |

`RunIsComplete` and `EdgesAfterNodes` are not inductive: both depend on where in its result each
process is, which is what the strengthened invariants say.

`PlaceholdersAreMentioned` is what remains of the doc that `extract_placeholder` refutes: a placeholder may stand
where a source has been extracted, but only because something mentions the program. `GraphIsTheCode` and
`ProgramsAreTold` are stated in the proof modules; no run lists them, TLC was asked for them on the code base
of `MCExtractedCode` before they were proved. So were the invariants of `SkillsProofs`, on the code base
of `skills`.

Only model-checked: `RunEnds`, `QueueDrains` and `SearchEnds`, the liveness properties, which need fairness and
ENABLED. Every invariant and action property of a passing run, and both refinements, are theorems.

Induction over data (walks of any length, cards of a job, the files of a walk) is not done by a theorem
of induction, whose parameter the provers cannot instantiate. Where it is needed, the proofs either let the invariant
carry it, one step of the program at a time, or take the least number that has a
counterexample: a set of naturals that is not empty has a least member.

## 5. Observations

Beside the runs that are expected to be violated, modelling showed some behaviour that no property judges:

- No extractor writes an edge from a job to its steps, so every workflow page says that no steps were
  found (`skills/workflow.py` 25), and no `DERIVED_FROM` edge, so no copybook page lists fields
  (`skills/copybook.py` 25).
- `_program_for` in `skills/patterns.py` 115-128 is given a paragraph that is performed; its column never
  names a program.
- Two names that differ in case, blanks or underscores share a page, and the page of a copybook
  called OVERVIEW is replaced by the copybook overview.
- `agents_with_errors` in the manifest counts errors, also those of single pages
  (`skills/orchestrator.py` 93).
- `can_handle` of four extractors answers no when a file cannot be read: the file is passed over and the
  command reports no failure.
- A deck that does not write EXEC PGM in capitals gives a program a second node
  (`extractors/jcl/extractor.py` 296), which `ProgramsAreOne` allows for.
- The incremental update that `skills/__init__.py` 7-8 speaks of is not implemented: every run writes
  all pages, and removes none.

## 6. What is not modelled

The text parsers of the extractors (regular expressions over source lines), custom risk profiles, `dedup` and
`diff` (no caller), the agents for tests and history, the wording of prompts and redaction patterns,
markdown output, the network clients of the model adapters, the web site.

## 7. What is left

1. Skills over an enriched store, for the agents that read rules, and triage after re-extraction
   of the whole code base, which needs `Enrichment` over the graph of `Extraction`.
2. Redaction and its flags: that the hash stored, the hash looked up and the hash sent are the same.
3. Proofs: which of two descriptions of one node stays (`EndsAsWalked` has it as a fold over a run's walk),
   stated for the kinds of node that two extractors describe.
4. The two hazards about node ids (a table in EXEC SQL that replaces the DDL's, steps of the same
   name in two jobs), which are modelled and judged by no property.
